---------------------------- MODULE FollowupQueue ----------------------------
(***************************************************************************)
(* The followup queue of one session (src/auto-reply/reply/queue/*.ts and    *)
(* src/utils/queue-helpers.ts): messages that arrive while the session's     *)
(* agent run is active wait in FOLLOWUP_QUEUES under the session key, and a  *)
(* drain replays them one by one or collected in batches.                    *)
(*                                                                          *)
(* The map entry of the key is replaced over time while an old drain may     *)
(* still hold the old queue object, so queue objects have an identity.  A    *)
(* step of the model is what runs between two awaits.                        *)
(***************************************************************************)
EXTENDS Integers, Sequences, FiniteSets, Functions

CONSTANTS
  Origins,      \* records [route, auth]: where a message came from, who sent it
  Settings,     \* records [mode, cap, drop]: settings a message may arrive with
  MaxMessages,  \* bound: messages of the session
  MaxQueues,    \* bound: queue objects created for the key
  MaxClears,    \* bound: calls of clearSessionQueues
  MaxMainRuns,  \* bound: runs of inbound messages that find the session idle
  MaxEmbedded,  \* bound: embedded runs without a reply operation
  MaxFailures   \* bound: runs that throw, other than for a busy session

ASSUME FollowupQueueAssumption ==
  /\ MaxMessages \in Nat
  /\ MaxQueues \in Nat
  /\ MaxClears \in Nat
  /\ MaxMainRuns \in Nat
  /\ MaxEmbedded \in Nat
  /\ MaxFailures \in Nat
  /\ \A s \in Settings : /\ s.mode \in {"collect", "followup"}
                         /\ s.cap \in Nat \ {0}
                         /\ s.drop \in {"summarize", "old", "new"}
  /\ \A o, p \in Origins : o.route = p.route /\ o.auth = p.auth => o = p

Messages == 1..MaxMessages
Queues == 1..MaxQueues

\* The owner of the session's reply operation is a queue whose drain runs a
\* followup, the run of an inbound message, or nobody.
Nobody == 0
MainRun == -1

VARIABLES
  current,   \* the queue object under the key, or 0
  created,   \* how many queue objects were made
  queue,     \* queue[q]: items, mode, cap, drop, dropped, hasRun
  pc,        \* pc[q]: the await of the drain of q, "off" if q.draining is false
  job,       \* job[q]: what the drain of q passes to runFollowup
  force,     \* queues whose drain has forceIndividualCollect
  owner,     \* who holds the reply operation of the session
  embedded,  \* an embedded run is registered that belongs to no reply operation
  arrived,   \* messages so far, numbered by arrival
  origin,    \* origin[m] of a message that arrived
  accepted,  \* messages that enqueueFollowupRun pushed, in order
  clears, mainRuns, embeddedRuns, failures,
  ran,       \* ran[q]: messages whose prompts runs of q's drain completed, in order
  summarised, shed, cleared  \* messages told in a summary, dropped by policy, cleared

mapVars == <<current, created>>
drainVars == <<pc, job, force>>
inputVars == <<arrived, origin, accepted>>
fateVars == <<ran, summarised, shed, cleared>>
activityVars == <<owner, embedded>>
countVars == <<clears, mainRuns, embeddedRuns, failures>>
vars == <<mapVars, queue, drainVars, activityVars, inputVars, countVars, fateVars>>

\* covers: messages whose prompts are in the run; told: messages in its summary;
\* take: items removed on success; rest: the groups of the batch that follow.
NoJob == [covers |-> <<>>, told |-> {}, take |-> 0, rest |-> <<>>]

NewQueue == [items |-> <<>>, mode |-> "collect", cap |-> 1, drop |-> "new",
             dropped |-> {}, hasRun |-> FALSE]

TypeOK ==
  /\ current \in 0..created
  /\ created \in 0..MaxQueues
  /\ \A q \in Queues :
       /\ queue[q].items \in Seq(Messages)
       /\ queue[q].items # <<>> => \E s \in Settings : Len(queue[q].items) <= s.cap
       /\ queue[q].dropped \subseteq Messages
       /\ queue[q].hasRun \in BOOLEAN
       /\ job[q].covers \in Seq(Messages)
       /\ job[q].told \subseteq Messages
  /\ pc \in [Queues -> {"off", "debounce", "begin", "run"}]
  /\ force \subseteq Queues
  /\ owner \in Queues \cup {Nobody, MainRun}
  /\ embedded \in BOOLEAN
  /\ arrived \in 0..MaxMessages
  /\ origin \in [1..arrived -> Origins]
  /\ accepted \in Seq(1..arrived)
  /\ clears \in 0..MaxClears
  /\ mainRuns \in 0..MaxMainRuns
  /\ embeddedRuns \in 0..MaxEmbedded
  /\ failures \in 0..MaxFailures
  /\ ran \in [Queues -> Seq(Messages)]
  /\ summarised \cup shed \cup cleared \subseteq Messages

Init ==
  /\ current = 0
  /\ created = 0
  /\ queue = [q \in Queues |-> NewQueue]
  /\ pc = [q \in Queues |-> "off"]
  /\ job = [q \in Queues |-> NoJob]
  /\ force = {}
  /\ owner = Nobody
  /\ embedded = FALSE
  /\ arrived = 0
  /\ origin = <<>>
  /\ accepted = <<>>
  /\ clears = 0
  /\ mainRuns = 0
  /\ embeddedRuns = 0
  /\ failures = 0
  /\ ran = [q \in Queues |-> <<>>]
  /\ summarised = {} /\ shed = {} /\ cleared = {}

-----------------------------------------------------------------------------
(***************************************************************************)
(* Starting and ending a drain.                                              *)
(***************************************************************************)

\* The condition of the drain's loop and of its finally block.
Pending(u) == u.items # <<>> \/ u.dropped # {}

\* scheduleFollowupDrain for the queue c under the key: a drain of nothing ends
\* at once and deletes the entry.
Schedule(c, qs, pcs) ==
  IF c = 0 \/ (c # 0 => pcs[c] # "off") THEN [current |-> c, pc |-> pcs]
  ELSE IF Pending(qs[c])
       THEN [current |-> c, pc |-> [pcs EXCEPT ![c] = "debounce"]]
       ELSE [current |-> 0, pc |-> pcs]

\* The finally block of the drain of q.  It deletes whatever is under the key.
EndDrain(q, qs) ==
  LET idle == [pc EXCEPT ![q] = "off"]
  IN IF Pending(qs[q]) THEN Schedule(current, qs, idle)
     ELSE [current |-> 0, pc |-> idle]

\* The loop of the drain of q goes round.
NextRound(q, qs) ==
  IF Pending(qs[q]) THEN [current |-> current, pc |-> [pc EXCEPT ![q] = "debounce"]]
  ELSE EndDrain(q, qs)

\* Continue with r, the result of one of the three above.
Resume(r) ==
  /\ current' = r.current
  /\ pc' = r.pc
  /\ job' = [q \in Queues |-> IF r.pc[q] \in {"begin", "run"} THEN job[q] ELSE NoJob]
  /\ force' = {q \in force : r.pc[q] # "off"}

-----------------------------------------------------------------------------
(***************************************************************************)
(* Inbound messages.                                                         *)
(***************************************************************************)

\* getFollowupQueue: the object under the key with the settings applied.
Applied(s) ==
  [IF current = 0 THEN NewQueue ELSE queue[current]
     EXCEPT !.mode = s.mode, !.cap = s.cap, !.drop = s.drop]

Target == IF current = 0 THEN created + 1 ELSE current

Obtain == Target <= MaxQueues /\ created' = IF Target > created THEN Target ELSE created

\* Mutant: room for the new item is not made when the queue is just full.
OverflowLate(u) == IF Len(u.items) > u.cap THEN Len(u.items) - u.cap ELSE 0

\* applyQueueDropPolicy: how many items make room for a new one.
Overflow(u) == IF Len(u.items) >= u.cap THEN Len(u.items) - u.cap + 1 ELSE 0

\* isRunActive: a reply operation of the session, or an embedded run that is
\* registered for it.
RunActive == owner # Nobody \/ embedded

\* runReplyAgent starts a run for an inbound message.  It found the session idle,
\* but an embedded run may have begun since.
StartMainRun ==
  /\ owner = Nobody
  /\ mainRuns < MaxMainRuns
  /\ mainRuns' = mainRuns + 1
  /\ owner' = MainRun
  /\ UNCHANGED <<mapVars, queue, drainVars, embedded, inputVars, clears, embeddedRuns,
                 failures, fateVars>>

\* Mutant: the end of a run does not schedule the drain.
EndMainRunSilent ==
  /\ owner = MainRun
  /\ owner' = Nobody
  /\ UNCHANGED <<mapVars, queue, drainVars, embedded, inputVars, countVars, fateVars>>

\* finalizeWithFollowup, then the reply operation completes.
EndMainRun ==
  /\ owner = MainRun
  /\ owner' = Nobody
  /\ Resume(Schedule(current, queue, pc))
  /\ UNCHANGED <<created, queue, embedded, inputVars, countVars, fateVars>>

\* An agent command runs in the session without a reply operation.  Its end
\* schedules no drain.
BeginEmbedded ==
  /\ ~embedded
  /\ embeddedRuns < MaxEmbedded
  /\ embeddedRuns' = embeddedRuns + 1
  /\ embedded' = TRUE
  /\ UNCHANGED <<mapVars, queue, drainVars, owner, inputVars, clears, mainRuns,
                 failures, fateVars>>

EndEmbedded ==
  /\ embedded
  /\ embedded' = FALSE
  /\ UNCHANGED <<mapVars, queue, drainVars, owner, inputVars, countVars, fateVars>>

(***************************************************************************)
(* enqueueFollowupRun of message m with settings s (applyQueueDropPolicy     *)
(* makes room or refuses), which does not start a drain itself, then the     *)
(* liveness check of runReplyAgent, which does if no run is active.  The     *)
(* decision to enqueue rests on a snapshot of the activity, which may be     *)
(* stale.                                                                    *)
(***************************************************************************)
Push(m, s) ==
  LET u == Applied(s)
      out == Range(SubSeq(u.items, 1, Overflow(u)))
      pushed == [u EXCEPT
        !.items = Append(SubSeq(@, Overflow(u) + 1, Len(@)), m),
        !.dropped = IF u.drop = "summarize" THEN @ \cup out ELSE @,
        !.hasRun = TRUE]
      refused == Overflow(u) > 0 /\ u.drop = "new"
      qs == [queue EXCEPT ![Target] =
               IF refused THEN [u EXCEPT !.hasRun = TRUE] ELSE pushed]
  IN /\ Obtain
     /\ queue' = qs
     /\ shed' = IF refused THEN shed \cup {m}
                ELSE IF u.drop = "old" THEN shed \cup out ELSE shed \ {m}
     /\ accepted' = IF refused THEN accepted ELSE Append(accepted, m)
     /\ Resume(IF RunActive THEN [current |-> Target, pc |-> pc]
               ELSE Schedule(Target, qs, pc))
     /\ UNCHANGED <<activityVars, countVars, ran, summarised, cleared>>

Enqueue(o, s) ==
  /\ arrived < MaxMessages
  /\ arrived' = arrived + 1
  /\ origin' = Append(origin, o)
  /\ Push(arrived + 1, s)

\* Mutant: a message that was queued before is queued again.
RedeliverUnchecked(m, s) ==
  /\ m \in Range(accepted)
  /\ UNCHANGED <<arrived, origin>>
  /\ Push(m, s)

\* The channel delivers m again.  RECENT_QUEUE_MESSAGE_IDS knows it, unless it
\* was refused; the queue object is obtained in any case.
Redeliver(m, s) ==
  LET qs == [queue EXCEPT ![Target] = Applied(s)]
  IN /\ m \in Range(accepted)
     /\ Obtain
     /\ queue' = qs
     /\ Resume(IF RunActive THEN [current |-> Target, pc |-> pc]
               ELSE Schedule(Target, qs, pc))
     /\ UNCHANGED <<activityVars, inputVars, countVars, fateVars>>

RedeliverRefused(m, s) ==
  /\ m \in 1..arrived \ Range(accepted)
  /\ UNCHANGED <<arrived, origin>>
  /\ Push(m, s)

-----------------------------------------------------------------------------
(***************************************************************************)
(* The drain.                                                                *)
(***************************************************************************)

\* A summary can be built and there is a run to take the agent's settings from.
SummaryDue(u) == u.drop = "summarize" /\ u.dropped # {}

Mixed(u) == Cardinality({origin[m].route : m \in Range(u.items)}) > 1

\* Mutant: the batch is not split.
FirstGroupAll(s) == s

\* splitCollectItemsByAuthorization: the first group is the longest prefix of one
\* authorization key.
FirstGroup(s) ==
  LET n == CHOOSE k \in 1..Len(s) :
             /\ \A i \in 1..k : origin[s[i]].auth = origin[s[1]].auth
             /\ k = Len(s) \/ origin[s[k + 1]].auth # origin[s[1]].auth
  IN SubSeq(s, 1, n)

\* Mutant: the newest item runs, the oldest is removed.
SingleLast(u) == [NoJob EXCEPT !.covers = <<u.items[Len(u.items)]>>, !.take = 1]

\* A run of the next item alone.
Single(u) == [NoJob EXCEPT !.covers = <<Head(u.items)>>, !.take = 1]

\* A run of nothing but the summary.
SummaryOnly(u) == [NoJob EXCEPT !.told = u.dropped]

\* The summary takes the place of the prompt of the next item.
SummaryForHead(u) == [SummaryOnly(u) EXCEPT !.take = 1]

\* A run of the first group of s, a slice of the items made when the batch
\* began, with a summary of told.
Batch(s, told) ==
  LET group == FirstGroup(s)
  IN [covers |-> group, told |-> told, take |-> Len(group),
      rest |-> SubSeq(s, Len(group) + 1, Len(s))]

\* Whether the drain of q takes items one by one: once the batch was mixed it
\* never collects again.
Individually(q) == q \in force \/ Mixed(queue[q])

(***************************************************************************)
(* The debounce of q is over: what the round of the loop runs, or a break.   *)
(***************************************************************************)
StartJob(q, j) ==
  /\ job' = [job EXCEPT ![q] = j]
  /\ pc' = [pc EXCEPT ![q] = "begin"]
  /\ UNCHANGED current

Decide(q) ==
  LET u == queue[q]
      told == IF SummaryDue(u) THEN u.dropped ELSE {}
      collecting == u.mode = "collect"
      some == u.items # <<>>
  IN /\ pc[q] = "debounce"
     /\ \/ /\ collecting
           /\ force' = IF Mixed(u) THEN force \cup {q} ELSE force
           /\ \/ some /\ Individually(q) /\ StartJob(q, Single(u))
              \/ some /\ ~Individually(q) /\ StartJob(q, Batch(u.items, told))
              \/ ~some /\ told # {} /\ u.hasRun /\ StartJob(q, SummaryOnly(u))
        \/ /\ ~collecting
           /\ UNCHANGED force
           /\ \/ some /\ told = {} /\ StartJob(q, Single(u))
              \/ some /\ told # {} /\ u.hasRun /\ StartJob(q, SummaryForHead(u))
        \/ /\ ~some
           /\ told = {} \/ ~u.hasRun \/ ~collecting
           /\ Resume(EndDrain(q, queue))
     /\ UNCHANGED <<created, queue, activityVars, inputVars, countVars, fateVars>>

\* createReplyOperation succeeds only for an idle session; otherwise the run
\* throws and the drain ends, to be scheduled again.
BeginRun(q) ==
  /\ pc[q] = "begin"
  /\ \/ /\ owner = Nobody
        /\ owner' = q
        /\ pc' = [pc EXCEPT ![q] = "run"]
        /\ UNCHANGED <<current, job, force>>
     \/ /\ owner # Nobody
        /\ UNCHANGED owner
        /\ Resume(EndDrain(q, queue))
  /\ UNCHANGED <<created, queue, embedded, inputVars, countVars, fateVars>>

\* runFollowup resolves: the items it took are removed from the front of what
\* the queue holds now, and the summary state is cleared if one was told.
RunSucceeds(q) ==
  LET j == job[q]
      qs == [queue EXCEPT
               ![q].items = SubSeq(@, j.take + 1, Len(@)),
               ![q].dropped = IF j.told # {} THEN {} ELSE @]
  IN /\ pc[q] = "run"
     /\ owner' = Nobody
     /\ queue' = qs
     /\ ran' = [ran EXCEPT ![q] = @ \o j.covers]
     /\ summarised' = summarised \cup j.told
     /\ \/ /\ j.rest # <<>>
           /\ StartJob(q, Batch(j.rest, {}))
           /\ UNCHANGED force
        \/ j.rest = <<>> /\ Resume(NextRound(q, qs))
     /\ UNCHANGED <<created, embedded, inputVars, countVars, shed, cleared>>

RunFails(q) ==
  /\ pc[q] = "run"
  /\ failures < MaxFailures
  /\ failures' = failures + 1
  /\ owner' = Nobody
  /\ Resume(EndDrain(q, queue))
  /\ UNCHANGED <<created, queue, embedded, inputVars, clears, mainRuns, embeddedRuns,
                 fateVars>>

-----------------------------------------------------------------------------
\* clearSessionQueues, when the session is stopped, reset or deleted: the object
\* is emptied and leaves the map; a drain that holds it goes on.
ClearSessionQueues ==
  /\ current # 0
  /\ clears < MaxClears
  /\ clears' = clears + 1
  /\ cleared' = cleared \cup Range(queue[current].items) \cup queue[current].dropped
  /\ queue' = [queue EXCEPT ![current].items = <<>>, ![current].dropped = {},
                            ![current].hasRun = FALSE]
  /\ current' = 0
  /\ UNCHANGED <<created, drainVars, activityVars, inputVars, mainRuns, embeddedRuns,
                 failures, ran, summarised, shed>>

DrainStep(q) == Decide(q) \/ BeginRun(q) \/ RunSucceeds(q)

Next ==
  \/ StartMainRun \/ EndMainRun
  \/ BeginEmbedded \/ EndEmbedded
  \/ \E o \in Origins, s \in Settings : Enqueue(o, s)
  \/ \E m \in Messages, s \in Settings : Redeliver(m, s) \/ RedeliverRefused(m, s)
  \/ \E q \in Queues : DrainStep(q) \/ RunFails(q)
  \/ ClearSessionQueues

\* Runs end, debounce timers fire.
Fairness == WF_vars(EndMainRun) /\ \A q \in Queues : WF_vars(DrainStep(q))

Spec == Init /\ [][Next]_vars
LiveSpec == Spec /\ Fairness

-----------------------------------------------------------------------------
(***************************************************************************)
(* Properties.                                                               *)
(***************************************************************************)

AllRan == UNION {Range(ran[q]) : q \in Queues}

\* The prompt of a message is in at most one run that succeeds, whatever
\* redeliveries, retries, overflows and clears happen meanwhile.
AtMostOnce ==
  \A q, p \in Queues : \A i \in DOMAIN ran[q], j \in DOMAIN ran[p] :
    ran[q][i] = ran[p][j] => q = p /\ i = j

\* A drain runs messages in the order in which they were queued, also after a
\* failed batch and when the head of the queue was dropped under a run.
RunsInOrder ==
  \A q \in Queues : \A i, j \in DOMAIN ran[q] :
    i < j => \E x, y \in DOMAIN accepted :
               x < y /\ accepted[x] = ran[q][i] /\ accepted[y] = ran[q][j]

\* "Enqueue each message for a later agent turn after the current run ends": a queue
\* with work under the key has someone who will drain it.  That is its own drain, the
\* run of an inbound message, whose end schedules one, after a clear the drain of the
\* object it replaced, or else a run that is still active.
PendingHasDriver ==
  current # 0 /\ Pending(queue[current]) =>
    \/ pc[current] # "off"
    \/ owner = MainRun
    \/ clears > 0 /\ \E q \in 1..(current - 1) : pc[q] # "off"
    \/ embedded

\* No step leaves work without a driver, neither a push on a stale snapshot, nor a
\* failed run, nor the end of a drain of another object, except the end of an
\* embedded run that has no reply operation.
DriverIsKept == [][PendingHasDriver => PendingHasDriver' \/ (embedded /\ ~embedded')]_vars

\* A run never puts messages of different authorization in one prompt, nor
\* messages of different routes, although the queue changes between its runs.
RunsAreUniform ==
  \A q \in Queues : Cardinality({origin[m] : m \in Range(job[q].covers)}) <= 1

\* Every queue that is being drained is emptied: dropped messages are summarised and
\* a drain does not go round for ever.
PendingDrains ==
  \A q \in Queues :
    current = q /\ pc[q] # "off" ~> ~(current = q /\ Pending(queue[q]))

\* A message that was queued runs, is told in a summary, is dropped by the
\* policy or is cleared; until then a queue that is
\* under the key or has a drain holds it.
NoSilentLoss ==
  \A m \in Range(accepted) :
    \/ m \in AllRan \cup summarised \cup shed \cup cleared
    \/ \E q \in Queues :
         /\ q = current \/ pc[q] # "off"
         /\ \/ m \in Range(queue[q].items) \cup queue[q].dropped
            \/ m \in Range(job[q].covers) \cup job[q].told

=============================================================================
