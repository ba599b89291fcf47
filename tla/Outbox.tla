------------------------------- MODULE Outbox -------------------------------
(***************************************************************************)
(* What the write-ahead delivery queue promises its callers: a message that  *)
(* was accepted stays owed until it was sent or given up, and a message that *)
(* is no longer owed is not sent again unless it is owed again first.        *)
(***************************************************************************)
CONSTANTS
  Messages,
  Waivable   \* messages whose sender accepts that they are dropped

VARIABLES
  owed,      \* messages persisted and not settled
  reopened,  \* messages that were settled and are, or were, owed again
  accepted,  \* messages that were ever persisted
  sent,      \* messages handed to their channel at least once
  givenUp    \* messages aborted by their caller or moved to failed/

outboxVars == <<owed, reopened, accepted, sent, givenUp>>

OutboxInit ==
  /\ owed = {} /\ reopened = {}
  /\ accepted = {} /\ sent = {} /\ givenUp = {}

Accept(m) ==
  /\ m \notin accepted
  /\ owed' = owed \cup {m}
  /\ accepted' = accepted \cup {m}
  /\ UNCHANGED <<reopened, sent, givenUp>>

\* A channel takes a message that is owed, or one that was never persisted.
Send(m) ==
  /\ m \in owed \/ m \notin accepted
  /\ sent' = sent \cup {m}
  /\ UNCHANGED <<owed, reopened, accepted, givenUp>>

\* The caller aborts a message that is owed.
Abandon(m) ==
  /\ m \in owed
  /\ givenUp' = givenUp \cup {m}
  /\ UNCHANGED <<owed, reopened, accepted, sent>>

\* The queue stops owing m.
Settle(m) ==
  /\ m \in owed
  /\ m \in sent \cup givenUp \cup Waivable
  /\ owed' = owed \ {m}
  /\ UNCHANGED <<reopened, accepted, sent, givenUp>>

\* The queue stops owing m and keeps it for inspection.
GiveUp(m) ==
  /\ m \in owed
  /\ owed' = owed \ {m}
  /\ givenUp' = givenUp \cup {m}
  /\ UNCHANGED <<reopened, accepted, sent>>

\* A late writer brings m back.
Reopen(m) ==
  /\ m \in accepted \ owed
  /\ owed' = owed \cup {m}
  /\ reopened' = reopened \cup {m}
  /\ UNCHANGED <<accepted, sent, givenUp>>

OutboxNext ==
  \E m \in Messages :
    \/ Accept(m) \/ Send(m) \/ Abandon(m)
    \/ Settle(m) \/ GiveUp(m) \/ Reopen(m)

OutboxSpec == OutboxInit /\ [][OutboxNext]_outboxVars

=============================================================================
