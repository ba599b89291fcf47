--------------------------- MODULE MCDeliveryQueue ---------------------------
(* Instance of DeliveryQueue for TLC: two messages, the startup recovery and   *)
(* one reconnect drain.                                                        *)
EXTENDS DeliveryQueue

CONSTANTS recovery, drain   \* the two workers

\* The drain belongs to the account of the first message.
FirstMatches == [k \in {drain} |-> {1}]

=============================================================================
