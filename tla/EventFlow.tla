------------------------------- MODULE EventFlow -------------------------------
(***************************************************************************)
(* The whole way of a payment's event: the outbox of the payment service   *)
(* and its dispatchers (Outbox), the topic, and the consumers with their   *)
(* idempotency table (EventConsumer).  The two share the topic alone: it   *)
(* is the dispatchers that bring its messages.                             *)
(***************************************************************************)
EXTENDS EventConsumer

CONSTANTS Dispatchers, BatchSize, MaxRetries, WriterAttempts

VARIABLES row, disp

Dispatch == INSTANCE Outbox

ASSUME FlowAssumption == Dispatch!OutboxAssumption

outboxVars == <<row, disp>>
flowVars == <<outboxVars, topic, consumerVars>>

FlowInit == Dispatch!Init /\ Init

\* Bound: the topic holds MaxTopic messages.
Fits == Len(topic') <= MaxTopic

RunOnce(d) == Dispatch!RunOnce(d) /\ Fits /\ UNCHANGED consumerVars
DispatcherRestart(d) == Dispatch!Restart(d) /\ UNCHANGED consumerVars
Settle(e) == Dispatch!Insert(e) /\ UNCHANGED consumerVars
Due(e) == Dispatch!Due(e) /\ UNCHANGED consumerVars
ConsumerStep == ConsumerNext /\ UNCHANGED outboxVars

FlowNext ==
  \/ \E e \in Events : Settle(e) \/ Due(e)
  \/ \E d \in Dispatchers : RunOnce(d) \/ DispatcherRestart(d)
  \/ ConsumerStep

FlowSpec == FlowInit /\ [][FlowNext]_flowVars

------------------------------------------------------------------------------
(* Properties. *)

(* While the processes live and the database answers, the event of a settled payment is
   handled once, unless Kafka refused it until its attempts were used up. *)
SettledIsHandled ==
  \A e \in Events :
    row[e].status = "pending" ~>
      \/ handled[e] = 1
      \/ row[e].status = "failed" /\ row[e].retry = MaxRetries

(* From the outbox to the consumers nothing is made up and nothing is lost without a trace:
   only events of settled payments are handled, and one that is marked published was
   handled, was cut short or is at hand, or its message is still ahead of the group; likewise
   for any message that the group has passed. *)
EventsExplained ==
  /\ LostExplained
  /\ \A e \in Events : handled[e] > 0 => row[e].status # "none"
  /\ \A e \in Events : row[e].status = "published" =>
       \/ handled[e] > 0 \/ Interrupted(e) \/ AtHand(e)
       \/ \E i \in offset + 1 .. Len(topic) : topic[i] = e
==============================================================================
