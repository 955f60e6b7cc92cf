----------------------------- MODULE EventConsumer -----------------------------
(***************************************************************************)
(* The consumers of the topic payment.events (payment-consumer) and their  *)
(* idempotency table payment_consume_records.  Each process fetches a      *)
(* message, looks for the event's record, inserts a pending one, handles   *)
(* the event, marks the record and commits the offset of the message; an   *)
(* error sends it to the next message, without a commit.                   *)
(*                                                                         *)
(* Kafka is external: one partition, a log of events in which an event may *)
(* occur again, one owner of the partition at a time, and a committed      *)
(* offset from which a new owner reads.                                    *)
(***************************************************************************)
EXTENDS Integers, Sequences

CONSTANTS
  Events,      \* ids of envelopes
  Consumers,   \* processes of the consumer group
  Faults,
  MaxTopic,    \* bound: messages in the topic
  MaxMoves     \* bound: changes of the partition's owner

ASSUME ConsumerAssumption == MaxTopic \in Nat /\ MaxMoves \in Nat

VARIABLES
  topic,     \* the messages of the partition, by event
  offset,    \* how many of them the group has committed
  owner,     \* the consumer the partition is assigned to
  cons,      \* cons[c]: where the loop stands, the message at hand, the next to fetch
  record,    \* record[e]: the status of the event's row in payment_consume_records
  handled,   \* how often each event was handled (history)
  cut,       \* messages whose handling erred or died (history)
  moves      \* how often the owner changed (bound)

consumerVars == <<offset, owner, cons, record, handled, cut, moves>>
vars == <<topic, consumerVars>>

Init ==
  /\ topic = << >>
  /\ offset = 0
  /\ owner \in Consumers
  /\ cons = [c \in Consumers |-> [pc |-> "fetch", at |-> 0, next |-> 1]]
  /\ record = [e \in Events |-> "none"]
  /\ handled = [e \in Events |-> 0]
  /\ cut = {}
  /\ moves = 0

At(c, pc) == cons[c].pc = pc
Event(c) == topic[cons[c].at]

Goto(c, pc) == cons' = [cons EXCEPT ![c].pc = pc] /\ UNCHANGED cut

\* handleMessage returns an error: the loop continues with the next message.
Fail(c) ==
  /\ cons' = [cons EXCEPT ![c].pc = "fetch"]
  /\ cut' = cut \cup {cons[c].at}

\* A publisher appends an event, perhaps once more.
Arrive(e) ==
  /\ Len(topic) < MaxTopic
  /\ topic' = Append(topic, e)
  /\ UNCHANGED consumerVars

------------------------------------------------------------------------------
\* Mutant: the offset is committed before the message is handled.
CommitOnFetch(c) ==
  /\ At(c, "fetch") /\ owner = c
  /\ cons[c].next <= Len(topic)
  /\ offset' = cons[c].next
  /\ cons' = [cons EXCEPT ![c] = [pc |-> "get", at |-> cons[c].next, next |-> cons[c].next + 1]]
  /\ UNCHANGED <<topic, owner, record, handled, cut, moves>>

FetchMessage(c) ==
  /\ At(c, "fetch") /\ owner = c
  /\ cons[c].next <= Len(topic)
  /\ cons' = [cons EXCEPT ![c] = [pc |-> "get", at |-> cons[c].next, next |-> cons[c].next + 1]]
  /\ UNCHANGED <<topic, offset, owner, record, handled, cut, moves>>

\* Whatever the status of a record that exists, the message counts as handled.
GetConsumeRecord(c) ==
  /\ At(c, "get")
  /\ \/ record[Event(c)] = "none" /\ Goto(c, "create")
     \/ record[Event(c)] # "none" /\ Goto(c, "commit")
     \/ "db_error" \in Faults /\ Fail(c)
  /\ UNCHANGED <<topic, offset, owner, record, handled, moves>>

\* Mutant: the table has no unique key.
CreateUnkeyed(c) ==
  /\ At(c, "create")
  /\ record' = [record EXCEPT ![Event(c)] = "pending"]
  /\ Goto(c, "handle")
  /\ UNCHANGED <<topic, offset, owner, handled, moves>>

CreateConsumeRecord(c) ==
  LET inserted == [record EXCEPT ![Event(c)] = "pending"] IN
  /\ At(c, "create")
  /\ \/ record[Event(c)] = "none" /\ record' = inserted /\ Goto(c, "handle")
     \/ record[Event(c)] = "none" /\ "lost_ack" \in Faults /\ record' = inserted /\ Fail(c)
     \/ record[Event(c)] # "none" /\ UNCHANGED record /\ Goto(c, "commit")
     \/ "db_error" \in Faults /\ UNCHANGED record /\ Fail(c)
  /\ UNCHANGED <<topic, offset, owner, handled, moves>>

Handle(c) ==
  /\ At(c, "handle")
  /\ handled' = [handled EXCEPT ![Event(c)] = @ + 1]
  /\ Goto(c, "mark")
  /\ UNCHANGED <<topic, offset, owner, record, moves>>

MarkConsumeRecordSucceeded(c) ==
  LET marked == [record EXCEPT ![Event(c)] = "succeeded"] IN
  /\ At(c, "mark")
  /\ \/ record' = marked /\ Goto(c, "commit")
     \/ "lost_ack" \in Faults /\ record' = marked /\ Fail(c)
     \/ "db_error" \in Faults /\ UNCHANGED record /\ Fail(c)
  /\ UNCHANGED <<topic, offset, owner, handled, moves>>

(* A commit that fails is only logged.  One of a consumer that has lost the partition
   may be refused, or accepted and move the offset back. *)
CommitMessages(c) ==
  /\ At(c, "commit")
  /\ \/ offset' = cons[c].at
     \/ (owner # c \/ "mq_error" \in Faults) /\ UNCHANGED offset
  /\ Goto(c, "fetch")
  /\ UNCHANGED <<topic, owner, record, handled, moves>>

\* A process dies and is started again; its partition is read from the committed offset.
Restart(c) ==
  /\ "crash" \in Faults
  /\ cons' = [cons EXCEPT ![c] = [pc |-> "fetch", at |-> 0, next |-> offset + 1]]
  /\ cut' = IF At(c, "fetch") THEN cut ELSE cut \cup {cons[c].at}
  /\ UNCHANGED <<topic, offset, owner, record, handled, moves>>

\* Mutant: a new owner reads what arrives from now on.
RebalanceLatest(c) ==
  /\ owner # c /\ moves < MaxMoves
  /\ owner' = c
  /\ cons' = [cons EXCEPT ![c].next = Len(topic) + 1]
  /\ moves' = moves + 1
  /\ UNCHANGED <<topic, offset, record, handled, cut>>

\* The group gives the partition to c, which may still have an older message at hand.
Rebalance(c) ==
  /\ owner # c /\ moves < MaxMoves
  /\ owner' = c
  /\ cons' = [cons EXCEPT ![c].next = offset + 1]
  /\ moves' = moves + 1
  /\ UNCHANGED <<topic, offset, record, handled, cut>>

------------------------------------------------------------------------------
\* One round of the loop in Run.
Consume(c) ==
  \/ FetchMessage(c) \/ GetConsumeRecord(c) \/ CreateConsumeRecord(c)
  \/ Handle(c) \/ MarkConsumeRecordSucceeded(c) \/ CommitMessages(c)

ConsumerNext == \E c \in Consumers : Consume(c) \/ Restart(c) \/ Rebalance(c)

Next == ConsumerNext \/ \E e \in Events : Arrive(e)

Spec == Init /\ [][Next]_vars

\* Each process runs its loop for ever.
FairSpec == Spec /\ \A c \in Consumers : WF_vars(Consume(c))

------------------------------------------------------------------------------
(* Properties. *)

PCs == {"fetch", "get", "create", "handle", "mark", "commit"}

\* The type of every variable.
TypeOK ==
  /\ topic \in Seq(Events) /\ Len(topic) <= MaxTopic
  /\ offset \in 0 .. Len(topic)
  /\ owner \in Consumers
  /\ cons \in [Consumers -> [pc : PCs, at : 0 .. Len(topic), next : 1 .. Len(topic) + 1]]
  /\ \A c \in Consumers : cons[c].pc # "fetch" => cons[c].at # 0
  /\ record \in [Events -> {"none", "pending", "succeeded"}]
  /\ handled \in [Events -> Nat]
  /\ cut \subseteq 1 .. Len(topic)
  /\ moves \in 0 .. MaxMoves

(* However often an event is delivered, to whichever consumers, and whatever fails in
   between, it is handled at most once. *)
HandledAtMostOnce == \A e \in Events : handled[e] <= 1

\* A message of the event was cut short, or a consumer has one at hand.
Interrupted(e) == \E i \in cut : topic[i] = e
AtHand(e) == \E c \in Consumers : At(c, "handle") /\ Event(c) = e

(* An event whose message the group has passed and that was never handled was cut short
   by an error or a death, or is about to be handled: nothing else loses an event. *)
LostExplained ==
  \A i \in 1 .. offset :
    handled[topic[i]] = 0 => Interrupted(topic[i]) \/ AtHand(topic[i])

(* Documented: a consumption that failed can be retried, so the group does not pass a
   message that was not handled.
   The code does not keep it (README, section 3). *)
PassedWasHandled == \A i \in 1 .. offset : handled[topic[i]] > 0 \/ AtHand(topic[i])
==============================================================================
