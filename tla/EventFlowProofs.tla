---------------------------- MODULE EventFlowProofs ----------------------------
(***************************************************************************)
(* Theorems about the consumers of a payment's event, and about its whole  *)
(* way from the outbox to them, for any events, dispatchers, consumers,    *)
(* faults and bounds.                                                      *)
(***************************************************************************)
EXTENDS EventFlow, FiniteSetTheorems, TLAPS

------------------------------------------------------------------------------
(* The consumers. *)

(* The parts of the state that the steps of one consumer keep well formed. *)
Shape ==
  /\ topic \in Seq(Events)
  /\ offset \in 0 .. Len(topic)
  /\ owner \in Consumers
  /\ cons \in [Consumers -> [pc : PCs, at : 0 .. Len(topic), next : 1 .. Len(topic) + 1]]
  /\ \A c \in Consumers : cons[c].pc # "fetch" => cons[c].at # 0
  /\ record \in [Events -> {"none", "pending", "succeeded"}]
  /\ handled \in [Events -> Nat]
  /\ cut \subseteq 1 .. Len(topic)

Bounds == Len(topic) <= MaxTopic /\ moves \in 0 .. MaxMoves

\* Before an event has a record nobody handles it, and one consumer at a time has it to
\* handle.
OnceInv ==
  /\ \A e \in Events : /\ handled[e] <= 1
                       /\ record[e] = "none" => handled[e] = 0
  /\ \A c \in Consumers : At(c, "handle") =>
       record[Event(c)] # "none" /\ handled[Event(c)] = 0
  /\ \A c, d \in Consumers :
       At(c, "handle") /\ At(d, "handle") /\ Event(c) = Event(d) => c = d

Explained == {e \in Events : handled[e] # 0 \/ Interrupted(e) \/ AtHand(e)}

(* All that a consumer has read, but for the message at hand, is explained, and so is
   every event that has a record. *)
Seen(c) == \A i \in 1 .. cons[c].next - 1 :
             At(c, "fetch") \/ i # cons[c].at => topic[i] \in Explained
Before(c) == ~At(c, "fetch") => \A i \in 1 .. cons[c].at - 1 : topic[i] \in Explained
Done(c) == At(c, "mark") \/ At(c, "commit") => topic[cons[c].at] \in Explained

PassedInv ==
  /\ \A i \in 1 .. offset : topic[i] \in Explained
  /\ \A c \in Consumers : Seen(c) /\ Before(c) /\ Done(c)
  /\ \A e \in Events : record[e] # "none" => e \in Explained

ConsumerInv == Shape /\ Bounds /\ OnceInv /\ PassedInv

USE DEF At, PCs

LEMMA EventTyped ==
  ASSUME Shape, NEW c \in Consumers, ~At(c, "fetch")
  PROVE  cons[c].at \in 1 .. Len(topic) /\ Event(c) \in Events
BY DEF Shape, Event

------------------------------------------------------------------------------
(* The shape. *)

LEMMA InitShape == Init => Shape /\ Bounds
BY ConsumerAssumption DEF Init, Shape, Bounds

LEMMA ArriveShape == ASSUME Shape, Bounds, NEW e \in Events, Arrive(e) PROVE Shape' /\ Bounds'
<1>1. topic' \in Seq(Events) /\ Len(topic') = Len(topic) + 1 /\ Len(topic) \in Nat
  BY DEF Arrive, Shape
<1>2. UNCHANGED <<offset, owner, cons, record, handled, cut, moves>>
  BY DEF Arrive, consumerVars
<1> QED
  BY <1>1, <1>2, ConsumerAssumption DEF Arrive, Shape, Bounds

ConsTyped ==
  /\ cons \in [Consumers -> [pc : PCs, at : 0 .. Len(topic), next : 1 .. Len(topic) + 1]]
  /\ \A c \in Consumers : cons[c].pc # "fetch" => cons[c].at # 0

\* Moving on with the message at hand.
LEMMA PcTyped ==
  ASSUME Shape, NEW c \in Consumers, ~At(c, "fetch"), NEW pc \in PCs,
         cons' = [cons EXCEPT ![c].pc = pc], topic' = topic
  PROVE  ConsTyped'
<1> DEFINE R == [pc : PCs, at : 0 .. Len(topic), next : 1 .. Len(topic) + 1]
<1>1. [cons[c] EXCEPT !.pc = pc] \in R
  BY DEF Shape
<1>2. cons' = [cons EXCEPT ![c] = [cons[c] EXCEPT !.pc = pc]]
  OBVIOUS
<1>3. cons' \in [Consumers -> R]
  BY <1>1, <1>2 DEF Shape
<1>4. \A d \in Consumers : cons'[d].pc # "fetch" => cons'[d].at # 0
  BY <1>2 DEF Shape
<1> QED
  BY <1>3, <1>4 DEF ConsTyped

\* Another message, or none, is at hand.
LEMMA StateTyped ==
  ASSUME Shape, NEW c \in Consumers, NEW x, cons' = [cons EXCEPT ![c] = x],
         x \in [pc : PCs, at : 0 .. Len(topic), next : 1 .. Len(topic) + 1],
         x.pc # "fetch" => x.at # 0, topic' = topic
  PROVE  ConsTyped'
BY DEF Shape, ConsTyped

LEMMA ConsumeShape ==
  ASSUME Shape, Bounds, NEW c \in Consumers, Consume(c)
  PROVE  Shape' /\ Bounds'
<1> USE DEF Shape, Bounds
<1>0. ~At(c, "fetch") => cons[c].at \in 1 .. Len(topic) /\ Event(c) \in Events
  BY EventTyped
<1>1. CASE FetchMessage(c)
  <2>1. [pc |-> "get", at |-> cons[c].next, next |-> cons[c].next + 1]
          \in [pc : PCs, at : 0 .. Len(topic), next : 1 .. Len(topic) + 1]
    BY <1>1 DEF FetchMessage
  <2>2. cons[c].next # 0
    OBVIOUS
  <2>3. ConsTyped'
    BY <1>1, <2>1, <2>2, StateTyped DEF FetchMessage
  <2> QED
    BY <1>1, <2>3 DEF FetchMessage, ConsTyped
<1>2. CASE GetConsumeRecord(c)
  <2>1. ConsTyped'
    BY <1>2, PcTyped DEF GetConsumeRecord, Goto, Fail
  <2> QED
    BY <1>0, <1>2, <2>1 DEF GetConsumeRecord, Goto, Fail, ConsTyped
<1>3. CASE CreateConsumeRecord(c)
  <2>1. ConsTyped'
    BY <1>3, PcTyped DEF CreateConsumeRecord, Goto, Fail
  <2>2. record' \in [Events -> {"none", "pending", "succeeded"}]
    BY <1>3 DEF CreateConsumeRecord
  <2> QED
    BY <1>0, <1>3, <2>1, <2>2 DEF CreateConsumeRecord, Goto, Fail, ConsTyped
<1>4. CASE Handle(c)
  <2>1. ConsTyped'
    BY <1>4, PcTyped DEF Handle, Goto
  <2>2. handled' \in [Events -> Nat]
    BY <1>0, <1>4, SMTT(30) DEF Handle
  <2> QED
    BY <1>4, <2>1, <2>2 DEF Handle, Goto, ConsTyped
<1>5. CASE MarkConsumeRecordSucceeded(c)
  <2>1. ConsTyped'
    BY <1>5, PcTyped DEF MarkConsumeRecordSucceeded, Goto, Fail
  <2>2. record' \in [Events -> {"none", "pending", "succeeded"}]
    BY <1>5 DEF MarkConsumeRecordSucceeded
  <2> QED
    BY <1>0, <1>5, <2>1, <2>2 DEF MarkConsumeRecordSucceeded, Goto, Fail, ConsTyped
<1>6. CASE CommitMessages(c)
  <2>1. ConsTyped'
    BY <1>6, PcTyped DEF CommitMessages, Goto
  <2> QED
    BY <1>0, <1>6, <2>1, ZenonT(60) DEF CommitMessages, Goto, ConsTyped
<1> QED
  BY <1>1, <1>2, <1>3, <1>4, <1>5, <1>6 DEF Consume

LEMMA MoveShape ==
  ASSUME Shape, Bounds, NEW c \in Consumers, Restart(c) \/ Rebalance(c)
  PROVE  Shape' /\ Bounds'
<1> USE DEF Shape, Bounds
<1>1. offset + 1 \in 1 .. Len(topic) + 1
  OBVIOUS
<1>2. CASE Restart(c)
  <2>1. ConsTyped'
    <3>1. [pc |-> "fetch", at |-> 0, next |-> offset + 1]
            \in [pc : PCs, at : 0 .. Len(topic), next : 1 .. Len(topic) + 1]
      BY <1>1
    <3> QED
      BY <1>2, <3>1, StateTyped DEF Restart
  <2>2. cut' \subseteq 1 .. Len(topic)
    BY <1>2, EventTyped DEF Restart
  <2> QED
    BY <1>2, <2>1, <2>2 DEF Restart, ConsTyped
<1>3. CASE Rebalance(c)
  <2>1. ConsTyped'
    <3>1. [cons[c] EXCEPT !.next = offset + 1]
            \in [pc : PCs, at : 0 .. Len(topic), next : 1 .. Len(topic) + 1]
      BY <1>1
    <3>2. cons' = [cons EXCEPT ![c] = [cons[c] EXCEPT !.next = offset + 1]]
      BY <1>3 DEF Rebalance
    <3> QED
      BY <1>3, <3>1, <3>2, StateTyped DEF Rebalance
  <2>2. moves' \in 0 .. MaxMoves
    BY <1>3, ConsumerAssumption DEF Rebalance
  <2>3. UNCHANGED <<topic, offset, record, handled, cut>> /\ owner' = c
    BY <1>3 DEF Rebalance
  <2>4. Shape'
    BY <2>1, <2>3 DEF ConsTyped
  <2> QED
    BY <2>2, <2>3, <2>4
<1> QED
  BY <1>2, <1>3

------------------------------------------------------------------------------
(* At most one handling. *)

LEMMA InitOnce == Init => OnceInv
BY DEF Init, OnceInv

\* Topics only grow: a message at hand stays what it is.
LEMMA ArriveEvent ==
  ASSUME Shape, NEW e \in Events, Arrive(e)
  PROVE  /\ \A i \in 1 .. Len(topic) : topic'[i] = topic[i]
         /\ Len(topic') = Len(topic) + 1
         /\ UNCHANGED consumerVars
         /\ \A c \in Consumers : ~At(c, "fetch") => Event(c)' = Event(c)
<1>1. /\ \A i \in 1 .. Len(topic) : topic'[i] = topic[i]
      /\ Len(topic') = Len(topic) + 1 /\ UNCHANGED consumerVars
  BY DEF Arrive, Shape
<1> QED
  BY <1>1, EventTyped DEF Event, consumerVars

LEMMA ArriveOnce == ASSUME Shape, OnceInv, NEW e \in Events, Arrive(e) PROVE OnceInv'
BY ArriveEvent DEF OnceInv, consumerVars

\* What another consumer has at hand does not change with the step of one.
LEMMA OthersKeep ==
  ASSUME Shape, NEW c \in Consumers, Consume(c) \/ Restart(c) \/ Rebalance(c)
  PROVE  /\ topic' = topic
         /\ \A d \in Consumers : d # c => cons'[d] = cons[d] /\ Event(d)' = Event(d)
<1>1. topic' = topic /\ \A d \in Consumers : d # c => cons'[d] = cons[d]
  BY DEF Consume, FetchMessage, GetConsumeRecord, CreateConsumeRecord, Handle,
         MarkConsumeRecordSucceeded, CommitMessages, Restart, Rebalance, Goto, Fail, Shape
<1> QED
  BY <1>1 DEF Event

LEMMA ConsumeOnce ==
  ASSUME Shape, OnceInv, NEW c \in Consumers, Consume(c)
  PROVE  OnceInv'
<1>0. /\ topic' = topic
      /\ \A d \in Consumers : d # c => cons'[d] = cons[d] /\ Event(d)' = Event(d)
  BY OthersKeep
<1>1. CASE ~At(c, "create") /\ ~At(c, "handle")
  <2>1. /\ UNCHANGED handled /\ cons'[c].pc # "handle"
        /\ \A e \in Events : (record'[e] = "none") => (record[e] = "none")
        /\ \A e \in Events : (record[e] # "none") => (record'[e] # "none")
    <3>1. CASE FetchMessage(c)
      BY <3>1 DEF FetchMessage, Shape
    <3>2. CASE GetConsumeRecord(c)
      BY <3>2 DEF GetConsumeRecord, Goto, Fail, Shape
    <3>3. CASE MarkConsumeRecordSucceeded(c)
      BY <3>3, EventTyped, SMTT(30) DEF MarkConsumeRecordSucceeded, Goto, Fail, Shape
    <3>4. CASE CommitMessages(c)
      BY <3>4 DEF CommitMessages, Goto, Shape
    <3> QED
      BY <1>1, <3>1, <3>2, <3>3, <3>4 DEF Consume, CreateConsumeRecord, Handle
  <2>2. \A d \in Consumers : cons'[d].pc = "handle" =>
          d # c /\ cons[d].pc = "handle" /\ Event(d)' = Event(d) /\ Event(d) \in Events
    BY <1>0, <2>1, EventTyped
  <2> QED
    BY <2>1, <2>2 DEF OnceInv
<1>2. CASE CreateConsumeRecord(c)
  <2> DEFINE x == topic[cons[c].at]
  <2>0. x \in Events /\ Event(c) = x /\ cons[c].pc = "create"
    BY <1>2, EventTyped DEF CreateConsumeRecord, Event
  <2>1. CASE record[x] = "none" /\ record' = [record EXCEPT ![x] = "pending"]
    <3>1. UNCHANGED handled /\ handled[x] = 0 /\ cons'[c].at = cons[c].at
      BY <1>2, <2>0, <2>1 DEF CreateConsumeRecord, Goto, Fail, OnceInv, Shape
    <3>2. \A d \in Consumers : cons[d].pc = "handle" => Event(d) # x /\ Event(d) \in Events
      BY <2>1, EventTyped DEF OnceInv
    <3>3. Event(c)' = x
      BY <1>0, <3>1 DEF Event
    <3>4. \A d \in Consumers : cons'[d].pc = "handle" =>
            \/ d = c
            \/ d # c /\ cons[d].pc = "handle" /\ Event(d)' = Event(d)
      BY <1>0
    <3>5. record'[x] # "none" /\ \A e \in Events : e # x => record'[e] = record[e]
      BY <2>0, <2>1 DEF Shape
    <3>6. \A e \in Events : handled'[e] <= 1 /\ (record'[e] = "none" => handled'[e] = 0)
      BY <3>1, <3>5 DEF OnceInv
    <3>7. \A d \in Consumers : cons'[d].pc = "handle" =>
            record'[Event(d)'] # "none" /\ handled'[Event(d)'] = 0
      BY <3>1, <3>2, <3>3, <3>4, <3>5 DEF OnceInv
    <3>8. \A d, q \in Consumers :
            cons'[d].pc = "handle" /\ cons'[q].pc = "handle" /\ Event(d)' = Event(q)' => d = q
      BY <3>2, <3>3, <3>4 DEF OnceInv
    <3> QED
      BY <3>6, <3>7, <3>8 DEF OnceInv
  <2>2. CASE UNCHANGED record /\ cons'[c].pc # "handle"
    <3>1. UNCHANGED handled
      BY <1>2 DEF CreateConsumeRecord
    <3>2. \A d \in Consumers : cons'[d].pc = "handle" =>
            d # c /\ cons[d].pc = "handle" /\ Event(d)' = Event(d)
      BY <1>0, <2>2
    <3> QED
      BY <2>2, <3>1, <3>2 DEF OnceInv
  <2> QED
    BY <1>2, <2>1, <2>2, <2>0 DEF CreateConsumeRecord, Goto, Fail, Shape
<1>3. CASE Handle(c)
  <2> DEFINE x == topic[cons[c].at]
  <2>0. x \in Events /\ Event(c) = x /\ cons[c].pc = "handle"
    BY <1>3, EventTyped DEF Handle, Event
  <2>1. /\ handled[x] = 0 /\ record[x] # "none" /\ UNCHANGED record
        /\ handled' = [handled EXCEPT ![x] = handled[x] + 1] /\ cons'[c].pc = "mark"
    BY <1>3, <2>0 DEF Handle, OnceInv, Goto, Shape, Event
  <2>2. \A d \in Consumers : cons'[d].pc = "handle" =>
          /\ d # c /\ cons[d].pc = "handle" /\ Event(d)' = Event(d)
          /\ Event(d) # x /\ Event(d) \in Events
    BY <1>0, <2>0, <2>1, EventTyped DEF OnceInv
  <2>3. handled'[x] = 1 /\ \A e \in Events : e # x => handled'[e] = handled[e]
    BY <2>0, <2>1 DEF Shape
  <2> QED
    BY <2>0, <2>1, <2>2, <2>3 DEF OnceInv
<1> QED
  BY <1>1, <1>2, <1>3
  DEF Consume, FetchMessage, GetConsumeRecord, MarkConsumeRecordSucceeded, CommitMessages

LEMMA MoveOnce ==
  ASSUME Shape, OnceInv, NEW c \in Consumers, Restart(c) \/ Rebalance(c)
  PROVE  OnceInv'
<1>0. /\ topic' = topic
      /\ \A d \in Consumers : d # c => cons'[d] = cons[d] /\ Event(d)' = Event(d)
  BY OthersKeep
<1>1. UNCHANGED <<record, handled>>
  BY DEF Restart, Rebalance
<1>2. cons'[c].pc = "handle" => cons[c].pc = "handle" /\ cons'[c].at = cons[c].at
  BY DEF Restart, Rebalance, Shape
<1>3. \A d \in Consumers : cons'[d].pc = "handle" =>
        cons[d].pc = "handle" /\ Event(d)' = Event(d)
  BY <1>0, <1>2 DEF Event
<1> QED
  BY <1>1, <1>3 DEF OnceInv

------------------------------------------------------------------------------
(* What the group passed is explained. *)

LEMMA InitPassed == Init => PassedInv
BY DEF Init, PassedInv, Seen, Before, Done

\* An explanation stays one: who no longer has the event at hand handled it or was cut.
LEMMA ConsumeExplained ==
  ASSUME Shape, NEW c \in Consumers, Consume(c), NEW e \in Events, e \in Explained
  PROVE  e \in Explained'
<1>0. /\ topic' = topic
      /\ \A d \in Consumers : d # c => cons'[d] = cons[d] /\ Event(d)' = Event(d)
  BY OthersKeep
<1>1. CASE Handle(c)
  <2>1. UNCHANGED cut /\ Event(c) \in Events /\ handled' = [handled EXCEPT ![Event(c)] = handled[Event(c)] + 1]
    BY <1>1, EventTyped DEF Handle, Goto
  <2>2. CASE e = Event(c)
    <3>1. handled'[e] = handled[e] + 1 /\ handled[e] \in Nat
      BY <2>1, <2>2 DEF Shape
    <3> QED
      BY <3>1 DEF Explained
  <2>3. CASE e # Event(c)
    BY <1>0, <2>1, <2>3 DEF Explained, Interrupted, AtHand, Shape
  <2> QED
    BY <2>2, <2>3
<1>2. CASE ~Handle(c)
  <2>1. UNCHANGED handled /\ cut \subseteq cut' /\ cons[c].pc # "handle"
    BY <1>2 DEF Consume, FetchMessage, GetConsumeRecord, CreateConsumeRecord, Handle,
        MarkConsumeRecordSucceeded, CommitMessages, Goto, Fail
  <2> QED
    BY <1>0, <2>1 DEF Explained, Interrupted, AtHand
<1> QED
  BY <1>1, <1>2

LEMMA MoveExplained ==
  ASSUME Shape, NEW c \in Consumers, Restart(c) \/ Rebalance(c), NEW e \in Events, e \in Explained
  PROVE  e \in Explained'
<1>0. /\ topic' = topic /\ UNCHANGED handled /\ cut \subseteq cut'
      /\ \A d \in Consumers : d # c => cons'[d] = cons[d] /\ Event(d)' = Event(d)
  BY OthersKeep DEF Restart, Rebalance
<1>1. CASE Restart(c)
  <2>1. At(c, "handle") => cons[c].at \in cut'
    BY <1>1 DEF Restart
  <2> QED
    BY <1>0, <2>1 DEF Explained, Interrupted, AtHand, Event
<1>2. CASE Rebalance(c)
  <2>1. cons'[c].pc = cons[c].pc /\ Event(c)' = Event(c)
    BY <1>0, <1>2 DEF Rebalance, Shape, Event
  <2> QED
    BY <1>0, <2>1 DEF Explained, Interrupted, AtHand
<1> QED
  BY <1>1, <1>2

\* A step of one consumer has to answer for what that consumer reads and records only.
LEMMA PassedStep ==
  ASSUME Shape, PassedInv, NEW c \in Consumers, Consume(c) \/ Restart(c) \/ Rebalance(c),
         \A i \in 1 .. offset' : topic[i] \in Explained',
         (Seen(c) /\ Before(c) /\ Done(c))',
         \A e \in Events : record'[e] # "none" => record[e] # "none" \/ e \in Explained'
  PROVE  PassedInv'
<1>1. topic' = topic /\ \A d \in Consumers : d # c => cons'[d] = cons[d]
  BY OthersKeep
<1>2. \A e \in Events : e \in Explained => e \in Explained'
  BY ConsumeExplained, MoveExplained
<1>3. \A i \in 1 .. Len(topic) : topic[i] \in Explained => topic[i] \in Explained'
  BY <1>1, <1>2 DEF Shape
<1>4. ASSUME NEW d \in Consumers, d # c PROVE (Seen(d) /\ Before(d) /\ Done(d))'
  <2>1. /\ cons'[d] = cons[d] /\ Seen(d) /\ Before(d) /\ Done(d)
        /\ cons[d].at \in 0 .. Len(topic) /\ cons[d].next \in 1 .. Len(topic) + 1
        /\ cons[d].pc # "fetch" => cons[d].at # 0
    BY <1>1, <1>4 DEF PassedInv, Shape
  <2> QED
    BY <1>1, <1>3, <2>1 DEF Seen, Before, Done
<1> QED
  BY <1>1, <1>2, <1>4 DEF PassedInv

LEMMA ArrivePassed ==
  ASSUME Shape, PassedInv, NEW e \in Events, Arrive(e)
  PROVE  PassedInv'
<1>1. /\ \A i \in 1 .. Len(topic) : topic'[i] = topic[i]
      /\ UNCHANGED <<offset, cons, record, handled, cut>>
      /\ \A c \in Consumers : ~At(c, "fetch") => Event(c)' = Event(c)
  BY ArriveEvent DEF consumerVars
<1>2. \A x \in Events : x \in Explained => x \in Explained'
  BY <1>1 DEF Explained, Interrupted, AtHand, Shape
<1>3. \A i \in 1 .. Len(topic) : topic[i] \in Explained => topic'[i] \in Explained'
  BY <1>1, <1>2 DEF Shape
<1>4. ASSUME NEW d \in Consumers PROVE (Seen(d) /\ Before(d) /\ Done(d))'
  <2>1. /\ cons'[d] = cons[d] /\ Seen(d) /\ Before(d) /\ Done(d)
        /\ cons[d].at \in 0 .. Len(topic) /\ cons[d].next \in 1 .. Len(topic) + 1
        /\ cons[d].pc # "fetch" => cons[d].at # 0
    BY <1>1 DEF PassedInv, Shape
  <2> QED
    BY <1>3, <2>1 DEF Seen, Before, Done
<1> QED
  BY <1>1, <1>2, <1>3, <1>4 DEF PassedInv, Shape

LEMMA MovePassed ==
  ASSUME Shape, PassedInv, NEW c \in Consumers, Restart(c) \/ Rebalance(c)
  PROVE  PassedInv'
<1>1. topic' = topic /\ UNCHANGED <<offset, record>>
  BY DEF Restart, Rebalance
<1>2. \A i \in 1 .. offset : topic[i] \in Explained'
  BY MoveExplained, SMTT(30) DEF PassedInv, Shape
<1>3. \A i \in 1 .. Len(topic) : topic[i] \in Explained => topic[i] \in Explained'
  BY MoveExplained, SMTT(30) DEF Shape
<1>4. cons'[c].next = offset + 1
  BY DEF Restart, Rebalance, Shape
<1>5. \/ cons'[c].pc = "fetch"
      \/ cons'[c].pc = cons[c].pc /\ cons'[c].at = cons[c].at
  BY DEF Restart, Rebalance, Shape
<1>6. Seen(c)'
  BY <1>1, <1>2, <1>4 DEF Seen, Shape
<1>7. Before(c)' /\ Done(c)'
  <2>1. /\ Before(c) /\ Done(c) /\ cons[c].at \in 0 .. Len(topic)
        /\ cons[c].pc # "fetch" => cons[c].at # 0
    BY DEF PassedInv, Shape
  <2> QED
    BY <1>1, <1>3, <1>5, <2>1 DEF Before, Done
<1> QED
  BY <1>1, <1>2, <1>6, <1>7, PassedStep

LEMMA ConsumePassed ==
  ASSUME Shape, PassedInv, NEW c \in Consumers, Consume(c)
  PROVE  PassedInv'
<1> DEFINE Here == topic[cons[c].at]
<1>0. /\ topic' = topic /\ offset \in 0 .. Len(topic)
      /\ cons[c].at \in 0 .. Len(topic) /\ cons[c].next \in 1 .. Len(topic) + 1
      /\ ~At(c, "fetch") => cons[c].at \in 1 .. Len(topic) /\ Here \in Events /\ Event(c) = Here
  BY OthersKeep, EventTyped DEF Shape, Event
<1>1. \A i \in 1 .. Len(topic) : topic[i] \in Explained => topic[i] \in Explained'
  BY ConsumeExplained DEF Shape
<1>2. \A i \in 1 .. offset : topic[i] \in Explained'
  BY <1>0, <1>1, SMTT(30) DEF PassedInv
<1>3. Seen(c) /\ Before(c) /\ Done(c)
  BY DEF PassedInv
\* With the message at hand settled, the consumer may go anywhere with it.
<1>4. ASSUME ~At(c, "fetch"), NEW pc \in PCs, cons'[c] = [cons[c] EXCEPT !.pc = pc],
             (pc \in {"fetch", "mark", "commit"}) => Here \in Explained'
      PROVE  (Seen(c) /\ Before(c) /\ Done(c))'
  <2>1. cons'[c].pc = pc /\ cons'[c].at = cons[c].at /\ cons'[c].next = cons[c].next
    BY <1>4 DEF Shape
  <2>2. Seen(c)'
    BY <1>0, <1>1, <1>3, <1>4, <2>1 DEF Seen
  <2>3. Before(c)' /\ Done(c)'
    BY <1>0, <1>1, <1>3, <1>4, <2>1 DEF Before, Done
  <2> QED
    BY <2>2, <2>3
<1>5. ASSUME ~At(c, "fetch"), cons[c].at \in cut' PROVE Here \in Explained'
  BY <1>0, <1>5 DEF Explained, Interrupted
<1>6. CASE FetchMessage(c)
  <2>1. /\ cons[c].pc = "fetch" /\ cons'[c].pc = "get" /\ cons'[c].at = cons[c].next
        /\ cons'[c].next = cons[c].next + 1 /\ UNCHANGED <<offset, record>>
    BY <1>6 DEF FetchMessage, Shape
  <2>2. (Seen(c) /\ Before(c) /\ Done(c))'
    BY <1>0, <1>1, <1>3, <2>1, <1>6 DEF Seen, Before, Done, FetchMessage
  <2> QED
    BY <1>2, <2>1, <2>2, PassedStep
<1>7. CASE GetConsumeRecord(c)
  <2>1. UNCHANGED <<offset, record>> /\ ~At(c, "fetch")
    BY <1>7 DEF GetConsumeRecord
  <2>2. record[Here] # "none" => Here \in Explained'
    BY <1>0, <1>1, <2>1 DEF PassedInv
  <2>3. (Seen(c) /\ Before(c) /\ Done(c))'
    BY <1>0, <1>4, <1>5, <1>7, <2>1, <2>2 DEF GetConsumeRecord, Goto, Fail, Shape
  <2> QED
    BY <1>2, <2>1, <2>3, PassedStep
<1>8. CASE CreateConsumeRecord(c)
  <2>1. UNCHANGED offset /\ ~At(c, "fetch")
    BY <1>8 DEF CreateConsumeRecord
  <2>2. record[Here] # "none" => Here \in Explained'
    BY <1>0, <1>1, <2>1 DEF PassedInv
  <2>3. cons'[c].pc = "handle" => Here \in Explained'
    <3>1. cons'[c].at = cons[c].at
      BY <1>8 DEF CreateConsumeRecord, Goto, Fail, Shape
    <3> QED
      BY <1>0, <2>1, <3>1 DEF Explained, AtHand, Event
  <2>4. \/ record' = record
        \/ record' = [record EXCEPT ![Here] = "pending"] /\ Here \in Explained'
    <3>1. record' = [record EXCEPT ![Here] = "pending"] =>
            record' = record \/ cons'[c].pc = "handle" \/ cons[c].at \in cut'
      BY <1>0, <1>8, <2>1 DEF CreateConsumeRecord, Goto, Fail, Shape
    <3>2. record' = record \/ record' = [record EXCEPT ![Here] = "pending"]
      BY <1>0, <1>8, <2>1 DEF CreateConsumeRecord
    <3>3. cons[c].at \in cut' => Here \in Explained'
      BY <1>5, <2>1
    <3> QED
      BY <2>3, <3>1, <3>2, <3>3
  <2>5. \A e \in Events : record'[e] # "none" => record[e] # "none" \/ e \in Explained'
    BY <2>4 DEF Shape
  <2>6. (Seen(c) /\ Before(c) /\ Done(c))'
    BY <1>0, <1>4, <1>5, <1>8, <2>1, <2>2 DEF CreateConsumeRecord, Goto, Fail, Shape
  <2> QED
    BY <1>2, <2>1, <2>5, <2>6, PassedStep
<1>9. CASE Handle(c)
  <2>1. UNCHANGED <<offset, record>> /\ ~At(c, "fetch")
    BY <1>9 DEF Handle
  <2>2. Here \in Explained'
    <3>1. handled'[Here] = handled[Here] + 1 /\ handled[Here] \in Nat
      BY <1>0, <1>9, <2>1 DEF Handle, Shape
    <3> QED
      BY <1>0, <2>1, <3>1 DEF Explained
  <2>3. (Seen(c) /\ Before(c) /\ Done(c))'
    BY <1>4, <1>9, <2>1, <2>2 DEF Handle, Goto, Shape
  <2> QED
    BY <1>2, <2>1, <2>3, PassedStep
<1>10. CASE MarkConsumeRecordSucceeded(c)
  <2>1. UNCHANGED offset /\ cons[c].pc = "mark"
    BY <1>10 DEF MarkConsumeRecordSucceeded
  <2>2. Here \in Explained'
    BY <1>0, <1>1, <1>3, <2>1 DEF Done
  <2>3. record' = record \/ record' = [record EXCEPT ![Here] = "succeeded"]
    BY <1>0, <1>10, <2>1 DEF MarkConsumeRecordSucceeded
  <2>4. \A e \in Events : record'[e] # "none" => record[e] # "none" \/ e \in Explained'
    BY <2>2, <2>3 DEF Shape
  <2>5. (Seen(c) /\ Before(c) /\ Done(c))'
    BY <1>4, <1>10, <2>1, <2>2 DEF MarkConsumeRecordSucceeded, Goto, Fail, Shape
  <2> QED
    BY <1>2, <2>1, <2>4, <2>5, PassedStep
<1>11. CASE CommitMessages(c)
  <2>1. /\ UNCHANGED record /\ cons[c].pc = "commit" /\ offset' \in {offset, cons[c].at}
    BY <1>11 DEF CommitMessages
  <2>2. Here \in Explained'
    BY <1>0, <1>1, <1>3, <2>1 DEF Done
  <2>3. \A i \in 1 .. cons[c].at : topic[i] \in Explained'
    BY <1>0, <1>1, <1>3, <2>1, <2>2 DEF Before
  <2>4. \A i \in 1 .. offset' : topic[i] \in Explained'
    BY <1>2, <2>1, <2>3
  <2>5. (Seen(c) /\ Before(c) /\ Done(c))'
    BY <1>4, <1>11, <2>1, <2>2 DEF CommitMessages, Goto, Shape
  <2> QED
    BY <2>1, <2>4, <2>5, PassedStep
<1> QED
  BY <1>6, <1>7, <1>8, <1>9, <1>10, <1>11 DEF Consume

------------------------------------------------------------------------------
(* The theorems about the consumers. *)

LEMMA ConsumerInvStarts == Init => ConsumerInv
BY InitShape, InitOnce, InitPassed DEF ConsumerInv

LEMMA ConsumerInvStays == ConsumerInv /\ [Next]_vars => ConsumerInv'
<1> SUFFICES ASSUME ConsumerInv, [Next]_vars PROVE ConsumerInv'
  OBVIOUS
<1>1. CASE UNCHANGED vars
  <2>1. Shape' /\ Bounds'
    BY <1>1 DEF ConsumerInv, vars, consumerVars, Shape, Bounds
  <2>2. OnceInv'
    BY <1>1 DEF ConsumerInv, vars, consumerVars, OnceInv, Event
  <2>3. PassedInv'
    BY <1>1 DEF ConsumerInv, vars, consumerVars, PassedInv, Seen, Before, Done,
                      Explained, Interrupted, AtHand, Event
  <2> QED
    BY <2>1, <2>2, <2>3 DEF ConsumerInv
<1>2. ASSUME NEW c \in Consumers, Consume(c) PROVE ConsumerInv'
  BY <1>2, ConsumeShape, ConsumeOnce, ConsumePassed DEF ConsumerInv
<1>3. ASSUME NEW c \in Consumers, Restart(c) \/ Rebalance(c) PROVE ConsumerInv'
  BY <1>3, MoveShape, MoveOnce, MovePassed DEF ConsumerInv
<1>4. ASSUME NEW e \in Events, Arrive(e) PROVE ConsumerInv'
  BY <1>4, ArriveShape, ArriveOnce, ArrivePassed DEF ConsumerInv
<1> QED
  BY <1>1, <1>2, <1>3, <1>4 DEF Next, ConsumerNext

LEMMA ConsumerInvariant == Spec => []ConsumerInv
BY ConsumerInvStarts, ConsumerInvStays, PTL DEF Spec

(* Every variable keeps its type, whatever fails. *)
THEOREM ConsumerTyped == Spec => []TypeOK
<1>1. ConsumerInv => TypeOK
  BY DEF ConsumerInv, Shape, Bounds, TypeOK
<1> QED
  BY <1>1, ConsumerInvariant, PTL

(* An event is handled at most once, however many consumers see it however often, and
   whatever fails in between. *)
THEOREM HandledOnce == Spec => []HandledAtMostOnce
<1>1. ConsumerInv => HandledAtMostOnce
  BY DEF ConsumerInv, OnceInv, HandledAtMostOnce
<1> QED
  BY <1>1, ConsumerInvariant, PTL

(* An event the group has passed without handling it was cut short or is at hand: a
   change of the owner or a moved offset alone loses nothing. *)
THEOREM LossExplained == Spec => []LostExplained
<1>1. ConsumerInv => LostExplained
  BY DEF ConsumerInv, PassedInv, Explained, LostExplained
<1> QED
  BY <1>1, ConsumerInvariant, PTL

------------------------------------------------------------------------------
(* The whole way.  What a dispatcher has in hand, and what it sends, are rows of settled
   payments. *)

LEMMA LeastExists ==
  ASSUME NEW S \in SUBSET Nat, S # {}
  PROVE  \E x \in S : \A y \in S : x <= y
<1> DEFINE T == {1 .. x : x \in S}
<1>1. T \subseteq FiniteSubsetsOf(Nat)
  <2>1. \A x \in S : IsFiniteSet(1 .. x) /\ 1 .. x \subseteq Nat
    BY FS_Interval
  <2> QED
    BY <2>1 DEF FiniteSubsetsOf
<1>2. T # {}
  OBVIOUS
<1>3. PICK t \in T : \A u \in T : ~ (<<u, t>> \in StrictSubsetOrdering(Nat))
  <2>1. IsWellFoundedOn(StrictSubsetOrdering(Nat), FiniteSubsetsOf(Nat))
    BY FS_StrictSubsetOrderingWellFounded
  <2> HIDE DEF T
  <2> QED
    BY <1>1, <1>2, <2>1, WFMin
<1>4. PICK x \in S : t = 1 .. x
  OBVIOUS
<1>5. ASSUME NEW y \in S, y < x PROVE FALSE
  <2>1. x \in Nat /\ y \in Nat
    OBVIOUS
  <2>2. 1 .. y \subseteq Nat /\ 1 .. x \subseteq Nat /\ 1 .. y \subseteq 1 .. x
    BY <1>5, <2>1
  <2>3. x \in 1 .. x /\ x \notin 1 .. y
    BY <1>5, <2>1
  <2>4. <<1 .. y, t>> \in StrictSubsetOrdering(Nat)
    BY <1>4, <2>2, <2>3 DEF StrictSubsetOrdering
  <2> QED
    BY <1>3, <2>4
<1> QED
  BY <1>5

LEMMA LeastIsMin ==
  ASSUME NEW S \in SUBSET Nat, S # {}
  PROVE  Dispatch!Min(S) \in S
BY LeastExists DEF Dispatch!Min

Batches == UNION {[S -> Nat] : S \in SUBSET Events}
RowState == [status : {"none", "pending", "publishing", "published", "failed"},
             retry : Nat, due : BOOLEAN]
DispState == [pc : {"idle", "publish", "published", "failed"}, batch : Batches, tried : Nat]

Hand(d) == DOMAIN disp[d].batch

FlowTypes ==
  /\ row \in [Events -> RowState]
  /\ disp \in [Dispatchers -> DispState]
  /\ \A d \in Dispatchers : disp[d].pc # "idle" => Hand(d) # {}

InOutbox(e) == row[e].status # "none"

TruthInv ==
  /\ \A d \in Dispatchers :
       /\ \A e \in Hand(d) : InOutbox(e)
       /\ disp[d].pc = "published" => Dispatch!Current(d) \in Dispatch!Accepted
  /\ \A e \in Dispatch!Accepted : InOutbox(e)
  /\ \A e \in Events : row[e].status = "published" => e \in Dispatch!Accepted
  /\ \A e \in Events : handled[e] > 0 => InOutbox(e)

FlowInv == ConsumerInv /\ FlowTypes /\ TruthInv

LEMMA CurrentInHand ==
  ASSUME FlowTypes, NEW d \in Dispatchers
  PROVE  /\ Hand(d) \subseteq Events /\ disp[d].batch \in [Hand(d) -> Nat]
         /\ disp[d].pc # "idle" => Dispatch!Current(d) \in Hand(d)
<1>1. disp[d] \in DispState
  BY DEF FlowTypes
<1>2. PICK S \in SUBSET Events : disp[d].batch \in [S -> Nat]
  BY <1>1 DEF DispState, Batches
<1>3. Hand(d) = S /\ Events \subseteq Nat
  BY <1>2, FlowAssumption DEF Hand, Dispatch!OutboxAssumption
<1> QED
  BY <1>2, <1>3, LeastIsMin DEF FlowTypes, Dispatch!Current, Hand

\* A dispatcher that only changes its place, or tries again, keeps its batch.
LEMMA PlaceChanges ==
  ASSUME FlowTypes, NEW d \in Dispatchers, NEW pc \in {"publish", "published", "failed"},
         disp[d].pc # "idle",
         \/ disp' = [disp EXCEPT ![d].pc = pc]
         \/ disp[d].pc = pc /\ disp' = [disp EXCEPT ![d].tried = @ + 1]
  PROVE  /\ disp' \in [Dispatchers -> DispState]
         /\ disp'[d].pc = pc
         /\ \A q \in Dispatchers : disp'[q].batch = disp[q].batch
         /\ \A q \in Dispatchers : q # d => disp'[q] = disp[q]
<1>1. disp[d] \in DispState
  BY DEF FlowTypes
<1>2. PICK r \in DispState : /\ disp' = [disp EXCEPT ![d] = r]
                            /\ r.pc = pc /\ r.batch = disp[d].batch
  <2>1. CASE disp' = [disp EXCEPT ![d].pc = pc]
    <3>1. [disp[d] EXCEPT !.pc = pc] \in DispState
      BY <1>1 DEF DispState
    <3>2. /\ [disp[d] EXCEPT !.pc = pc].pc = pc
          /\ [disp[d] EXCEPT !.pc = pc].batch = disp[d].batch
      BY <1>1 DEF DispState
    <3> QED
      BY <2>1, <3>1, <3>2
  <2>2. CASE disp[d].pc = pc /\ disp' = [disp EXCEPT ![d].tried = @ + 1]
    <3> DEFINE r == [disp[d] EXCEPT !.tried = @ + 1]
    <3>1. r \in DispState /\ r.pc = disp[d].pc /\ r.batch = disp[d].batch
      BY <1>1 DEF DispState
    <3> QED
      BY <2>2, <3>1
  <2> QED
    BY <2>1, <2>2
<1> QED
  BY <1>2 DEF FlowTypes

\* It goes on with the rest of its batch, or drops it.
LEMMA BatchShrinks ==
  ASSUME FlowTypes, NEW d \in Dispatchers, disp[d].pc # "idle",
         Dispatch!NextMessage(d) \/ Dispatch!Return(d)
  PROVE  /\ disp' \in [Dispatchers -> DispState]
         /\ \A q \in Dispatchers : q # d => disp'[q] = disp[q]
         /\ Hand(d)' \subseteq Hand(d)
         /\ disp'[d].pc \in {"idle", "publish"}
         /\ disp'[d].pc # "idle" => Hand(d)' # {}
<1> DEFINE rest == [e \in Hand(d) \ {Dispatch!Current(d)} |-> disp[d].batch[e]]
           idle == [pc |-> "idle", batch |-> Dispatch!NoBatch, tried |-> 0]
           onwards == [pc |-> "publish", batch |-> rest, tried |-> 0]
<1>1. Hand(d) \subseteq Events /\ disp[d].batch \in [Hand(d) -> Nat]
  BY CurrentInHand
<1>2. rest \in Batches /\ DOMAIN rest \subseteq Hand(d)
  <2>1. rest \in [Hand(d) \ {Dispatch!Current(d)} -> Nat]
    BY <1>1
  <2> QED
    BY <1>1, <2>1 DEF Batches
<1>3. Dispatch!NoBatch \in Batches /\ DOMAIN Dispatch!NoBatch = {}
  <2>1. Dispatch!NoBatch \in [{} -> Nat]
    BY DEF Dispatch!NoBatch
  <2> QED
    BY <2>1 DEF Batches
<1>4. rest # Dispatch!NoBatch => DOMAIN rest # {}
  BY DEF Dispatch!NoBatch
<1>5. \/ disp' = [disp EXCEPT ![d] = idle]
      \/ rest # Dispatch!NoBatch /\ disp' = [disp EXCEPT ![d] = onwards]
  BY DEF Dispatch!NextMessage, Dispatch!Return, Dispatch!Idle, Dispatch!With, Hand
<1> HIDE DEF rest
<1>6. CASE disp' = [disp EXCEPT ![d] = idle]
  <2>1. idle \in DispState
    BY <1>3 DEF DispState
  <2>2. disp'[d] = idle
    BY <1>6 DEF FlowTypes
  <2> QED
    BY <1>3, <1>6, <2>1, <2>2 DEF FlowTypes, Hand
<1>7. CASE rest # Dispatch!NoBatch /\ disp' = [disp EXCEPT ![d] = onwards]
  <2>1. onwards \in DispState
    BY <1>2 DEF DispState
  <2>2. disp'[d] = onwards
    BY <1>7 DEF FlowTypes
  <2> QED
    BY <1>2, <1>4, <1>7, <2>1, <2>2 DEF FlowTypes, Hand
<1> QED
  BY <1>5, <1>6, <1>7

\* What the topic has accepted grows with it.
LEMMA AcceptedGrows ==
  ASSUME Shape, NEW e \in Events, topic' = Append(topic, e)
  PROVE  Dispatch!Accepted' = Dispatch!Accepted \cup {e}
<1>1. /\ DOMAIN topic = 1 .. Len(topic) /\ DOMAIN topic' = 1 .. (Len(topic) + 1)
      /\ \A i \in 1 .. Len(topic) : topic'[i] = topic[i]
      /\ topic'[Len(topic) + 1] = e /\ Len(topic) \in Nat
  BY DEF Shape
<1>2. Dispatch!Accepted' = {topic'[i] : i \in 1 .. (Len(topic) + 1)}
      /\ Dispatch!Accepted = {topic[i] : i \in 1 .. Len(topic)}
  BY <1>1 DEF Dispatch!Accepted
<1> QED
  BY <1>1, <1>2

(* What a step of a dispatcher or of the outbox does to the invariant. *)
LEMMA TruthKeeps ==
  ASSUME TruthInv, FlowTypes, FlowTypes', NEW d \in Dispatchers, UNCHANGED handled,
         \A q \in Dispatchers : q # d => disp'[q] = disp[q],
         \A e \in Hand(d)' : InOutbox(e)',
         Dispatch!Accepted \subseteq Dispatch!Accepted',
         \A e \in Dispatch!Accepted' : e \in Dispatch!Accepted \/ InOutbox(e)',
         disp'[d].pc = "published" => Dispatch!Current(d)' \in Dispatch!Accepted',
         \A e \in Events : InOutbox(e) => InOutbox(e)',
         \A e \in Events :
           row'[e].status = "published" => row[e].status = "published" \/ e \in Dispatch!Accepted',
         Dispatch!Accepted \subseteq Events
  PROVE  TruthInv'
<1>1. ASSUME NEW q \in Dispatchers
      PROVE  /\ \A e \in Hand(q)' : InOutbox(e)'
             /\ disp'[q].pc = "published" => Dispatch!Current(q)' \in Dispatch!Accepted'
  <2>1. CASE q = d
    BY <2>1
  <2>2. CASE q # d
    <3>1. Hand(q)' = Hand(q) /\ Dispatch!Current(q)' = Dispatch!Current(q) /\ disp'[q] = disp[q]
      BY <2>2 DEF Hand, Dispatch!Current
    <3>2. Hand(q) \subseteq Events
      BY CurrentInHand
    <3> QED
      BY <3>1, <3>2 DEF TruthInv
  <2> QED
    BY <2>1, <2>2
<1> QED
  BY <1>1 DEF TruthInv

LEMMA AcceptedTyped == ASSUME Shape PROVE Dispatch!Accepted \subseteq Events
BY DEF Shape, Dispatch!Accepted

\* What changes of the rows: a row keeps what it says unless it is claimed or marked.
LEMMA RowTyped ==
  ASSUME FlowTypes, NEW e \in Events, NEW r \in RowState, row' = [row EXCEPT ![e] = r]
  PROVE  row' \in [Events -> RowState] /\ row'[e] = r /\ \A f \in Events : f # e => row'[f] = row[f]
BY DEF FlowTypes

LEMMA ClaimTrue ==
  ASSUME Shape, FlowTypes, TruthInv, NEW d \in Dispatchers, Dispatch!ClaimPending(d),
         UNCHANGED consumerVars
  PROVE  FlowTypes' /\ TruthInv' /\ UNCHANGED topic
<1> DEFINE B == Dispatch!Batch
           claimed == [pc |-> "publish", batch |-> [e \in B |-> row[e].retry], tried |-> 0]
<1>1. /\ B \subseteq Events /\ B # {}
      /\ \A e \in B : row[e].status \in {"pending", "failed"}
  BY DEF Dispatch!ClaimPending, Dispatch!Batch, Dispatch!Claimable
<1>2. \A e \in Events : row[e] \in RowState
  BY DEF FlowTypes
<1>3. /\ row' \in [Events -> RowState]
      /\ \A e \in Events : row'[e].status = IF e \in B THEN "publishing" ELSE row[e].status
  <2>1. row' = [e \in Events |->
                  IF e \in B THEN [row[e] EXCEPT !.status = "publishing", !.due = TRUE] ELSE row[e]]
    BY DEF Dispatch!ClaimPending
  <2>2. \A e \in Events : /\ [row[e] EXCEPT !.status = "publishing", !.due = TRUE] \in RowState
                          /\ [row[e] EXCEPT !.status = "publishing", !.due = TRUE].status = "publishing"
    BY <1>2 DEF RowState
  <2> HIDE DEF B
  <2> QED
    BY <1>2, <2>1, <2>2
<1>4. claimed \in DispState /\ DOMAIN claimed.batch = B
  <2>1. [e \in B |-> row[e].retry] \in [B -> Nat]
    BY <1>1, <1>2 DEF RowState
  <2> QED
    BY <1>1, <2>1 DEF DispState, Batches
<1>5. UNCHANGED <<topic, handled>> /\ disp[d].pc = "idle"
      /\ (disp' = disp \/ disp' = [disp EXCEPT ![d] = claimed])
  BY DEF Dispatch!ClaimPending, Dispatch!With, Dispatch!At, consumerVars
<1> HIDE DEF claimed, B
<1>6. /\ disp' \in [Dispatchers -> DispState]
      /\ \A q \in Dispatchers : q # d => disp'[q] = disp[q]
      /\ disp'[d] = disp[d] \/ disp'[d] = claimed
  BY <1>4, <1>5 DEF FlowTypes
<1>7. claimed.pc = "publish"
  BY DEF claimed
<1>8. FlowTypes'
  BY <1>1, <1>3, <1>4, <1>5, <1>6, <1>7 DEF FlowTypes, Hand
<1>9. \A e \in Events : (InOutbox(e) => InOutbox(e)') /\ (e \in B => InOutbox(e)')
  BY <1>3 DEF InOutbox
<1>10. \A e \in Hand(d)' : InOutbox(e)'
  BY <1>1, <1>4, <1>6, <1>9, CurrentInHand DEF Hand, TruthInv
<1>11. Dispatch!Accepted' = Dispatch!Accepted
  BY <1>5 DEF Dispatch!Accepted
<1>12. \A e \in Events : row'[e].status = "published" => row[e].status = "published"
  BY <1>3
<1> QED
  BY <1>5, <1>6, <1>7, <1>8, <1>9, <1>10, <1>11, <1>12, AcceptedTyped, TruthKeeps

LEMMA PublishTrue ==
  ASSUME Shape, FlowTypes, TruthInv, NEW d \in Dispatchers,
         Dispatch!WriterRetries(d) \/ Dispatch!Publish(d), UNCHANGED consumerVars
  PROVE  /\ FlowTypes' /\ TruthInv'
         /\ UNCHANGED topic \/ \E e \in Events : topic' = Append(topic, e)
<1> DEFINE e == Dispatch!Current(d)
<1>1. disp[d].pc = "publish" /\ UNCHANGED <<row, handled>>
  BY DEF Dispatch!WriterRetries, Dispatch!Publish, Dispatch!At, consumerVars
<1>2. e \in Hand(d) /\ e \in Events
  BY <1>1, CurrentInHand
<1>3. PICK pc \in {"publish", "published", "failed"} :
        /\ \/ disp' = [disp EXCEPT ![d].pc = pc]
           \/ disp[d].pc = pc /\ disp' = [disp EXCEPT ![d].tried = @ + 1]
        /\ topic' \in {topic, Append(topic, e)}
        /\ pc = "published" => topic' = Append(topic, e)
  BY <1>1 DEF Dispatch!WriterRetries, Dispatch!Publish
<1>4. /\ disp' \in [Dispatchers -> DispState] /\ disp'[d].pc = pc
      /\ \A q \in Dispatchers : disp'[q].batch = disp[q].batch
      /\ \A q \in Dispatchers : q # d => disp'[q] = disp[q]
  BY <1>1, <1>3, PlaceChanges
<1>5. /\ \A q \in Dispatchers : Hand(q)' = Hand(q)
      /\ Dispatch!Current(d)' = e
      /\ \A f \in Events : InOutbox(f)' = InOutbox(f)
  BY <1>1, <1>4 DEF Hand, Dispatch!Current, InOutbox
<1>6. FlowTypes'
  BY <1>1, <1>4, <1>5 DEF FlowTypes
<1>7. /\ Dispatch!Accepted' \in {Dispatch!Accepted, Dispatch!Accepted \cup {e}}
      /\ pc = "published" => Dispatch!Accepted' = Dispatch!Accepted \cup {e}
  <2>1. topic' = topic => Dispatch!Accepted' = Dispatch!Accepted
    BY DEF Dispatch!Accepted
  <2> HIDE DEF e
  <2> QED
    BY <1>2, <1>3, <2>1, AcceptedGrows
<1>8. \A f \in Hand(d) : f \in Events /\ InOutbox(f)
  BY CurrentInHand DEF TruthInv
<1>9. TruthInv'
  <2> HIDE DEF e
  <2> QED
    BY <1>1, <1>2, <1>4, <1>5, <1>6, <1>7, <1>8, AcceptedTyped, TruthKeeps
<1> QED
  BY <1>2, <1>3, <1>6, <1>9

LEMMA MarkTrue ==
  ASSUME Shape, FlowTypes, TruthInv, NEW d \in Dispatchers, UNCHANGED consumerVars,
         \/ Dispatch!MarkPublished(d) \/ Dispatch!MarkFailed(d)
         \/ Dispatch!Restart(d) /\ UNCHANGED row
  PROVE  FlowTypes' /\ TruthInv' /\ UNCHANGED topic
<1> DEFINE e == Dispatch!Current(d)
<1>1. /\ disp[d].pc # "idle" /\ UNCHANGED <<topic, handled>>
      /\ Dispatch!NextMessage(d) \/ Dispatch!Return(d)
  BY DEF Dispatch!MarkPublished, Dispatch!MarkFailed, Dispatch!Restart, Dispatch!At, consumerVars
<1>2. /\ e \in Hand(d) /\ Hand(d) \subseteq Events
      /\ disp[d].batch[e] \in Nat
  BY <1>1, CurrentInHand
<1>3. /\ disp' \in [Dispatchers -> DispState]
      /\ \A q \in Dispatchers : q # d => disp'[q] = disp[q]
      /\ Hand(d)' \subseteq Hand(d)
      /\ disp'[d].pc \in {"idle", "publish"}
      /\ disp'[d].pc # "idle" => Hand(d)' # {}
  BY <1>1, BatchShrinks
<1>4. row[e] \in RowState
  BY <1>2 DEF FlowTypes
<1>5. \/ UNCHANGED row
      \/ \E r \in RowState :
           /\ row' = [row EXCEPT ![e] = r]
           /\ r.status \in {"published", "failed"}
           /\ r.status = "published" => disp[d].pc = "published"
  <2>1. CASE Dispatch!MarkPublished(d)
    <3>1. [row[e] EXCEPT !.status = "published"] \in RowState
          /\ [row[e] EXCEPT !.status = "published"].status = "published"
      BY <1>4 DEF RowState
    <3>2. \/ UNCHANGED row
          \/ row' = [row EXCEPT ![e] = [row[e] EXCEPT !.status = "published"]]
      BY <1>2, <2>1 DEF Dispatch!MarkPublished, FlowTypes, RowState
    <3> QED
      BY <2>1, <3>1, <3>2 DEF Dispatch!MarkPublished, Dispatch!At
  <2>2. CASE Dispatch!MarkFailed(d)
    <3>1. [status |-> "failed", retry |-> disp[d].batch[e] + 1, due |-> FALSE] \in RowState
      BY <1>2 DEF RowState
    <3> QED
      BY <2>2, <3>1 DEF Dispatch!MarkFailed
  <2>3. CASE Dispatch!Restart(d) /\ UNCHANGED row
    BY <2>3
  <2> QED
    BY <2>1, <2>2, <2>3
<1>6. /\ row' \in [Events -> RowState]
      /\ \A f \in Events : InOutbox(f) => InOutbox(f)'
      /\ \A f \in Events : row'[f].status = "published" =>
           row[f].status = "published" \/ (f = e /\ disp[d].pc = "published")
  <2> HIDE DEF e
  <2>1. CASE UNCHANGED row
    BY <2>1 DEF InOutbox, FlowTypes
  <2>2. CASE ~ UNCHANGED row
    <3>1. PICK r \in RowState : /\ row' = [row EXCEPT ![e] = r]
                                /\ r.status \in {"published", "failed"}
                                /\ r.status = "published" => disp[d].pc = "published"
      BY <1>5, <2>2
    <3>2. e \in Events
      BY <1>2
    <3>3. /\ row' \in [Events -> RowState] /\ row'[e] = r
          /\ \A f \in Events : f # e => row'[f] = row[f]
      BY <3>1, <3>2, RowTyped
    <3> QED
      BY <3>1, <3>3 DEF InOutbox
  <2> QED
    BY <1>5, <2>1, <2>2
<1>7. FlowTypes'
  BY <1>3, <1>6 DEF FlowTypes, Hand
<1>8. /\ \A f \in Hand(d)' : InOutbox(f)'
      /\ disp[d].pc = "published" => e \in Dispatch!Accepted
  BY <1>2, <1>3, <1>6 DEF TruthInv
<1>9. Dispatch!Accepted' = Dispatch!Accepted
  BY <1>1 DEF Dispatch!Accepted
<1>10. TruthInv'
  <2> HIDE DEF e
  <2> QED
    BY <1>1, <1>3, <1>6, <1>7, <1>8, <1>9, AcceptedTyped, TruthKeeps
<1> QED
  BY <1>1, <1>7, <1>10

\* A row is inserted with its payment, or its time comes.
LEMMA RowsTrue ==
  ASSUME Shape, FlowTypes, TruthInv, NEW e \in Events,
         Dispatch!Insert(e) \/ Dispatch!Due(e), UNCHANGED consumerVars
  PROVE  FlowTypes' /\ TruthInv' /\ UNCHANGED topic
<1>1. UNCHANGED <<disp, topic, handled>>
  BY DEF Dispatch!Insert, Dispatch!Due, consumerVars
<1>2. row[e] \in RowState
  BY DEF FlowTypes
<1>3. PICK r \in RowState : /\ row' = [row EXCEPT ![e] = r]
                            /\ r.status \in {"pending", "failed"}
  <2>1. CASE Dispatch!Insert(e)
    <3>1. [row[e] EXCEPT !.status = "pending"] \in RowState
          /\ [row[e] EXCEPT !.status = "pending"].status = "pending"
      BY <1>2 DEF RowState
    <3> QED
      BY <2>1, <3>1 DEF Dispatch!Insert, FlowTypes, RowState
  <2>2. CASE Dispatch!Due(e)
    <3>1. [row[e] EXCEPT !.due = TRUE] \in RowState
          /\ [row[e] EXCEPT !.due = TRUE].status = row[e].status
      BY <1>2 DEF RowState
    <3> QED
      BY <2>2, <3>1 DEF Dispatch!Due, FlowTypes, RowState
  <2> QED
    BY <2>1, <2>2
<1>4. /\ row' \in [Events -> RowState] /\ row'[e] = r
      /\ \A f \in Events : f # e => row'[f] = row[f]
  BY <1>3, RowTyped
<1>5. /\ \A f \in Events : InOutbox(f) => InOutbox(f)'
      /\ \A f \in Events : row'[f].status = "published" => row[f].status = "published"
  BY <1>3, <1>4 DEF InOutbox
<1>6. /\ \A q \in Dispatchers : Hand(q)' = Hand(q) /\ Dispatch!Current(q)' = Dispatch!Current(q)
      /\ Dispatch!Accepted' = Dispatch!Accepted
  BY <1>1 DEF Hand, Dispatch!Current, Dispatch!Accepted
<1>7. FlowTypes'
  BY <1>1, <1>4, <1>6 DEF FlowTypes
<1>8. \A q \in Dispatchers : Hand(q) \subseteq Events
  BY CurrentInHand
<1>9. TruthInv'
  BY <1>1, <1>5, <1>6, <1>8, AcceptedTyped DEF TruthInv
<1> QED
  BY <1>1, <1>7, <1>9

\* A consumer handles what is in the topic.
LEMMA ConsumerTrue ==
  ASSUME Shape, FlowTypes, TruthInv, ConsumerStep
  PROVE  FlowTypes' /\ TruthInv' /\ UNCHANGED topic
<1>1. UNCHANGED <<row, disp, topic>>
  BY DEF ConsumerStep, ConsumerNext, Consume, FetchMessage, GetConsumeRecord,
         CreateConsumeRecord, Handle, MarkConsumeRecordSucceeded, CommitMessages, Restart,
         Rebalance, outboxVars
<1>2. ASSUME NEW e \in Events PROVE handled'[e] > 0 => handled[e] > 0 \/ e \in Dispatch!Accepted
  <2>1. CASE UNCHANGED handled
    BY <2>1
  <2>2. ASSUME NEW c \in Consumers, Handle(c)
        PROVE  handled'[e] > 0 => handled[e] > 0 \/ e \in Dispatch!Accepted
    <3>1. cons[c].at \in 1 .. Len(topic) /\ Event(c) \in Events
      BY <2>2, EventTyped DEF Handle
    <3>2. Event(c) \in Dispatch!Accepted
      BY <3>1 DEF Event, Dispatch!Accepted, Shape
    <3>3. e # Event(c) => handled'[e] = handled[e]
      BY <2>2 DEF Handle, Shape
    <3> QED
      BY <3>2, <3>3
  <2>3. UNCHANGED handled \/ \E c \in Consumers : Handle(c)
    BY DEF ConsumerStep, ConsumerNext, Consume, FetchMessage, GetConsumeRecord,
           CreateConsumeRecord, MarkConsumeRecordSucceeded, CommitMessages, Restart, Rebalance
  <2> QED
    BY <2>1, <2>2, <2>3
<1>3. /\ \A q \in Dispatchers : Hand(q)' = Hand(q) /\ Dispatch!Current(q)' = Dispatch!Current(q)
      /\ Dispatch!Accepted' = Dispatch!Accepted
      /\ \A e : InOutbox(e)' = InOutbox(e)
  BY <1>1 DEF Hand, Dispatch!Current, Dispatch!Accepted, InOutbox
<1>4. FlowTypes'
  BY <1>1, <1>3 DEF FlowTypes
<1>5. TruthInv'
  BY <1>1, <1>2, <1>3 DEF TruthInv
<1> QED
  BY <1>1, <1>4, <1>5

(* A step of the flow keeps what is true of the outbox, and the consumers see it as a step
   of their own, as a message that arrives, or not at all. *)
LEMMA FlowStep ==
  ASSUME Shape, FlowTypes, TruthInv, [FlowNext]_flowVars
  PROVE  FlowTypes' /\ TruthInv' /\ [Next]_vars
<1>1. ASSUME NEW d \in Dispatchers, RunOnce(d)
      PROVE  FlowTypes' /\ TruthInv' /\ [Next]_vars
  <2>1. UNCHANGED consumerVars /\ Len(topic') <= MaxTopic
    BY <1>1 DEF RunOnce, Fits
  <2>2. FlowTypes' /\ TruthInv' /\ (UNCHANGED topic \/ \E e \in Events : topic' = Append(topic, e))
    BY <1>1, <2>1, ClaimTrue, PublishTrue, MarkTrue DEF RunOnce, Dispatch!RunOnce
  <2>3. ASSUME NEW e \in Events, topic' = Append(topic, e) PROVE Arrive(e)
    BY <2>1, <2>3, ConsumerAssumption DEF Arrive, Shape
  <2> QED
    BY <2>1, <2>2, <2>3 DEF Next, vars
<1>2. ASSUME NEW d \in Dispatchers, DispatcherRestart(d)
      PROVE  FlowTypes' /\ TruthInv' /\ [Next]_vars
  BY <1>2, MarkTrue DEF DispatcherRestart, Dispatch!Restart, vars
<1>3. ASSUME NEW e \in Events, Settle(e) \/ Due(e)
      PROVE  FlowTypes' /\ TruthInv' /\ [Next]_vars
  BY <1>3, RowsTrue DEF Settle, Due, vars
<1>4. CASE ConsumerStep
  BY <1>4, ConsumerTrue DEF ConsumerStep, Next
<1>5. CASE UNCHANGED flowVars
  BY <1>5 DEF flowVars, outboxVars, consumerVars, vars, FlowTypes, TruthInv, Hand, InOutbox,
              Dispatch!Current, Dispatch!Accepted
<1> QED
  BY <1>1, <1>2, <1>3, <1>4, <1>5 DEF FlowNext

LEMMA FlowStart == FlowInit => Init /\ FlowTypes /\ TruthInv
<1> SUFFICES ASSUME FlowInit PROVE Init /\ FlowTypes /\ TruthInv
  OBVIOUS
<1>1. Dispatch!NoBatch \in Batches /\ DOMAIN Dispatch!NoBatch = {}
  <2>1. Dispatch!NoBatch \in [{} -> Nat]
    BY DEF Dispatch!NoBatch
  <2> QED
    BY <2>1 DEF Batches
<1>2. FlowTypes
  BY <1>1 DEF FlowInit, Dispatch!Init, Dispatch!Idle, Dispatch!With, FlowTypes, RowState, DispState
<1>3. Dispatch!Accepted = {} /\ \A e \in Events : handled[e] = 0 /\ row[e].status = "none"
  BY DEF FlowInit, Init, Dispatch!Init, Dispatch!Accepted
<1>4. \A d \in Dispatchers : Hand(d) = {} /\ disp[d].pc = "idle"
  BY <1>1 DEF FlowInit, Dispatch!Init, Dispatch!Idle, Dispatch!With, Hand
<1> QED
  BY <1>2, <1>3, <1>4 DEF TruthInv, FlowInit

LEMMA FlowInvariant == FlowSpec => []FlowInv /\ Spec
<1>1. FlowInit => FlowInv /\ Init
  BY FlowStart, ConsumerInvStarts DEF FlowInv
<1>2. FlowInv /\ [FlowNext]_flowVars => FlowInv' /\ [Next]_vars
  BY FlowStep, ConsumerInvStays DEF FlowInv, ConsumerInv
<1> QED
  BY <1>1, <1>2, PTL DEF FlowSpec, Spec

LEMMA FlowInvExplains == FlowInv => EventsExplained
<1> SUFFICES ASSUME FlowInv PROVE EventsExplained
  OBVIOUS
<1>1. LostExplained
  BY DEF FlowInv, ConsumerInv, PassedInv, Explained, LostExplained
<1>2. ASSUME NEW e \in Events, row[e].status = "published"
      PROVE  \/ handled[e] > 0 \/ Interrupted(e) \/ AtHand(e)
             \/ \E i \in offset + 1 .. Len(topic) : topic[i] = e
  <2>1. PICK i \in 1 .. Len(topic) : topic[i] = e
    BY <1>2 DEF FlowInv, TruthInv, Dispatch!Accepted, ConsumerInv, Shape
  <2>2. handled[e] \in Nat /\ offset \in Nat /\ Len(topic) \in Nat
    BY DEF FlowInv, ConsumerInv, Shape
  <2>3. CASE i > offset
    BY <2>1, <2>2, <2>3
  <2>4. CASE i <= offset
    <3>1. handled[topic[i]] = 0 => Interrupted(topic[i]) \/ AtHand(topic[i])
      BY <1>1, <2>2, <2>4 DEF LostExplained
    <3> QED
      BY <2>1, <2>2, <3>1
  <2> QED
    BY <2>2, <2>3, <2>4
<1> QED
  BY <1>1, <1>2 DEF EventsExplained, FlowInv, TruthInv, InOutbox

(* The dispatchers of the outbox are one of the publishers that the consumers are made for:
   the flow implements EventConsumer. *)
THEOREM FlowConsumes == FlowSpec => Spec
BY FlowInvariant

(* On its whole way an event is handled at most once (HandledAtMostOnce), only when its
   payment was settled, and one that was published or passed is not lost without a trace
   (EventsExplained), whatever fails and dies on both sides. *)
THEOREM FlowExplained == FlowSpec => [](HandledAtMostOnce /\ EventsExplained)
<1>1. FlowInv => HandledAtMostOnce
  BY DEF FlowInv, ConsumerInv, OnceInv, HandledAtMostOnce
<1> QED
  BY <1>1, FlowInvExplains, FlowInvariant, PTL
==============================================================================
