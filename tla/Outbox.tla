--------------------------------- MODULE Outbox ---------------------------------
(***************************************************************************)
(* The outbox of the payment service and its dispatchers (app/mq).  The    *)
(* transaction that settles a payment inserts a row; every instance of the *)
(* service runs a dispatcher that, at each tick, claims a batch of rows    *)
(* (committed as publishing before anything is sent), publishes them in    *)
(* the order of their ids and marks each one.  RunOnce returns at the      *)
(* first mark that fails and forgets the rest of its batch.                *)
(*                                                                         *)
(* Publish hands a message to the Writer of the Kafka client, which tries  *)
(* again by itself: a produce request whose answer is lost leaves a copy   *)
(* of the message, and the next one another.                               *)
(*                                                                         *)
(* A claim is one step: FOR UPDATE SKIP LOCKED keeps two claims apart      *)
(* until they commit.  The topic is one partition, a sequence of events.   *)
(***************************************************************************)
EXTENDS Integers, FiniteSets, Sequences, FiniteSetsExt

CONSTANTS
  Events,        \* ids of outbox rows
  Dispatchers,   \* instances of the payment service
  BatchSize,     \* dispatcher_batch_size
  MaxRetries,    \* max_retries, 16 in the code
  WriterAttempts,   \* produce requests for one Publish: MaxAttempts of the Writer, 10 by default
  Faults

FaultKinds == {"mq_error", "db_error", "lost_ack", "crash"}

OutboxAssumption ==
  /\ Events \subseteq Nat
  /\ BatchSize \in Nat \ {0} /\ MaxRetries \in Nat \ {0} /\ WriterAttempts \in Nat \ {0}
  /\ Faults \subseteq FaultKinds

VARIABLES
  row,    \* row[e]: the payment_outbox row e
  disp,   \* disp[d]: where the dispatcher stands, what is left of its batch, and how often
          \* the Writer has tried the first of it and goes on
  topic   \* the events Kafka has accepted

vars == <<row, disp, topic>>

NoBatch == [e \in {} |-> 0]
With(pc, batch) == [pc |-> pc, batch |-> batch, tried |-> 0]
Idle == With("idle", NoBatch)

Init ==
  /\ row = [e \in Events |-> [status |-> "none", retry |-> 0, due |-> TRUE]]
  /\ disp = [d \in Dispatchers |-> Idle]
  /\ topic = << >>

At(d, pc) == disp[d].pc = pc
Current(d) == Min(DOMAIN disp[d].batch)

\* The payment's transaction commits (Payment, Update).
Insert(e) ==
  /\ row[e].status = "none"
  /\ row' = [row EXCEPT ![e].status = "pending"]
  /\ UNCHANGED <<disp, topic>>

------------------------------------------------------------------------------
(* RunOnce. *)

Claimable(e) ==
  row[e].status \in {"pending", "failed"} /\ row[e].retry < MaxRetries /\ row[e].due

\* ORDER BY id LIMIT ?
Batch ==
  LET S == {e \in Events : Claimable(e)} IN
  {e \in S : Cardinality({f \in S : f < e}) < BatchSize}

\* Mutant: the row is not taken out of the reach of other dispatchers.
ClaimUnmarked(d) ==
  /\ At(d, "idle") /\ Batch # {}
  /\ disp' = [disp EXCEPT ![d] = With("publish", [e \in Batch |-> row[e].retry])]
  /\ UNCHANGED <<row, topic>>

\* ClaimPending.  When the commit's answer is lost, RunOnce returns without a batch.
ClaimPending(d) ==
  /\ At(d, "idle") /\ Batch # {}
  /\ row' = [e \in Events |->
               IF e \in Batch THEN [row[e] EXCEPT !.status = "publishing", !.due = TRUE] ELSE row[e]]
  /\ \/ disp' = [disp EXCEPT ![d] = With("publish", [e \in Batch |-> row[e].retry])]
     \/ "lost_ack" \in Faults /\ UNCHANGED disp
  /\ UNCHANGED topic

\* Mutant: an error of Publish goes unnoticed.
PublishUnchecked(d) ==
  /\ At(d, "publish")
  /\ topic' \in {topic, Append(topic, Current(d))}
  /\ disp' = [disp EXCEPT ![d].pc = "published"]
  /\ UNCHANGED row

\* A produce request fails for a time, whether Kafka took the message or not, and the Writer
\* goes on.
WriterRetries(d) ==
  /\ At(d, "publish") /\ "mq_error" \in Faults
  /\ disp[d].tried < WriterAttempts - 1
  /\ topic' \in {topic, Append(topic, Current(d))}
  /\ disp' = [disp EXCEPT ![d].tried = @ + 1]
  /\ UNCHANGED row

(* The last produce request of a Publish succeeds, or fails for good: an error leaves open
   whether Kafka took the message. *)
Publish(d) ==
  LET e == Current(d) IN
  /\ At(d, "publish")
  /\ \/ topic' = Append(topic, e) /\ disp' = [disp EXCEPT ![d].pc = "published"]
     \/ /\ "mq_error" \in Faults
        /\ topic' \in {topic, Append(topic, e)}
        /\ disp' = [disp EXCEPT ![d].pc = "failed"]
  /\ UNCHANGED row

\* The loop goes on with the rest of the batch.
NextMessage(d) ==
  LET rest == [e \in DOMAIN disp[d].batch \ {Current(d)} |-> disp[d].batch[e]] IN
  disp' = [disp EXCEPT ![d] = IF rest = NoBatch THEN Idle ELSE With("publish", rest)]

\* RunOnce returns: what is left of the batch is forgotten.
Return(d) == disp' = [disp EXCEPT ![d] = Idle]

MarkPublished(d) ==
  /\ At(d, "published")
  /\ \/ row' = [row EXCEPT ![Current(d)].status = "published"] /\ NextMessage(d)
     \/ "lost_ack" \in Faults /\ row' = [row EXCEPT ![Current(d)].status = "published"] /\ Return(d)
     \/ "db_error" \in Faults /\ UNCHANGED row /\ Return(d)
  /\ UNCHANGED topic

MarkFailed(d) ==
  LET e == Current(d)
      failed == [row EXCEPT ![e] =
                  [status |-> "failed", retry |-> disp[d].batch[e] + 1, due |-> FALSE]]
  IN
  /\ At(d, "failed")
  /\ \/ row' = failed /\ NextMessage(d)
     \/ "lost_ack" \in Faults /\ row' = failed /\ Return(d)
     \/ "db_error" \in Faults /\ UNCHANGED row /\ Return(d)
  /\ UNCHANGED topic

\* next_retry_at passes.
Due(e) ==
  /\ row[e].status = "failed" /\ ~row[e].due
  /\ row' = [row EXCEPT ![e].due = TRUE]
  /\ UNCHANGED <<disp, topic>>

\* The service dies and is started again: nothing of a batch survives.  An orderly
\* stop does the same, for it cancels the context a batch is published under.
Restart(d) ==
  /\ "crash" \in Faults
  /\ ~At(d, "idle")
  /\ Return(d)
  /\ UNCHANGED <<row, topic>>

------------------------------------------------------------------------------
RunOnce(d) ==
  ClaimPending(d) \/ WriterRetries(d) \/ Publish(d) \/ MarkPublished(d) \/ MarkFailed(d)

Next ==
  \/ \E e \in Events : Insert(e) \/ Due(e)
  \/ \E d \in Dispatchers : RunOnce(d) \/ Restart(d)

Spec == Init /\ [][Next]_vars

(* The ticker calls RunOnce again and again, and time passes. *)
FairSpec ==
  /\ Spec
  /\ \A d \in Dispatchers : WF_vars(RunOnce(d))
  /\ \A e \in Events : WF_vars(Due(e))

------------------------------------------------------------------------------
(* Properties. *)

Accepted == {topic[i] : i \in DOMAIN topic}

\* The type of every variable.
TypeOK ==
  /\ row \in [Events -> [status : {"none", "pending", "publishing", "published", "failed"},
                         retry : 0 .. MaxRetries, due : BOOLEAN]]
  /\ \A d \in Dispatchers :
       /\ disp[d].pc \in {"idle", "publish", "published", "failed"}
       /\ disp[d].batch \in [DOMAIN disp[d].batch -> 0 .. MaxRetries - 1]
       /\ DOMAIN disp[d].batch \subseteq Events
       /\ disp[d].tried \in 0 .. WriterAttempts - 1
       /\ disp[d].pc = "idle" <=> disp[d].batch = NoBatch
  /\ topic \in Seq(Events)

(* However many dispatchers run and fail, a row is in the hands of at most one of
   them, and what it holds is not claimable: no event is published twice because two
   dispatchers overlapped. *)
OneHolder ==
  \A d \in Dispatchers : \A e \in DOMAIN disp[d].batch :
    /\ row[e].status = "publishing"
    /\ \A q \in Dispatchers : e \in DOMAIN disp[q].batch => q = d

(* A row that is marked published was accepted by Kafka. *)
PublishedWasSent == \A e \in Events : row[e].status = "published" => e \in Accepted

Sent(e) == Cardinality({i \in DOMAIN topic : topic[i] = e})

(* Copies of an event come from retries alone: the Writer makes at most WriterAttempts of
   them in each failed attempt that was counted, and in the last one. *)
CopiesAreRetries ==
  \A e \in Events :
    Sent(e) <= WriterAttempts *
      (row[e].retry + (IF row[e].status \in {"pending", "failed"} THEN 0 ELSE 1))

(* Documented: a message that was committed with its transaction is not lost.
   The code does not keep it (README, section 3). *)
NoMessageLost == \A e \in Events : row[e].status = "pending" ~> e \in Accepted
==============================================================================
