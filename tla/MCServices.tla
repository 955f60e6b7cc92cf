------------------------------ MODULE MCServices ------------------------------
(***************************************************************************)
(* What happens in the services besides orders and stock, in small         *)
(* instances: payments (MCPayment), the outbox, the cart and the roles of  *)
(* users.  These parts share no state.  A behaviour is about one of them,  *)
(* `part`, and leaves the variables of the others alone; payments, the     *)
(* cart and the roles are there with steps that overlap and with steps one *)
(* after the other.                                                        *)
(***************************************************************************)
EXTENDS MCPayment, Sequences

VARIABLES part

------------------------------------------------------------------------------
VARIABLES payment, overdue, payRec, sent, payReq, confirming, paidOrder, paidRec

(* Payment p0 is pending; it is confirmed, and confirmed again under the same
   request_id, and one is created, which closes p0 when that has expired.  Transitions
   of a payment may overlap. *)
Pay == INSTANCE Payment WITH
  Payments <- {p0, p1}, Existing <- {p0}, Requests <- {create1, confirm0, confirm0Again},
  Faults <- {"rpc_timeout", "lost_ack", "crash"}, PaymentOverlap <- TRUE, BillsOverlap <- TRUE,
  pay <- payment, expired <- overdue, rec <- payRec, events <- sent, req <- payReq,
  call <- confirming, order <- paidOrder, orderRec <- paidRec

\* The confirmation repeated under another request_id, and nothing else.
Repeated == INSTANCE Payment WITH
  Payments <- {p0}, Existing <- {p0}, Requests <- {confirm0, confirm0Anew},
  Faults <- {"rpc_timeout", "lost_ack", "crash"}, PaymentOverlap <- TRUE, BillsOverlap <- TRUE,
  pay <- payment, expired <- overdue, rec <- payRec, events <- sent, req <- payReq,
  call <- confirming, order <- paidOrder, orderRec <- paidRec

ASSUME PayAssumption ==
  /\ Pay!RequestsAssumption /\ Pay!PaymentsAssumption /\ Pay!OneBill
  /\ Repeated!RequestsAssumption /\ Repeated!PaymentsAssumption /\ Repeated!OneBill

payVars == <<payment, overdue, payRec, sent, payReq, confirming, paidOrder, paidRec>>

------------------------------------------------------------------------------
CONSTANTS
  Events, Dispatchers, BatchSize, MaxRetries, WriterAttempts, MqFaults,
  MaxTopic   \* bound: messages in the topic

VARIABLES row, disp, topic

Box == INSTANCE Outbox WITH Faults <- MqFaults

ASSUME BoxAssumption == Box!OutboxAssumption

boxVars == <<row, disp, topic>>

------------------------------------------------------------------------------
CONSTANTS
  CrowdSkus, QueueSkus, CartRequests,   \* one SKU for requests that overlap, more for the others
  Quantities, Top, None

VARIABLES item, asked, gone, inTurn, askedInTurn, goneInTurn

\* Requests that overlap, ...
Crowd == INSTANCE Cart WITH
  Skus <- CrowdSkus, Requests <- CartRequests, Kinds <- {"add", "set", "remove", "clear"},
  MayOverlap <- TRUE, call <- asked

\* ... and one after the other.
Queue == INSTANCE Cart WITH
  Skus <- QueueSkus, Requests <- CartRequests, Kinds <- {"add", "set", "remove", "clear"},
  MayOverlap <- FALSE, item <- inTurn, call <- askedInTurn, gone <- goneInTurn

ASSUME BasketAssumption == Crowd!CartAssumption /\ Queue!CartAssumption

crowdVars == <<item, asked, gone>>
queueVars == <<inTurn, askedInTurn, goneInTurn>>
cartVars == <<crowdVars, queueVars>>

------------------------------------------------------------------------------
CONSTANTS Users, Threads

VARIABLES role, token, asking, founders

\* Threads that register users and change roles, one after the other or overlapping.
Serial == INSTANCE UserRoles WITH Requests <- Threads, MayOverlap <- FALSE, call <- asking

Overlapping == INSTANCE UserRoles WITH Requests <- Threads, MayOverlap <- TRUE, call <- asking

ASSUME RolesAssumption == Serial!UserAssumption /\ Overlapping!UserAssumption

roleVars == <<role, token, asking, founders>>

------------------------------------------------------------------------------
servicesVars == <<part, vars, payVars, boxVars, cartVars, roleVars>>

ServicesInit ==
  /\ part \in {"payments", "repeated payments", "serial payments", "outbox",
               "cart", "serial cart", "roles", "serial roles"}
  /\ IF part = "repeated payments" THEN Repeated!Init ELSE Pay!Init
  /\ Init /\ Box!Init /\ Serial!Init
  /\ Crowd!Init /\ Queue!Init

ServicesNext ==
  \/ part = "serial payments" /\ Next /\ UNCHANGED <<part, payVars, boxVars, cartVars, roleVars>>
  \/ part = "payments" /\ Pay!Next /\ UNCHANGED <<part, vars, boxVars, cartVars, roleVars>>
  \/ /\ part = "repeated payments"
     /\ Repeated!Next /\ UNCHANGED <<part, vars, boxVars, cartVars, roleVars>>
  \/ /\ part = "outbox"
     /\ Box!Next /\ Len(topic') <= MaxTopic
     /\ UNCHANGED <<part, vars, payVars, cartVars, roleVars>>
  \/ /\ part = "cart"
     /\ Crowd!Next /\ UNCHANGED <<part, vars, payVars, boxVars, queueVars, roleVars>>
  \/ /\ part = "serial cart"
     /\ Queue!Next /\ UNCHANGED <<part, vars, payVars, boxVars, crowdVars, roleVars>>
  \/ part = "roles" /\ Overlapping!Next /\ UNCHANGED <<part, vars, payVars, boxVars, cartVars>>
  \/ part = "serial roles" /\ Serial!Next /\ UNCHANGED <<part, vars, payVars, boxVars, cartVars>>

ServicesSpec == ServicesInit /\ [][ServicesNext]_servicesVars

------------------------------------------------------------------------------
(* Properties.  InStep, AnswersHold, OneEvent and FinalStatus are those of Payment. *)

(* Even when transitions of a payment overlap, one that succeeded has its order paid, by
   this payment; and when everything has come to rest, an order paid by a payment that did
   not succeed is the trace of a confirmation that died, stopped waiting for the order
   service or was told it had failed, or of a payment that was closed under it.  (The
   database does not fail here: InStep covers that.) *)
OverlapExplained ==
  /\ part = "payments" => Pay!InStep
  /\ part = "repeated payments" => Repeated!InStep

(* However many dispatchers run and fail, a row is in the hands of at most one of them;
   what is marked published was accepted by Kafka; and copies of an event come from
   attempts that were counted, and the last one, with as many produce requests as the Kafka
   client makes for each. *)
OutboxKept ==
  part = "outbox" =>
    Box!TypeOK /\ Box!OneHolder /\ Box!PublishedWasSent /\ Box!CopiesAreRetries

(* Overlapping requests may lose an addition, but the cart never holds more than what was
   put in and set by requests that had their effect, whatever they were answered, and a row
   that was removed never comes back. *)
NeverMore ==
  part = "cart" => Crowd!TypeOK /\ Crowd!NeverMore /\ Crowd!RemovedStaysRemoved

(* Requests one after the other change the cart as they are documented to: an add adds, an
   update replaces, a removal takes out. *)
ActsAsCart ==
  /\ Queue!Book!CartBookInit
  /\ [][part = "serial cart" => [Queue!Book!CartBookNext]_(Queue!Book!cartBookVars)]_queueVars

(* Documented: in an empty system the first user to register is superadmin, here whichever
   of several is the first to be inserted; and of requests one after the other none takes
   the last superadmin away, nor is there a second one by registration, also when those
   who ask for changes act on tokens that are out of date. *)
RolesKept ==
  /\ part = "roles" => Overlapping!TypeOK /\ Overlapping!FirstIsFounder
  /\ part = "serial roles" => Serial!TypeOK /\ Serial!SuperadminRemains /\ Serial!OneFounder
==============================================================================
