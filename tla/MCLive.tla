-------------------------------- MODULE MCLive --------------------------------
(***************************************************************************)
(* What must happen in the end, in small instances: requests for orders    *)
(* and payments, the guard of the SKUs, the way of a payment's event, the  *)
(* product cache, the creation of a product and the shutdown of a process. *)
(* These parts share no state.  A behaviour is about one of them, `part`,  *)
(* and leaves the variables of the others alone; what is fair is fair in   *)
(* that part.                                                              *)
(*                                                                         *)
(* The guard is there twice: in SkuGuard itself contexts may end while a   *)
(* request waits, in Patient they do not.                                  *)
(***************************************************************************)
EXTENDS SkuGuard, Sequences, TLC

CONSTANTS
  ServedCalls,  \* calls of other services to the process that stops
  DrainFits     \* its drain window is shorter than the shutdown timeout

VARIABLES part

------------------------------------------------------------------------------
VARIABLES kept, slots, waiting

Patient == INSTANCE SkuGuard WITH
  Requests <- {"r1", "r2"}, Skus <- {1, 2}, Limit <- 1, MayCancel <- FALSE,
  stored <- kept, buf <- slots, req <- waiting

patientVars == <<kept, slots, waiting>>

------------------------------------------------------------------------------
VARIABLES order, expired, rec, orderReq, call, rowStatus, total, reserved, available, resv, tx

\* An order is created, paid and, when it has expired, closed; another one is there.
Order == INSTANCE OrderService WITH
  Skus <- {"s"}, Orders <- {"o1", "o2"}, Existing <- {"o2"},
  Basket <- [o1 |-> [s |-> 1], o2 |-> [s |-> 1]], Stock <- [s |-> 2],
  Requests <- {"create", "pay", "close"},
  Req <- [create |-> [kind |-> "create", order |-> "o1", key |-> "k", payment |-> "none"],
          pay |-> [kind |-> "pay", order |-> "o1", key |-> "p", payment |-> "p1"],
          close |-> [kind |-> "close"]],
  Faults <- {"rpc_timeout", "inventory_error"}, SameOrderOverlap <- TRUE,
  req <- orderReq

orderVars ==
  <<order, expired, rec, orderReq, call, rowStatus, total, reserved, available, resv, tx>>

------------------------------------------------------------------------------
VARIABLES payment, overdue, payRec, events, payReq, confirming, paidOrder, paidRec

R(k, p, key, t) == [kind |-> k, order |-> "o", payment |-> p, key |-> key, trade |-> t]

\* A creation and its retry, which may both come to own the key, and a confirmation.
Pay == INSTANCE Payment WITH
  Orders <- {"o"}, Payments <- {"p1", "p2"}, Existing <- {},
  OrderOf <- [p1 |-> "o", p2 |-> "o"],
  Requests <- {"create", "again", "confirm"},
  Req <- [create |-> R("create", "p1", "k", "none"), again |-> R("create", "p2", "k", "none"),
          confirm |-> R("confirm", "p1", "q", "t")],
  Faults <- {"rpc_timeout"}, PaymentOverlap <- TRUE, BillsOverlap <- TRUE,
  pay <- payment, expired <- overdue, rec <- payRec, req <- payReq,
  call <- confirming, order <- paidOrder, orderRec <- paidRec

payVars == <<payment, overdue, payRec, events, payReq, confirming, paidOrder, paidRec>>

------------------------------------------------------------------------------
VARIABLES topic, offset, owner, cons, record, handled, cut, moves, row, disp

\* One event, two dispatchers, two consumers; Kafka may refuse.
Flow == INSTANCE EventFlow WITH
  Events <- {1}, Dispatchers <- {"d1", "d2"}, BatchSize <- 1, MaxRetries <- 2,
  WriterAttempts <- 1,
  Consumers <- {"c1", "c2"}, Faults <- {"mq_error"}, MaxTopic <- 3, MaxMoves <- 1

flowVars == <<topic, offset, owner, cons, record, handled, cut, moves, row, disp>>

------------------------------------------------------------------------------
VARIABLES prow, sku, cache, read, write, cause

\* A writer that adds a SKU, one that adds none, a reader of that SKU.
Shop == INSTANCE Catalog WITH
  Skus <- {"s1", "s2"}, Initial <- {"s1"},
  Writers <- {"w1", "w2"}, Fresh <- [w1 |-> {"s2"}, w2 |-> {}],
  OffSale <- [w1 |-> {}, w2 |-> {"s1"}],
  Readers <- {"r1"}, ReadKeys <- {"s2"},
  MayOverlap <- TRUE, Faults <- {"crash"}, row <- prow

ASSUME ShopAssumption == Shop!CatalogAssumption

shopVars == <<prow, sku, cache, read, write, cause>>

------------------------------------------------------------------------------
VARIABLES main, server, listed, draining, late, scrape, dbOpen, served

Process == INSTANCE Shutdown WITH
  Requests <- ServedCalls, expired <- late, req <- served

ASSUME ProcessAssumption == Process!DrainAssumption

processVars == <<main, server, listed, draining, late, scrape, dbOpen, served>>

------------------------------------------------------------------------------
VARIABLES product, stock, branch, calls, recorded, outcome, run, runs, causes

(* The failures the saga copes with: the answer of the product's creation and of its
   publication may be lost, the stock's initialisation fails only when it has no effect,
   rollbacks get through. *)
Saga == INSTANCE ProductCreateSaga WITH
  TargetOnline <- TRUE,
  Faults <- [create |-> {"refused", "lost"}, init |-> {"refused"},
             publish |-> {"refused", "lost", "late"},
             uncreate |-> {}, uninit |-> {}, unpublish |-> {}],
  CrashIn <- {"forward"}, MaxRuns <- 3

ASSUME CreationAssumption == Saga!SagaAssumption

sagaVars == <<product, stock, branch, calls, recorded, outcome, run, runs, causes>>

------------------------------------------------------------------------------
liveVars ==
  <<part, vars, patientVars, orderVars, payVars, flowVars, shopVars, processVars, sagaVars>>

LiveInit ==
  /\ part \in {"guard", "patient", "order", "payment", "flow", "shop", "process", "saga"}
  /\ Init /\ Patient!Init /\ Order!Init /\ Pay!Init /\ Shop!Init /\ Process!Init /\ Saga!Init
  /\ Flow!FlowInit
  /\ part # "flow" => owner = "c1"

LiveNext ==
  \/ /\ part = "guard" /\ Next
     /\ UNCHANGED <<part, patientVars, orderVars, payVars, flowVars, shopVars, processVars, sagaVars>>
  \/ /\ part = "patient" /\ Patient!Next
     /\ UNCHANGED <<part, vars, orderVars, payVars, flowVars, shopVars, processVars, sagaVars>>
  \/ /\ part = "order" /\ Order!Next
     /\ UNCHANGED <<part, vars, patientVars, payVars, flowVars, shopVars, processVars, sagaVars>>
  \/ /\ part = "payment" /\ Pay!Next
     /\ UNCHANGED <<part, vars, patientVars, orderVars, flowVars, shopVars, processVars, sagaVars>>
  \/ /\ part = "flow" /\ Flow!FlowNext
     /\ UNCHANGED <<part, vars, patientVars, orderVars, payVars, shopVars, processVars, sagaVars>>
  \/ /\ part = "shop" /\ Shop!Next
     /\ UNCHANGED <<part, vars, patientVars, orderVars, payVars, flowVars, processVars, sagaVars>>
  \/ /\ part = "process" /\ Process!Next
     /\ UNCHANGED <<part, vars, patientVars, orderVars, payVars, flowVars, shopVars, sagaVars>>
  \/ /\ part = "saga" /\ Saga!Next
     /\ UNCHANGED <<part, vars, patientVars, orderVars, payVars, flowVars, shopVars, processVars>>

(* Goroutines run.  Of those that wait to send to a channel, the runtime serves the one
   that came first, so a request is not passed over for ever. *)
PatientFair ==
  \A r \in {"r1", "r2"} :
    /\ WF_patientVars(part = "patient" /\ Patient!Proceed(r))
    /\ SF_patientVars(part = "patient" /\ Patient!Send(r))

\* Every RPC and query has a timeout, and the inventory service works its requests off.
OrderFair ==
  /\ \A r \in {"create", "pay", "close"} : WF_orderVars(part = "order" /\ Order!RequestStep(r))
  /\ \A c \in Order!Calls :
       /\ WF_orderVars(part = "order" /\ Order!Deliver(c))
       /\ WF_orderVars(part = "order" /\ Order!Serve(c))

\* Likewise, and the order service answers.
PayFair ==
  \A r \in {"create", "again", "confirm"} :
    /\ WF_payVars(part = "payment" /\ Pay!RequestStep(r))
    /\ WF_payVars(part = "payment" /\ Pay!OrderStep(r))

\* The ticker calls RunOnce again and again, time passes, and each consumer runs its loop.
FlowFair ==
  /\ \A d \in {"d1", "d2"} : WF_flowVars(part = "flow" /\ Flow!RunOnce(d))
  /\ WF_flowVars(part = "flow" /\ Flow!Due(1))
  /\ \A c \in {"c1", "c2"} :
       WF_flowVars(part = "flow" /\ Flow!Consume(c) /\ UNCHANGED <<row, disp>>)

\* Requests that run go on running, and Redis drops what has expired.
ShopFair ==
  /\ WF_shopVars(part = "shop" /\ Shop!ReadStep("r1"))
  /\ \A w \in {"w1", "w2"} : WF_shopVars(part = "shop" /\ Shop!WriteStep(w))
  /\ \A k \in Shop!Keys : WF_shopVars(part = "shop" /\ Shop!Expire(k))

(* Timers fire, Stop ends and the bootstrap goes on; nothing is assumed of handlers and
   of requests on the admin server. *)
ProcessFair ==
  /\ WF_processVars(part = "process" /\ Process!Main)
  /\ WF_processVars(part = "process" /\ Process!Expire)
  /\ WF_processVars(part = "process" /\ Process!StopGivesUp)
  /\ WF_processVars(part = "process" /\ Process!Dropped)

\* The gateway works or is called again by DTM, and the services end what they began.
SagaFair ==
  /\ WF_sagaVars(part = "saga" /\ Saga!Workflow)
  /\ WF_sagaVars(part = "saga" /\ \E k \in DOMAIN calls : Saga!Serve(k))

LiveSpec ==
  /\ LiveInit /\ [][LiveNext]_liveVars
  /\ PatientFair /\ OrderFair /\ PayFair /\ FlowFair /\ ShopFair /\ ProcessFair /\ SagaFair

------------------------------------------------------------------------------
(* Properties.  AtMostLimit and NoLeak are those of SkuGuard. *)

(* No action record stays pending for ever, as long as no process dies and the
   database answers: every path of a request that claimed its key marks it, and of two
   payment requests that both go on with one key, one does. *)
RecordsResolve == Order!RecordsResolve /\ Pay!RecordsResolve

\* While no context ends, a request that waits gets its reservation.
WaitersServed == Patient!Served

(* While the processes live and the database answers, the event of a settled payment is
   handled once, unless Kafka refused it until its attempts were used up. *)
SettledIsHandled == Flow!SettledIsHandled

\* Once the writes are over, the cache becomes what the database says and stays so.
Healed == Shop!Healed

(* A call is lost to a shutdown, and a process that has exited is still in the registry,
   only if the deadline passed, Stop gave up waiting, or the server had ended of itself. *)
ShutdownExplained ==
  part = "process" => Process!TypeOK /\ Process!LossExplained /\ Process!ListedExplained

(* However long a call or a request on the admin server takes, a process told to stop
   exits, and the registry forgets it. *)
Exits == Process!Exits

(* Of the failures it copes with, a saga leaves everything or nothing, and it is decided
   in the end. *)
SagaCopes ==
  /\ [](part = "saga" => Saga!AllOrNothing)
  /\ (part = "saga") ~> (outcome # "open")
==============================================================================
