----------------------------- MODULE OrderService -----------------------------
(***************************************************************************)
(* The order service: CreateOrder, CancelOrder, ConfirmOrderPaid and       *)
(* CloseExpiredOrders, over the inventory service of module Inventory.     *)
(*                                                                         *)
(* Every RPC the order service receives is a request, handled by its own   *)
(* goroutine: req[r].pc is where that goroutine stands.  Between two of    *)
(* its steps any other request, any inventory transaction and any failure  *)
(* named in Faults may happen.  A request never holds a lock or an open    *)
(* database transaction across two calls.  The inventory call of request r *)
(* for order o is the pair <<r, o>>: it is sent, opened by the inventory   *)
(* service as a transaction, and answered; a client that timed out leaves  *)
(* it running.  TransitionStatus is a transaction of two steps, because    *)
(* its SELECT takes no lock and its UPDATE does not repeat the condition.  *)
(*                                                                         *)
(* OrderStatusPending is in the code's tables but is never written.        *)
(***************************************************************************)
EXTENDS Integers, FiniteSets

CONSTANTS
  Skus, Orders,
  Requests,         \* the RPCs received
  Req,              \* Req[r]: its kind, order, action key and payment id
  Basket,           \* Basket[o]: the items of order o
  Stock,            \* Stock[s]: total_stock of SKU s at the start
  Existing,         \* orders placed, and reserved, before the behaviour starts
  Faults,           \* which failures may happen
  SameOrderOverlap  \* may two inventory transactions of an order overlap?

Kinds == {"create", "cancel", "pay", "close"}
FaultKinds == {"rpc_timeout", "inventory_error", "db_error", "lost_ack", "crash"}
NoPayment == "none"

Keyed == {r \in Requests : Req[r].kind # "close"}
Key(r) == <<Req[r].kind, Req[r].key>>
Keys == {Key(r) : r \in Keyed}
Calls == Requests \X Orders

(* Order ids come from a snowflake generator: two creates never share one. *)
ASSUME RequestsAssumption ==
  /\ \A r \in Requests : Req[r].kind \in Kinds
  /\ \A r \in Keyed : Req[r].order \in Orders
  /\ \A r, q \in Keyed :
       Req[r].kind = "create" /\ Req[q].kind = "create" /\ Req[r].order = Req[q].order => r = q
  /\ \A r \in Keyed : Req[r].kind = "create" => Req[r].order \notin Existing

ASSUME OrdersAssumption ==
  /\ \A o \in Orders :
       /\ DOMAIN Basket[o] \subseteq Skus
       /\ DOMAIN Basket[o] # {}
       /\ Basket[o] \in [DOMAIN Basket[o] -> Nat \ {0}]
  /\ Existing \subseteq Orders
  /\ IsFiniteSet(Existing)
  /\ Stock \in [Skus -> Nat]
  /\ Faults \subseteq FaultKinds
  /\ SameOrderOverlap \in BOOLEAN

VARIABLES
  order,    \* order[o]: the orders row of o, status "none" when there is none
  expired,  \* expired[o]: has expire_at passed?
  rec,      \* rec[k]: the order_action_records row of key k
  req,      \* req[r]: where request r stands
  call,     \* call[c]: the state of inventory call c
  rowStatus, total, reserved, available, resv, tx

Inv == INSTANCE Inventory WITH
         Workers <- Calls, Baskets <- [o \in Orders |-> {Basket[o]}],
         MaxTotal <- 0, AdjustOverlap <- FALSE

stockVars == <<rowStatus, total, reserved, available, resv, tx>>
vars == <<order, expired, rec, req, call, rowStatus, total, reserved, available, resv, tx>>

Open == {"reserved"}            \* FromStatuses (pending never occurs)
Ended == {"cancelled", "closed"}

------------------------------------------------------------------------------
(* Steps of a request.  Each leaves the variables it does not name to its action. *)

At(r, pc) == req[r].pc = pc
Goto(r, pc) == req' = [req EXCEPT ![r].pc = pc]
Answer(r, a) == req' = [req EXCEPT ![r].pc = "done", ![r].answer = a]

\* Where a request goes when an inventory or database call returned an error.
OnError(r) == IF Req[r].kind = "close" THEN "next" ELSE "fail"

\* ReserveSkuStocks, ReleaseReservedSkuStocks or ConfirmDeductReservedSkuStocks is sent.
Send(r, o, op) == call' = [call EXCEPT ![<<r, o>>] = [op |-> op, state |-> "sent", waiting |-> TRUE]]

Row(st, o) == [status |-> st, order |-> o]
NoOrder == "none"

Init ==
  /\ order = [o \in Orders |->
       [status |-> IF o \in Existing THEN "reserved" ELSE "none", payment |-> NoPayment]]
  /\ expired = [o \in Orders |-> FALSE]
  /\ rec = [k \in Keys |-> Row("none", NoOrder)]
  /\ req = [r \in Requests |->
       [pc |-> "start", answer |-> "none", todo |-> {},
        order |-> IF r \in Keyed THEN Req[r].order ELSE NoOrder]]
  /\ call = [c \in Calls |-> [op |-> "none", state |-> "none", waiting |-> FALSE]]
  /\ rowStatus = [s \in Skus |-> "active"]
  /\ resv = [o \in Orders |-> [s \in Skus |->
       IF o \in Existing /\ s \in DOMAIN Basket[o]
       THEN [status |-> "reserved", qty |-> Basket[o][s]] ELSE Inv!NoRow]]
  /\ total = Stock
  /\ reserved = [s \in Skus |-> Cardinality(Inv!HeldUnits(s))]
  /\ available = [s \in Skus |-> Stock[s] - reserved[s]]
  /\ \A s \in Skus : available[s] >= 0
  /\ tx = [c \in Calls |-> Inv!Idle]

------------------------------------------------------------------------------
(* Idempotency: resolvePendingActionRecord. *)

\* Mutant: a key whose first attempt failed may be claimed again.
ClaimFailedToo(r) ==
  /\ At(r, "start") /\ r \in Keyed
  /\ rec[Key(r)].status \in {"none", "failed"}
  /\ rec' = [rec EXCEPT ![Key(r)] =
               Row("pending", IF Req[r].kind = "create" THEN NoOrder ELSE Req[r].order)]
  /\ Goto(r, IF Req[r].kind = "create" THEN "validate" ELSE "load")
  /\ UNCHANGED <<order, expired, call, stockVars>>

(* The INSERT goes through and this request owns the key, unless it never learns. *)
Claim(r) ==
  /\ At(r, "start") /\ r \in Keyed
  /\ rec[Key(r)].status = "none"
  /\ rec' = [rec EXCEPT ![Key(r)] =
               Row("pending", IF Req[r].kind = "create" THEN NoOrder ELSE Req[r].order)]
  /\ \/ Goto(r, IF Req[r].kind = "create" THEN "validate" ELSE "load")
     \/ "lost_ack" \in Faults /\ Answer(r, "error")
  /\ UNCHANGED <<order, expired, call, stockVars>>

\* Mutant: a pending record is answered like a succeeded one.
ReplayPendingAsOk(r) ==
  /\ At(r, "start") /\ r \in Keyed
  /\ \/ rec[Key(r)].status \in {"pending", "succeeded"} /\ Answer(r, "ok")
     \/ rec[Key(r)].status = "failed" /\ Answer(r, "sealed")
  /\ UNCHANGED <<order, expired, rec, call, stockVars>>

(* The key exists: succeeded answers with the order the record names
   (loadOrderByActionRecord), pending is busy, failed is refused for good. *)
Replay(r) ==
  /\ At(r, "start") /\ r \in Keyed
  /\ rec[Key(r)].status # "none"
  /\ \/ /\ rec[Key(r)].status = "succeeded"
        /\ req' = [req EXCEPT ![r].pc = "done", ![r].answer = "ok",
                              ![r].order = rec[Key(r)].order]
     \/ rec[Key(r)].status = "pending" /\ Answer(r, "busy")
     \/ rec[Key(r)].status = "failed" /\ Answer(r, "sealed")
  /\ UNCHANGED <<order, expired, rec, call, stockVars>>

(* markActionSucceeded / markActionFailed; an error of theirs is only logged. *)
Mark(r) ==
  /\ \/ At(r, "succeed") /\ Answer(r, "ok")
     \/ At(r, "fail") /\ Answer(r, "error")
  /\ \/ rec' = [rec EXCEPT ![Key(r)] =
                  IF At(r, "succeed") THEN Row("succeeded", req[r].order)
                  ELSE Row("failed", rec[Key(r)].order)]
     \/ "db_error" \in Faults /\ UNCHANGED rec
  /\ UNCHANGED <<order, expired, call, stockVars>>

------------------------------------------------------------------------------
(* Reading the order and calling the inventory service. *)

\* validateAndBuildSnapshots, then ReserveSkuStocks.
Validate(r) ==
  /\ At(r, "validate")
  /\ \/ Goto(r, "fail") /\ UNCHANGED call
     \/ Goto(r, "await") /\ Send(r, req[r].order, "reserve")
  /\ UNCHANGED <<order, expired, rec, stockVars>>

\* Mutant: a paid order whose stock can be given back is cancelled after all.
LoadForCancelPaid(r) ==
  /\ At(r, "load") /\ Req[r].kind = "cancel"
  /\ LET o == req[r].order IN
     \/ order[o].status \in Ended /\ Goto(r, "succeed") /\ UNCHANGED call
     \/ order[o].status = "none" /\ Goto(r, "fail") /\ UNCHANGED call
     \/ order[o].status \in Open /\ Goto(r, "await") /\ Send(r, o, "release")
     \/ order[o].status = "paid" /\ Goto(r, "update") /\ UNCHANGED call
  /\ UNCHANGED <<order, expired, rec, stockVars>>

LoadForCancel(r) ==
  /\ At(r, "load") /\ Req[r].kind = "cancel"
  /\ LET o == req[r].order IN
     \/ order[o].status \in Ended /\ Goto(r, "succeed") /\ UNCHANGED call
     \/ order[o].status \in {"none", "paid"} /\ Goto(r, "fail") /\ UNCHANGED call
     \/ order[o].status \in Open /\ Goto(r, "await") /\ Send(r, o, "release")
  /\ UNCHANGED <<order, expired, rec, stockVars>>

\* Mutant: the refusal of an expired order returns without a mark.
LoadForPayUnmarked(r) ==
  /\ At(r, "load") /\ Req[r].kind = "pay"
  /\ LET o == req[r].order IN
     \/ order[o].status # "reserved" /\ Goto(r, "fail") /\ UNCHANGED call
     \/ order[o].status \in Open /\ expired[o] /\ Answer(r, "error") /\ UNCHANGED call
     \/ order[o].status \in Open /\ ~expired[o] /\ Goto(r, "await") /\ Send(r, o, "confirm")
  /\ UNCHANGED <<order, expired, rec, stockVars>>

LoadForPay(r) ==
  /\ At(r, "load") /\ Req[r].kind = "pay"
  /\ LET o == req[r].order
         samePayment == order[o].payment = Req[r].payment
     IN
     \/ order[o].status = "paid" /\ samePayment /\ Goto(r, "succeed") /\ UNCHANGED call
     \/ order[o].status = "paid" /\ ~samePayment /\ Goto(r, "fail") /\ UNCHANGED call
     \/ order[o].status \in Ended \cup {"none"} /\ Goto(r, "fail") /\ UNCHANGED call
     \/ order[o].status \in Open /\ expired[o] /\ Goto(r, "fail") /\ UNCHANGED call
     \/ order[o].status \in Open /\ ~expired[o] /\ Goto(r, "await") /\ Send(r, o, "confirm")
  /\ UNCHANGED <<order, expired, rec, stockVars>>

\* ListExpiredOrders: the orders are closed one after the other from this list.
ListExpired(r) ==
  /\ At(r, "start") /\ Req[r].kind = "close"
  /\ req' = [req EXCEPT ![r].pc = "next",
                        ![r].todo = {o \in Orders : order[o].status \in Open /\ expired[o]}]
  /\ UNCHANGED <<order, expired, rec, call, stockVars>>

CloseNext(r) ==
  /\ At(r, "next")
  /\ \/ \E o \in req[r].todo :
          /\ req' = [req EXCEPT ![r].pc = "await", ![r].order = o, ![r].todo = @ \ {o}]
          /\ Send(r, o, "release")
     \/ req[r].todo = {} /\ Answer(r, "ok") /\ UNCHANGED call
  /\ UNCHANGED <<order, expired, rec, stockVars>>

\* What a call is answered: "lost" is an error although the transaction committed.
Answers == {"ok", "failed", "lost"}

\* Mutant: the code of the answer is not looked at.
AnsweredUnchecked(r) ==
  LET c == <<r, req[r].order>> IN
  /\ At(r, "await")
  /\ call[c].state \in Answers
  /\ Goto(r, IF Req[r].kind # "create" THEN "select"
             ELSE IF call[c].op = "release" THEN "fail" ELSE "persist")
  /\ UNCHANGED <<order, expired, rec, call, stockVars>>

(* The call answers.  A create whose reservation is answered with an error fails without
   a release; whatever a compensating release answers, it fails too. *)
Answered(r) ==
  LET c == <<r, req[r].order>> IN
  /\ At(r, "await")
  /\ call[c].state \in Answers
  /\ Goto(r, IF call[c].state # "ok" THEN OnError(r)
             ELSE IF Req[r].kind # "create" THEN "select"
             ELSE IF call[c].op = "release" THEN "fail" ELSE "persist")
  /\ UNCHANGED <<order, expired, rec, call, stockVars>>

\* Mutant: a call that timed out is taken for done.
TimedOutAsDone(r) ==
  /\ "rpc_timeout" \in Faults
  /\ At(r, "await")
  /\ Goto(r, IF Req[r].kind = "create" THEN "fail" ELSE "select")
  /\ call' = [call EXCEPT ![<<r, req[r].order>>].waiting = FALSE]
  /\ UNCHANGED <<order, expired, rec, stockVars>>

(* The RPC timeout fires first; the call goes on, or its answer is lost. *)
TimedOut(r) ==
  /\ "rpc_timeout" \in Faults
  /\ At(r, "await")
  /\ Goto(r, OnError(r))
  /\ call' = [call EXCEPT ![<<r, req[r].order>>].waiting = FALSE]
  /\ UNCHANGED <<order, expired, rec, stockVars>>

------------------------------------------------------------------------------
(* Writing the order. *)

\* Mutant: no compensation when the order cannot be stored.
PersistUncompensated(r) ==
  LET o == req[r].order IN
  /\ At(r, "persist")
  /\ \/ /\ order' = [order EXCEPT ![o].status = "reserved"]
        /\ Goto(r, "succeed")
     \/ "db_error" \in Faults /\ UNCHANGED order /\ Goto(r, "fail")
  /\ UNCHANGED <<expired, rec, call, stockVars>>

\* CreateWithItems; when it returns an error the reservation is released.
Persist(r) ==
  LET o == req[r].order IN
  /\ At(r, "persist")
  /\ \/ /\ order' = [order EXCEPT ![o].status = "reserved"]
        /\ Goto(r, "succeed") /\ UNCHANGED call
     \/ /\ "db_error" \in Faults /\ UNCHANGED order
        /\ Goto(r, "await") /\ Send(r, o, "release")
     \/ /\ "lost_ack" \in Faults
        /\ order' = [order EXCEPT ![o].status = "reserved"]
        /\ Goto(r, "await") /\ Send(r, o, "release")
  /\ UNCHANGED <<expired, rec, stockVars>>

\* TransitionStatus, the SELECT ... WHERE status IN FromStatuses.
Select(r) ==
  /\ At(r, "select")
  /\ Goto(r, IF order[req[r].order].status \in Open THEN "update"
             ELSE IF Req[r].kind = "cancel" THEN "reload" ELSE OnError(r))
  /\ UNCHANGED <<order, expired, rec, call, stockVars>>

\* The columns TransitionStatus writes, by the kind of request.
Transition(r) ==
  CASE Req[r].kind = "pay"    -> [status |-> "paid", payment |-> Req[r].payment]
    [] Req[r].kind = "cancel" -> [order[req[r].order] EXCEPT !.status = "cancelled"]
    [] OTHER                  -> [order[req[r].order] EXCEPT !.status = "closed"]

\* TransitionStatus, the UPDATE ... WHERE order_id = ? and the commit.
Update(r) ==
  /\ At(r, "update")
  /\ order' = [order EXCEPT ![req[r].order] = Transition(r)]
  /\ \/ Goto(r, IF Req[r].kind = "close" THEN "next" ELSE "succeed")
     \/ "lost_ack" \in Faults /\ Goto(r, OnError(r))
  /\ UNCHANGED <<expired, rec, call, stockVars>>

\* CancelOrder lost the race: the status that won decides the answer.
Reload(r) ==
  /\ At(r, "reload")
  /\ Goto(r, IF order[req[r].order].status \in Ended THEN "succeed" ELSE "fail")
  /\ UNCHANGED <<order, expired, rec, call, stockVars>>

------------------------------------------------------------------------------
(* Failures and the clock. *)

(* A read, or a transaction before its commit, returns an error.  Only the reload
   of CancelOrder, the first INSERT and the list return without a mark. *)
DbError(r) ==
  /\ "db_error" \in Faults
  /\ \/ req[r].pc \in {"start", "reload"} /\ Answer(r, "error")
     \/ req[r].pc \in {"load", "select", "update"} /\ Goto(r, OnError(r))
  /\ UNCHANGED <<order, expired, rec, call, stockVars>>

\* The process dies: nothing resumes its requests.
Crash(r) ==
  /\ "crash" \in Faults
  /\ req[r].pc \notin {"done", "dead"}
  /\ Goto(r, "dead")
  /\ UNCHANGED <<order, expired, rec, call, stockVars>>

Expire(o) ==
  /\ order[o].status # "none" /\ ~expired[o]
  /\ expired' = [expired EXCEPT ![o] = TRUE]
  /\ UNCHANGED <<order, rec, req, call, stockVars>>

------------------------------------------------------------------------------
(* The inventory service's side of call c. *)

State(c, st) == call' = [call EXCEPT ![c].state = st]

Deliver(c) ==
  /\ call[c].state = "sent"
  /\ Inv!Begin(c, call[c].op, c[2], Basket[c[2]])
  /\ State(c, "open")
  /\ UNCHANGED <<order, expired, rec, req>>

(* The transaction commits, or refuses the items.  An error may be the answer after the
   commit as well: Reserve reads the stock again outside its transaction, and the answer of
   any COMMIT may be lost. *)
Serve(c) ==
  /\ call[c].state = "open"
  /\ \/ /\ Inv!Reserve(c) \/ Inv!Release(c) \/ Inv!ConfirmDeduct(c)
        /\ \/ State(c, "ok")
           \/ "inventory_error" \in Faults /\ State(c, "lost")
     \/ Inv!Reject(c) /\ State(c, "failed")
  /\ UNCHANGED <<order, expired, rec, req>>

\* The SKU guard times out, or the transaction is rolled back.
InventoryError(c) ==
  /\ "inventory_error" \in Faults
  /\ \/ call[c].state = "sent" /\ UNCHANGED stockVars
     \/ call[c].state = "open" /\ Inv!Abort(c)
  /\ State(c, "failed")
  /\ UNCHANGED <<order, expired, rec, req>>

------------------------------------------------------------------------------
RequestStep(r) ==
  \/ Claim(r) \/ Replay(r) \/ Mark(r)
  \/ Validate(r) \/ LoadForCancel(r) \/ LoadForPay(r) \/ ListExpired(r) \/ CloseNext(r)
  \/ Answered(r) \/ TimedOut(r)
  \/ Persist(r) \/ Select(r) \/ Update(r) \/ Reload(r)
  \/ DbError(r)

Next ==
  \/ \E r \in Requests : RequestStep(r)
  \/ \E r \in Requests : Crash(r)
  \/ \E o \in Orders : Expire(o)
  \/ \E c \in Calls : Deliver(c) \/ Serve(c) \/ InventoryError(c)

Spec == Init /\ [][Next]_vars

(* Goroutines are scheduled, every RPC and query has a timeout, and the inventory
   service works its requests off. *)
FairSpec ==
  /\ Spec
  /\ \A r \in Requests : WF_vars(RequestStep(r))
  /\ \A c \in Calls : WF_vars(Deliver(c)) /\ WF_vars(Serve(c))

------------------------------------------------------------------------------
(* Properties. *)

OrderRow == [status : {"none", "reserved", "paid"} \cup Ended,
             payment : {NoPayment} \cup {Req[r].payment : r \in Keyed}]

RecordRow == [status : {"none", "pending", "succeeded", "failed"},
              order : Orders \cup {NoOrder}]

RequestState ==
  [pc : {"start", "validate", "load", "await", "persist", "select", "update", "reload",
         "next", "succeed", "fail", "done", "dead"},
   answer : {"none", "ok", "busy", "sealed", "error"},
   todo : SUBSET Orders, order : Orders \cup {NoOrder}]

CallState == [op : {"none"} \cup Inv!OrderOps,
              state : {"none", "sent", "open"} \cup Answers, waiting : BOOLEAN]

\* The type of the variables of the order service, ...
OrderTypeOK ==
  /\ order \in [Orders -> OrderRow]
  /\ expired \in [Orders -> BOOLEAN]
  /\ rec \in [Keys -> RecordRow]
  /\ req \in [Requests -> RequestState]
  /\ call \in [Calls -> CallState]

\* ... and of all variables: each keeps its type.
TypeOK == OrderTypeOK /\ Inv!TypeOK

Rows(o) == {resv[o][s].status : s \in DOMAIN Basket[o]}

(* The order and its stock end the same way: all of a paid order's stock was
   deducted, all of a cancelled or closed order's stock was given back.  It holds,
   under every failure, when inventory transactions of one order do not overlap. *)
Settled ==
  \A o \in Orders :
    /\ order[o].status = "paid" => Rows(o) = {"confirmed"}
    /\ order[o].status \in Ended => Rows(o) = {"released"}

(* An order that is paid, cancelled or closed locks no stock any more, however the
   requests that settled it overlapped. *)
SettledHoldsNothing ==
  \A o \in Orders :
    order[o].status \in {"paid"} \cup Ended => Rows(o) \cap {"none", "reserved"} = {}

(* A success that was answered stays true: the order created exists, the order
   cancelled is cancelled or closed, the order paid is paid, whatever other requests,
   retries and failures come after.  No overlap within an order, as above. *)
AnswersHold ==
  \A r \in Keyed : req[r].answer = "ok" =>
    LET st == order[req[r].order].status IN
    CASE Req[r].kind = "create" -> st # "none"
      [] Req[r].kind = "cancel" -> st \in Ended
      [] Req[r].kind = "pay"    -> st = "paid"

(* paid -> cancelled, closed -> paid and cancelled -> paid never happen.  No overlap
   within an order, as above. *)
FinalStatus ==
  [][\A o \in Orders :
       /\ order[o].status = "paid" => order'[o].status = "paid"
       /\ order[o].status \in Ended => order'[o].status \in Ended]_vars

(* A create request that is sent again under its request_id, with the new order id
   the service generates for it, never has two orders take stock or exist. *)
OneOrderPerKey ==
  LET Used(o) == order[o].status # "none" \/ Rows(o) # {"none"} IN
  \A r, q \in Keyed :
    Req[r].kind = "create" /\ Req[q].kind = "create" /\ Key(r) = Key(q)
      => r = q \/ ~Used(Req[r].order) \/ ~Used(Req[q].order)

AtRest ==
  /\ \A r \in Requests : req[r].pc \in {"done", "dead"}
  /\ \A c \in Calls : call[c].state \notin {"sent", "open"}

(* When everything has come to rest, stock locked for an order that does not exist
   is the trace of a create that died, stopped waiting for an answer, was told of an
   error by a reservation that had committed, or had its compensating release refused; no
   other history leaves any. *)
OrphansExplained ==
  AtRest => \A o \in Orders :
    order[o].status = "none" /\ "reserved" \in Rows(o) =>
      \E r \in Keyed :
        /\ Req[r].kind = "create" /\ Req[r].order = o
        /\ \/ req[r].pc = "dead"
           \/ ~call[<<r, o>>].waiting
           \/ call[<<r, o>>].op = "reserve" /\ call[<<r, o>>].state = "lost"
           \/ call[<<r, o>>].op = "release" /\ call[<<r, o>>].state = "failed"

(* No action record stays pending for ever, as long as no process dies and the
   database answers: every path of a request that claimed its key marks it. *)
RecordsResolve ==
  \A k \in Keys : rec[k].status = "pending" ~> rec[k].status \in {"succeeded", "failed"}

Book == INSTANCE OrderBook WITH
          Bills <- {Req[r].payment : r \in {q \in Keyed : Req[q].kind = "pay"}},
          NoBill <- NoPayment,
          book <- [o \in Orders |->
                    [order[o] EXCEPT !.status = IF @ \in Ended THEN "ended" ELSE @]]

(* The service implements what it promises to the payment service: an order is placed,
   and then paid once or ended once, whatever fails.  It takes that transactions of
   one order do not overlap and that all its confirmations name one payment. *)
BookSpec == Book!Spec

(* Documented: a paid order is only ever confirmed again for the payment it has.
   The code does not keep it (README, section 3). *)
PayerFixed ==
  [][\A o \in Orders : order[o].status = "paid" => order'[o].payment = order[o].payment]_vars

(* Documented: a paid order cannot be cancelled. *)
PaidNotCancelled ==
  [][\A o \in Orders : order[o].status = "paid" => order'[o].status # "cancelled"]_vars

(* Documented: a failed confirmation may be tried again for the same payment. *)
RetriesAreTried ==
  \A r \in Requests : Req[r].kind = "pay" => req[r].answer # "sealed"
==============================================================================
