-------------------------------- MODULE Payment --------------------------------
(***************************************************************************)
(* The payment service: CreatePayment, ConfirmPaymentSuccess and           *)
(* ClosePayment, over the order service.                                   *)
(*                                                                         *)
(* The order service pays an order in two steps as well: it sees the order *)
(* reserved, and it writes the bill whatever the order holds by then.  It  *)
(* does what module OrderBook promises while an order has one bill, and a  *)
(* cancellation or the sweep does not come between the two steps, which    *)
(* OrderService shows and this module takes over.  Whether confirmations   *)
(* of an order with different bills overlap there is BillsOverlap.         *)
(*                                                                         *)
(* Every RPC is a request handled by its own goroutine; req[r].pc is where *)
(* it stands, and anything may happen between two of its steps.  The call  *)
(* ConfirmOrderPaid of request r is call[r]: sent, and answered; a client  *)
(* that timed out leaves it running.  TransitionStatus is a transaction of *)
(* two steps: its SELECT takes no lock, its UPDATE repeats no condition.   *)
(*                                                                         *)
(* A payment carries active_order_id exactly while it is pending, and the  *)
(* column is unique.  The status "failed" of the code's table is reserved  *)
(* and never written.  The only payment method is mock.                    *)
(***************************************************************************)
EXTENDS Integers, FiniteSets

CONSTANTS
  Orders, Payments,
  Requests,        \* the RPCs received
  Req,             \* Req[r]: its kind, order, payment, action key and trade number
  Existing,        \* payments that are pending before the behaviour starts
  OrderOf,         \* OrderOf[p]: the order payment p is for
  Faults,          \* which failures may happen
  PaymentOverlap,  \* may two transitions of one payment overlap?
  BillsOverlap     \* may the order service be paying one order with two bills at a time?

Kinds == {"create", "confirm", "close"}
FaultKinds == {"rpc_timeout", "db_error", "lost_ack", "crash"}
NoPayment == "none"
NoTrade == "none"

Key(r) == <<Req[r].kind, Req[r].key>>
Keys == {Key(r) : r \in Requests}
Confirms == {r \in Requests : Req[r].kind = "confirm"}
Creates == {r \in Requests : Req[r].kind = "create"}

\* What a confirmation asks the order service to pay the order with.
Bill(r) == <<Req[r].payment, Req[r].trade>>
Bills == {Bill(r) : r \in Confirms}
NoBill == <<NoPayment, NoTrade>>

(* A create request carries the payment id the snowflake generator hands to it.  A
   key is sent again only with the same content. *)
ASSUME RequestsAssumption ==
  /\ \A r \in Requests :
       Req[r].kind \in Kinds /\ Req[r].payment \in Payments /\ Req[r].order \in Orders
  /\ \A r \in Creates : Req[r].payment \notin Existing /\ OrderOf[Req[r].payment] = Req[r].order
  /\ \A r, q \in Creates : Req[r].payment = Req[q].payment => r = q
  /\ \A r, q \in Creates : Key(r) = Key(q) => Req[r].order = Req[q].order
  /\ \A r, q \in Confirms : Key(r) = Key(q) => Bill(r) = Bill(q)

ASSUME PaymentsAssumption ==
  /\ IsFiniteSet(Payments) /\ Existing \subseteq Payments
  /\ \A p \in Payments : OrderOf[p] \in Orders
  /\ \A p, q \in Existing : OrderOf[p] = OrderOf[q] => p = q
  /\ Faults \subseteq FaultKinds
  /\ PaymentOverlap \in BOOLEAN /\ BillsOverlap \in BOOLEAN

VARIABLES
  pay,       \* pay[p]: the payments row of p, status "none" when there is none
  expired,   \* expired[p]: has expire_at passed?
  rec,       \* rec[k]: the payment_action_records row of key k
  events,    \* events[p]: how many payment_outbox rows p has
  req,       \* req[r]: where request r stands
  call,      \* call[r]: the ConfirmOrderPaid call of r
  order,     \* order[o]: the order, in the order service
  orderRec   \* orderRec[k]: the order service's record of the request_id in k

Book == INSTANCE OrderBook WITH book <- order

rows == <<pay, expired, events>>
orderVars == <<order, orderRec>>
vars == <<pay, expired, rec, events, req, call, order, orderRec>>

Settled == {"succeeded", "closed"}
OfOrder(o) == {p \in Payments : OrderOf[p] = o /\ pay[p].status # "none"}

------------------------------------------------------------------------------
(* Steps of a request. *)

At(r, pc) == req[r].pc = pc
Goto(r, pc) == req' = [req EXCEPT ![r].pc = pc]
Become(r, state) == req' = [req EXCEPT ![r] = state]
Answer(r, a) == Become(r, [req[r] EXCEPT !.pc = "done", !.answer = a])
AnswerWith(r, p) == Become(r, [req[r] EXCEPT !.pc = "done", !.answer = "ok", !.payment = p])

\* TransitionStatus is called, to write status st into payment p.
Transit(r, p, st) == Become(r, [req[r] EXCEPT !.pc = "select", !.payment = p, !.to = st])

\* Where the caller of TransitionStatus goes on: a creation scans on whatever it
\* returned, a confirmation that closes an expired payment fails whatever it returned.
After(r, ok) ==
  CASE Req[r].kind = "create"                            -> "scan"
    [] Req[r].kind = "confirm" /\ req[r].to = "closed"   -> "fail"
    [] OTHER                                             -> IF ok THEN "succeed" ELSE "fail"

Owned(r) == IF Req[r].kind = "create" THEN "list" ELSE "load"

Row(st, p) == [status |-> st, payment |-> p]
NoSnapshot == [p \in {} |-> "none"]

Init ==
  /\ pay = [p \in Payments |->
       [status |-> IF p \in Existing THEN "pending" ELSE "none", trade |-> NoTrade, at |-> 0]]
  /\ expired = [p \in Payments |-> FALSE]
  /\ rec = [k \in Keys |-> Row("none", NoPayment)]
  /\ events = [p \in Payments |-> 0]
  /\ req = [r \in Requests |->
       [pc |-> "start", answer |-> "none", payment |-> Req[r].payment, to |-> "none",
        todo |-> NoSnapshot]]
  /\ call = [r \in Requests |-> [state |-> "none", waiting |-> FALSE]]
  /\ order = [o \in Orders |-> [status |-> "reserved", payment |-> NoBill]]
  /\ orderRec = [k \in Keys |-> "none"]

------------------------------------------------------------------------------
(* Idempotency: findActionRecord, then createPendingActionRecord. *)

(* The first look at the key.  Only a create is refused for a failed record here. *)
Find(r) ==
  /\ At(r, "start")
  /\ LET k == rec[Key(r)] IN
     \/ k.status = "none" /\ Goto(r, "claim")
     \/ k.status = "succeeded" /\ AnswerWith(r, k.payment)
     \/ k.status = "pending" /\ Answer(r, "busy")
     \/ k.status = "failed" /\ Req[r].kind = "create" /\ Answer(r, "sealed")
     \/ k.status = "failed" /\ Req[r].kind # "create" /\ Goto(r, "claim")
  /\ UNCHANGED <<rows, rec, call, orderVars>>

(* The INSERT goes through, unless the request never learns of it. *)
Claim(r) ==
  /\ At(r, "claim")
  /\ rec[Key(r)].status = "none"
  /\ rec' = [rec EXCEPT ![Key(r)] =
               Row("pending", IF Req[r].kind = "create" THEN NoPayment ELSE Req[r].payment)]
  /\ \/ Goto(r, Owned(r))
     \/ "lost_ack" \in Faults /\ Answer(r, "error")
  /\ UNCHANGED <<rows, call, orderVars>>

(* The row is there already.  A pending one is handed back to the caller, who takes
   it for its own and goes on: from here two requests may own one key. *)
Reclaim(r) ==
  /\ At(r, "claim")
  /\ rec[Key(r)].status # "none"
  /\ LET k == rec[Key(r)] IN
     \/ k.status = "pending" /\ Goto(r, Owned(r))
     \/ k.status = "succeeded" /\ AnswerWith(r, k.payment)
     \/ k.status = "failed" /\ Req[r].kind = "confirm" /\ Goto(r, "load")
     \/ k.status = "failed" /\ Req[r].kind # "confirm" /\ Answer(r, "busy")
  /\ UNCHANGED <<rows, rec, call, orderVars>>

(* markActionSucceeded / markActionFailed write whatever the row holds by now; an
   error of theirs is only logged. *)
Mark(r) ==
  /\ \/ At(r, "succeed") /\ Answer(r, "ok")
     \/ At(r, "fail") /\ Answer(r, "error")
  /\ \/ rec' = [rec EXCEPT ![Key(r)] =
                  IF At(r, "succeed") THEN Row("succeeded", req[r].payment)
                  ELSE Row("failed", rec[Key(r)].payment)]
     \/ "db_error" \in Faults /\ UNCHANGED rec
  /\ UNCHANGED <<rows, call, orderVars>>

------------------------------------------------------------------------------
(* CreatePayment. *)

\* ListByOrderID: a snapshot; only pending and succeeded rows matter to the scan.
List(r) ==
  /\ At(r, "list")
  /\ LET found == {p \in OfOrder(Req[r].order) : pay[p].status \in {"pending", "succeeded"}} IN
     Become(r, [req[r] EXCEPT !.pc = "scan", !.todo = [p \in found |-> pay[p].status]])
  /\ UNCHANGED <<rows, rec, call, orderVars>>

\* ORDER BY created_at DESC.
Newest(p, todo) == \A q \in DOMAIN todo : pay[q].at <= pay[p].at

Scan(r) ==
  LET todo == req[r].todo IN
  /\ At(r, "scan")
  /\ \/ todo = NoSnapshot /\ Goto(r, "order")
     \/ \E p \in DOMAIN todo :
          /\ Newest(p, todo)
          /\ todo[p] = "succeeded" \/ ~expired[p]
          /\ Become(r, [req[r] EXCEPT !.pc = "succeed", !.payment = p, !.todo = NoSnapshot])
     \/ \E p \in DOMAIN todo :
          /\ Newest(p, todo)
          /\ todo[p] = "pending" /\ expired[p]
          /\ Become(r, [req[r] EXCEPT !.pc = "select", !.payment = p, !.to = "closed",
                                       !.todo = [q \in DOMAIN todo \ {p} |-> todo[q]]])
  /\ UNCHANGED <<rows, rec, call, orderVars>>

\* GetOrder and validateOrderForPayment; the order may also have expired.
CheckOrder(r) ==
  /\ At(r, "order")
  /\ \/ order[Req[r].order].status = "reserved" /\ Goto(r, "insert")
     \/ Goto(r, "fail")
  /\ UNCHANGED <<rows, rec, call, orderVars>>

Insert(r) ==
  LET p == Req[r].payment
      o == Req[r].order
  IN
  /\ At(r, "insert")
  /\ \A q \in OfOrder(o) : pay[q].status # "pending"
  /\ pay' = [pay EXCEPT ![p] = [status |-> "pending", trade |-> NoTrade,
                                at |-> 1 + Cardinality(OfOrder(o))]]
  /\ \/ Become(r, [req[r] EXCEPT !.pc = "succeed", !.payment = p])
     \/ "lost_ack" \in Faults /\ Goto(r, "fail")
  /\ UNCHANGED <<expired, events, rec, call, orderVars>>

\* uk_payments_active_order_id rejects the row: GetLatestActiveByOrderID is next.
InsertConflict(r) ==
  /\ At(r, "insert")
  /\ \E q \in OfOrder(Req[r].order) : pay[q].status = "pending"
  /\ Goto(r, "active")
  /\ UNCHANGED <<rows, rec, call, orderVars>>

Reuse(r) ==
  /\ At(r, "active")
  /\ LET active == {q \in OfOrder(Req[r].order) : pay[q].status = "pending"} IN
     \/ \E q \in active : Become(r, [req[r] EXCEPT !.pc = "succeed", !.payment = q])
     \/ active = {} /\ Goto(r, "fail")
  /\ UNCHANGED <<rows, rec, call, orderVars>>

------------------------------------------------------------------------------
(* ConfirmPaymentSuccess and ClosePayment. *)

LoadForConfirm(r) ==
  /\ At(r, "load") /\ Req[r].kind = "confirm"
  /\ LET p == Req[r].payment
         conflict == pay[p].trade # Req[r].trade
     IN
     \/ pay[p].status \in {"none", "closed"} /\ Goto(r, "fail") /\ UNCHANGED call
     \/ pay[p].status = "succeeded" /\ conflict /\ Goto(r, "fail") /\ UNCHANGED call
     \/ pay[p].status = "succeeded" /\ ~conflict /\ Goto(r, "succeed") /\ UNCHANGED call
     \/ pay[p].status = "pending" /\ expired[p] /\ Transit(r, p, "closed") /\ UNCHANGED call
     \/ /\ pay[p].status = "pending" /\ ~expired[p]
        /\ Goto(r, "await")
        /\ call' = [call EXCEPT ![r] = [state |-> "sent", waiting |-> TRUE]]
  /\ UNCHANGED <<rows, rec, orderVars>>

\* Mutant: the code of the answer is not looked at.
AnsweredUnchecked(r) ==
  /\ At(r, "await")
  /\ call[r].state \in {"ok", "failed"}
  /\ Transit(r, Req[r].payment, "succeeded")
  /\ UNCHANGED <<rows, rec, call, orderVars>>

\* Mutant: the payment is not moved on once its order is.
AnsweredWithoutTransition(r) ==
  /\ At(r, "await")
  /\ \/ call[r].state = "ok" /\ Goto(r, "succeed")
     \/ call[r].state = "failed" /\ Goto(r, "fail")
  /\ UNCHANGED <<rows, rec, call, orderVars>>

Answered(r) ==
  /\ At(r, "await")
  /\ \/ call[r].state = "ok" /\ Transit(r, Req[r].payment, "succeeded")
     \/ call[r].state = "failed" /\ Goto(r, "fail")
  /\ UNCHANGED <<rows, rec, call, orderVars>>

\* Mutant: a call that timed out is taken for done.
TimedOutAsDone(r) ==
  /\ "rpc_timeout" \in Faults
  /\ At(r, "await")
  /\ Transit(r, Req[r].payment, "succeeded")
  /\ call' = [call EXCEPT ![r].waiting = FALSE]
  /\ UNCHANGED <<rows, rec, orderVars>>

(* The RPC timeout fires first; the call goes on, or its answer is lost. *)
TimedOut(r) ==
  /\ "rpc_timeout" \in Faults
  /\ At(r, "await")
  /\ Goto(r, "fail")
  /\ call' = [call EXCEPT ![r].waiting = FALSE]
  /\ UNCHANGED <<rows, rec, orderVars>>

\* Mutant: every settled payment counts as closed already.
LoadForCloseSettled(r) ==
  /\ At(r, "load") /\ Req[r].kind = "close"
  /\ LET p == Req[r].payment IN
     \/ pay[p].status = "none" /\ Goto(r, "fail")
     \/ pay[p].status \in Settled /\ Goto(r, "succeed")
     \/ pay[p].status = "pending" /\ Transit(r, p, "closed")
  /\ UNCHANGED <<rows, rec, call, orderVars>>

LoadForClose(r) ==
  /\ At(r, "load") /\ Req[r].kind = "close"
  /\ LET p == Req[r].payment IN
     \/ pay[p].status \in {"none", "succeeded"} /\ Goto(r, "fail")
     \/ pay[p].status = "closed" /\ Goto(r, "succeed")
     \/ pay[p].status = "pending" /\ Transit(r, p, "closed")
  /\ UNCHANGED <<rows, rec, call, orderVars>>

------------------------------------------------------------------------------
(* TransitionStatus. *)

InTransition(p) == \E q \in Requests : At(q, "update") /\ req[q].payment = p

\* Mutant: FromStatuses is not part of the condition.
SelectAny(r) ==
  /\ At(r, "select")
  /\ PaymentOverlap \/ ~InTransition(req[r].payment)
  /\ Goto(r, "update")
  /\ UNCHANGED <<rows, rec, call, orderVars>>

\* SELECT ... WHERE payment_id = ? AND status IN (pending).
Select(r) ==
  /\ At(r, "select")
  /\ PaymentOverlap \/ ~InTransition(req[r].payment)
  /\ Goto(r, IF pay[req[r].payment].status = "pending" THEN "update" ELSE After(r, FALSE))
  /\ UNCHANGED <<rows, rec, call, orderVars>>

\* Mutant: the outbox row is a transaction of its own, which may be lost.
UpdateThenOutbox(r) ==
  LET p == req[r].payment IN
  /\ At(r, "update")
  /\ \/ /\ req[r].to = "succeeded"
        /\ pay' = [pay EXCEPT ![p] = [pay[p] EXCEPT !.status = "succeeded", !.trade = Req[r].trade]]
        /\ events' \in {events, [events EXCEPT ![p] = @ + 1]}
     \/ /\ req[r].to = "closed"
        /\ pay' = [pay EXCEPT ![p].status = "closed"]
        /\ UNCHANGED events
  /\ Goto(r, After(r, TRUE))
  /\ UNCHANGED <<expired, rec, call, orderVars>>

(* UPDATE ... WHERE payment_id = ?, the outbox row of a success, the commit. *)
Update(r) ==
  LET p == req[r].payment IN
  /\ At(r, "update")
  /\ \/ /\ req[r].to = "succeeded"
        /\ pay' = [pay EXCEPT ![p] = [pay[p] EXCEPT !.status = "succeeded", !.trade = Req[r].trade]]
        /\ events' = [events EXCEPT ![p] = @ + 1]
     \/ /\ req[r].to = "closed"
        /\ pay' = [pay EXCEPT ![p].status = "closed"]
        /\ UNCHANGED events
  /\ \/ Goto(r, After(r, TRUE))
     \/ "lost_ack" \in Faults /\ Goto(r, After(r, FALSE))
  /\ UNCHANGED <<expired, rec, call, orderVars>>

------------------------------------------------------------------------------
(* Failures and the clock. *)

(* A query, or a transaction before its commit, returns an error.  Only the first
   look and the first INSERT return without a mark. *)
DbError(r) ==
  /\ "db_error" \in Faults
  /\ \/ req[r].pc \in {"start", "claim"} /\ Answer(r, "error")
     \/ req[r].pc \in {"list", "load", "insert", "active"} /\ Goto(r, "fail")
     \/ req[r].pc \in {"select", "update"} /\ Goto(r, After(r, FALSE))
  /\ UNCHANGED <<rows, rec, call, orderVars>>

Crash(r) ==
  /\ "crash" \in Faults
  /\ req[r].pc \notin {"done", "dead"}
  /\ Goto(r, "dead")
  /\ UNCHANGED <<rows, rec, call, orderVars>>

Expire(p) ==
  /\ pay[p].status # "none" /\ ~expired[p]
  /\ expired' = [expired EXCEPT ![p] = TRUE]
  /\ UNCHANGED <<pay, events, rec, req, call, orderVars>>

------------------------------------------------------------------------------
(* The order service's side of call r, behind the record it keeps of the request_id. *)

OrderOfCall(r) == OrderOf[Req[r].payment]
Paying(r, o) == call[r].state = "update" /\ OrderOfCall(r) = o

OrderAnswers(r, status, st) ==
  /\ orderRec' = [orderRec EXCEPT ![Key(r)] = status]
  /\ call' = [call EXCEPT ![r].state = st]

OrderClaims(r) ==
  /\ call[r].state = "sent"
  /\ \/ orderRec[Key(r)] = "none" /\ OrderAnswers(r, "pending", "open")
     \/ orderRec[Key(r)] = "succeeded" /\ OrderAnswers(r, "succeeded", "ok")
     \/ orderRec[Key(r)] \in {"pending", "failed"} /\ OrderAnswers(r, orderRec[Key(r)], "failed")
     \/ "db_error" \in Faults /\ OrderAnswers(r, orderRec[Key(r)], "failed")
  /\ UNCHANGED <<rows, rec, req, order>>

(* The order is found reserved, by GetByID and by the SELECT of TransitionStatus, and its
   stock is deducted. *)
OrderChecks(r) ==
  LET o == OrderOfCall(r) IN
  /\ call[r].state = "open"
  /\ order[o].status = "reserved"
  /\ BillsOverlap \/ \A q \in Requests : Paying(q, o) => Bill(q) = Bill(r)
  /\ call' = [call EXCEPT ![r].state = "update"]
  /\ UNCHANGED <<rows, rec, req, orderVars>>

(* The order is paid by this bill already, or UPDATE ... WHERE order_id = ? writes it, over
   another one too. *)
OrderConfirms(r) ==
  LET o == OrderOfCall(r)
      paid == [status |-> "paid", payment |-> Bill(r)]
  IN
  /\ \/ call[r].state = "open" /\ order[o] = paid /\ UNCHANGED order
     \/ call[r].state = "update" /\ order' = [order EXCEPT ![o] = paid]
  /\ \/ OrderAnswers(r, "succeeded", "ok")
     \/ "db_error" \in Faults /\ OrderAnswers(r, "pending", "ok")
     \/ "lost_ack" \in Faults /\ OrderAnswers(r, "failed", "failed")
     \/ "crash" \in Faults /\ OrderAnswers(r, "pending", "failed")
  /\ UNCHANGED <<rows, rec, req>>

(* The order is not reserved, is paid by another, has expired or lost its stock; the
   transition fails; or the order service dies or cannot mark its record, which stays
   pending. *)
OrderRefuses(r) ==
  /\ call[r].state \in {"open", "update"}
  /\ \/ call[r].state = "open" /\ OrderAnswers(r, "failed", "failed")
     \/ "db_error" \in Faults /\ OrderAnswers(r, "failed", "failed")
     \/ Faults \cap {"db_error", "crash"} # {} /\ OrderAnswers(r, "pending", "failed")
  /\ UNCHANGED <<rows, rec, req, order>>

OrderEnds(o) ==
  /\ \A r \in Requests : ~Paying(r, o)
  /\ Book!End(o)
  /\ UNCHANGED <<rows, rec, req, call, orderRec>>

------------------------------------------------------------------------------
RequestStep(r) ==
  \/ Find(r) \/ Claim(r) \/ Reclaim(r) \/ Mark(r)
  \/ List(r) \/ Scan(r) \/ CheckOrder(r) \/ Insert(r) \/ InsertConflict(r) \/ Reuse(r)
  \/ LoadForConfirm(r) \/ Answered(r) \/ TimedOut(r) \/ LoadForClose(r)
  \/ Select(r) \/ Update(r)
  \/ DbError(r)

OrderStep(r) == OrderClaims(r) \/ OrderChecks(r) \/ OrderConfirms(r) \/ OrderRefuses(r)

Next ==
  \/ \E r \in Requests : RequestStep(r)
  \/ \E r \in Requests : Crash(r)
  \/ \E p \in Payments : Expire(p)
  \/ \E r \in Requests : OrderStep(r)
  \/ \E o \in Orders : OrderEnds(o)

Spec == Init /\ [][Next]_vars

(* Goroutines are scheduled, every query and RPC has a timeout, and the order
   service answers. *)
FairSpec ==
  /\ Spec
  /\ \A r \in Requests : WF_vars(RequestStep(r)) /\ WF_vars(OrderStep(r))

------------------------------------------------------------------------------
(* Properties. *)

PaymentRow == [status : {"none", "pending"} \cup Settled,
               trade : {NoTrade} \cup {Req[r].trade : r \in Confirms}, at : Nat]

RecordRow == [status : {"none", "pending", "succeeded", "failed"},
              payment : Payments \cup {NoPayment}]

Snapshots == UNION {[S -> {"pending", "succeeded"}] : S \in SUBSET Payments}

RequestState ==
  [pc : {"start", "claim", "list", "scan", "order", "insert", "active", "load", "await",
         "select", "update", "succeed", "fail", "done", "dead"},
   answer : {"none", "ok", "busy", "sealed", "error"},
   payment : Payments, to : {"none"} \cup Settled, todo : Snapshots]

CallState == [state : {"none", "sent", "open", "update", "ok", "failed"}, waiting : BOOLEAN]

\* The type of every variable.
TypeOK ==
  /\ pay \in [Payments -> PaymentRow]
  /\ expired \in [Payments -> BOOLEAN]
  /\ rec \in [Keys -> RecordRow]
  /\ events \in [Payments -> Nat]
  /\ req \in [Requests -> RequestState]
  /\ call \in [Requests -> CallState]
  /\ order \in [Orders -> Book!Entry]
  /\ orderRec \in [Keys -> {"none", "pending", "succeeded", "failed"}]

(* Why no confirmation writes its bill over another one: those with different bills do not
   overlap in the order service, or there is one bill for an order. *)
OneBill ==
  \A r, q \in Confirms : OrderOfCall(r) = OrderOfCall(q) => Bill(r) = Bill(q)

NoOverwrite == BillsOverlap => OneBill

PaidBy(p, t) == order[OrderOf[p]] = [status |-> "paid", payment |-> <<p, t>>]

(* A payment that succeeded has its order paid, by this payment and under its trade
   number, whatever else overlaps, fails or is tried again; so of the payments of an order
   at most one ever succeeds.  NoOverwrite must hold for it. *)
SucceededIsPaid ==
  \A p \in Payments : pay[p].status = "succeeded" => PaidBy(p, pay[p].trade)

(* A success that was answered stays true: the payment a creation returned is one of
   its order, a confirmed payment is succeeded, a closed one is closed, whatever
   other requests, retries and failures come after.  Transitions of one payment must
   not overlap for it. *)
AnswersHold ==
  \A r \in Requests : req[r].answer = "ok" =>
    LET p == req[r].payment IN
    CASE Req[r].kind = "create"  -> pay[p].status # "none" /\ OrderOf[p] = Req[r].order
      [] Req[r].kind = "confirm" -> p = Req[r].payment /\ pay[p].status = "succeeded"
      [] Req[r].kind = "close"   -> pay[p].status = "closed"

(* The payment.succeeded event is written once for a payment that succeeds and never
   for another one.  Transitions of one payment must not overlap for it. *)
OneEvent ==
  \A p \in Payments : events[p] = IF pay[p].status = "succeeded" THEN 1 ELSE 0

(* succeeded -> closed, closed -> succeeded and a second trade number never happen.
   Transitions of one payment must not overlap for it. *)
FinalStatus ==
  [][\A p \in Payments : pay[p].status \in Settled => pay'[p] = pay[p]]_vars

AtRest ==
  /\ \A r \in Requests : req[r].pc \in {"done", "dead"}
  /\ \A r \in Requests : call[r].state \notin {"sent", "open", "update"}

(* When everything has come to rest, an order paid by a payment that did not succeed
   is the trace of a confirmation that died, stopped waiting for the order service, was
   told it had failed or lost its own transaction to the database, or of a payment that
   was closed under it; no other history leaves the two apart. *)
UnsettledExplained ==
  AtRest => \A p \in Payments, t \in {Req[r].trade : r \in Confirms} :
    PaidBy(p, t) /\ pay[p].status # "succeeded" =>
      \/ pay[p].status = "closed"
      \/ \E r \in Confirms :
           /\ Bill(r) = <<p, t>>
           /\ \/ req[r].pc = "dead"
              \/ call[r].state # "none" /\ ~call[r].waiting
              \/ call[r].state = "failed"
              \/ /\ "db_error" \in Faults
                 /\ call[r].state = "ok" /\ req[r].answer = "error"

(* The payment and its order are in step, in both directions: a success is backed by the
   order, and an order paid by a payment that did not succeed has one of the histories
   above. *)
InStep == SucceededIsPaid /\ UnsettledExplained

(* No action record stays pending for ever, as long as no process dies and the
   database answers: every path of a request that owns a key marks it. *)
RecordsResolve ==
  \A k \in Keys : rec[k].status = "pending" ~> rec[k].status \in {"succeeded", "failed"}

(* Documented: a payment that succeeded is never closed.
   The code does not keep it (README, section 3). *)
SucceededNotClosed ==
  [][\A p \in Payments : pay[p].status = "succeeded" => pay'[p].status # "closed"]_vars

(* Documented: an order never has two payments that are pending or succeeded.
   The code does not keep it (README, section 3). *)
OneEffectivePayment ==
  \A p, q \in Payments :
    /\ OrderOf[p] = OrderOf[q]
    /\ pay[p].status \in {"pending", "succeeded"}
    /\ pay[q].status \in {"pending", "succeeded"}
    => p = q
==============================================================================
