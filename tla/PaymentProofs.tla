----------------------------- MODULE PaymentProofs -----------------------------
(***************************************************************************)
(* Theorems about module Payment, for any number of requests, payments and *)
(* orders and under every failure.                                         *)
(***************************************************************************)
EXTENDS Payment, FiniteSetTheorems, TLAPS

(* SucceededIsPaid is not inductive: a payment is moved on because a call was answered,
   and a call is answered because the order was paid or because the order service's
   record says so.  Each of these facts outlives the steps of everybody else as long as an
   order that is paid stays as it is; for that, a call that has seen its order reserved
   must find it reserved still, or paid by its own bill, when it writes. *)

\* Only confirmations call the order service.
CallsOfConfirms == \A r \in Requests : call[r].state # "none" => Req[r].kind = "confirm"

PaidFor(r) == NoOverwrite => PaidBy(Req[r].payment, Req[r].trade)

\* A transition to succeeded runs for a confirmation whose order is paid.
Succeeding(r) == req[r].pc \in {"select", "update"} /\ req[r].to = "succeeded"
SucceedingIsPaid ==
  \A r \in Requests : Succeeding(r) =>
    Req[r].kind = "confirm" /\ req[r].payment = Req[r].payment /\ PaidFor(r)

AnsweredIsPaid == \A r \in Requests : call[r].state = "ok" => PaidFor(r)

RecordIsPaid == \A r \in Confirms : orderRec[Key(r)] = "succeeded" => PaidFor(r)

BackedByOrder == NoOverwrite => SucceededIsPaid

\* What a call finds that is about to write its bill, ...
UpdatingIsFree ==
  NoOverwrite => \A r \in Requests : call[r].state = "update" =>
    order[OrderOfCall(r)].status = "reserved" \/ PaidBy(Req[r].payment, Req[r].trade)

\* ... and calls that are about to write the same order write the same.
UpdatersAgree ==
  NoOverwrite => \A r, q \in Requests :
    Paying(r, OrderOfCall(q)) /\ Paying(q, OrderOfCall(q)) => Bill(r) = Bill(q)

\* A record that is marked as succeeded names a payment.
RecordNames == \A k \in Keys : rec[k].status = "succeeded" => rec[k].payment \in Payments

PaidInv ==
  /\ BackedByOrder
  /\ UpdatingIsFree
  /\ UpdatersAgree
  /\ CallsOfConfirms
  /\ SucceedingIsPaid
  /\ AnsweredIsPaid
  /\ RecordIsPaid
  /\ RecordNames

(* The inductive invariant behind PaymentsTyped and SucceededPaymentsArePaid. *)
PaymentInv == TypeOK /\ PaidInv

------------------------------------------------------------------------------

USE DEF Kinds

LEMMA KeysTyped == \A r \in Requests : Key(r) \in Keys
BY DEF Keys

\* Where a request goes when it changes its place alone, its type stays.
LEMMA MovesTyped ==
  ASSUME TypeOK, NEW r \in Requests,
         NEW pc \in {"start", "claim", "list", "scan", "order", "insert", "active", "load",
                     "await", "select", "update", "succeed", "fail", "done", "dead"},
         Goto(r, pc)
  PROVE  req' \in [Requests -> RequestState]
BY SMTT(30) DEF TypeOK, Goto, RequestState

LEMMA BecomesTyped ==
  ASSUME TypeOK, NEW r \in Requests, NEW state \in RequestState, Become(r, state)
  PROVE  req' \in [Requests -> RequestState]
BY DEF TypeOK, Become

LEMMA AnswersTyped ==
  ASSUME TypeOK, NEW r \in Requests, NEW a \in {"ok", "busy", "sealed", "error"}, Answer(r, a)
  PROVE  req' \in [Requests -> RequestState]
<1>1. [req[r] EXCEPT !.pc = "done", !.answer = a] \in RequestState
  BY DEF TypeOK, RequestState
<1> QED
  BY <1>1, BecomesTyped DEF Answer

LEMMA AnswersWithTyped ==
  ASSUME TypeOK, NEW r \in Requests, NEW p \in Payments, AnswerWith(r, p)
  PROVE  req' \in [Requests -> RequestState]
<1>1. [req[r] EXCEPT !.pc = "done", !.answer = "ok", !.payment = p] \in RequestState
  BY ZenonT(60) DEF TypeOK, RequestState
<1> QED
  BY <1>1, BecomesTyped DEF AnswerWith

LEMMA TransitsTyped ==
  ASSUME TypeOK, NEW r \in Requests, NEW p \in Payments, NEW st \in Settled, Transit(r, p, st)
  PROVE  req' \in [Requests -> RequestState]
<1>1. [req[r] EXCEPT !.pc = "select", !.payment = p, !.to = st] \in RequestState
  BY ZenonT(60) DEF TypeOK, RequestState, Settled
<1> QED
  BY <1>1, BecomesTyped DEF Transit

LEMMA ScansTyped ==
  ASSUME TypeOK, NEW r \in Requests, NEW p \in Payments, NEW todo \in Snapshots
  PROVE  /\ [req[r] EXCEPT !.pc = "succeed", !.payment = p, !.todo = todo] \in RequestState
         /\ [req[r] EXCEPT !.pc = "select", !.payment = p, !.to = "closed", !.todo = todo]
              \in RequestState
BY ZenonT(60) DEF TypeOK, RequestState, Settled

LEMMA InitInv == Init => PaymentInv
<1> SUFFICES ASSUME Init PROVE PaymentInv
  OBVIOUS
<1>1. NoSnapshot \in Snapshots
  BY DEF NoSnapshot, Snapshots
<1>2. TypeOK
  <2>1. req \in [Requests -> RequestState]
    BY <1>1, RequestsAssumption DEF Init, RequestState
  <2>2. pay \in [Payments -> PaymentRow]
    BY DEF Init, PaymentRow, Settled
  <2>3. rec \in [Keys -> RecordRow]
    BY DEF Init, RecordRow, Row
  <2>4. order \in [Orders -> Book!Entry]
    BY DEF Init, Book!Entry
  <2> QED
    BY <2>1, <2>2, <2>3, <2>4 DEF Init, TypeOK, CallState
<1>3. PaidInv
  BY KeysTyped DEF Init, PaidInv, SucceededIsPaid, CallsOfConfirms, SucceedingIsPaid, Succeeding,
     AnsweredIsPaid, RecordIsPaid, RecordNames, Row, Confirms, BackedByOrder, UpdatingIsFree,
     UpdatersAgree, Paying
<1> QED
  BY <1>2, <1>3 DEF PaymentInv

------------------------------------------------------------------------------
(* The type, action by action. *)

LEMMA TypeStep ==
  ASSUME PaymentInv, [Next]_vars
  PROVE  TypeOK'
<1> USE DEF PaymentInv
<1>1. ASSUME NEW r \in Requests, Find(r) PROVE TypeOK'
  <2>1. req' \in [Requests -> RequestState]
    BY <1>1, KeysTyped, MovesTyped, AnswersTyped, AnswersWithTyped
    DEF Find, PaidInv, RecordNames
  <2> QED
    BY <1>1, <2>1 DEF Find, TypeOK, rows, orderVars
<1>2. ASSUME NEW r \in Requests, Claim(r) PROVE TypeOK'
  <2>1. req' \in [Requests -> RequestState]
    BY <1>2, MovesTyped, AnswersTyped DEF Claim, Owned
  <2>2. rec' \in [Keys -> RecordRow]
    BY <1>2, KeysTyped, RequestsAssumption DEF Claim, TypeOK, RecordRow, Row
  <2> QED
    BY <1>2, <2>1, <2>2 DEF Claim, TypeOK, rows, orderVars
<1>3. ASSUME NEW r \in Requests, Reclaim(r) PROVE TypeOK'
  <2>1. req' \in [Requests -> RequestState]
    BY <1>3, KeysTyped, MovesTyped, AnswersTyped, AnswersWithTyped
    DEF Reclaim, Owned, PaidInv, RecordNames
  <2> QED
    BY <1>3, <2>1 DEF Reclaim, TypeOK, rows, orderVars
<1>4. ASSUME NEW r \in Requests, Mark(r) PROVE TypeOK'
  <2>1. req' \in [Requests -> RequestState]
    BY <1>4, AnswersTyped DEF Mark
  <2>2. rec' \in [Keys -> RecordRow]
    BY <1>4, KeysTyped DEF Mark, TypeOK, RecordRow, Row, RequestState
  <2> QED
    BY <1>4, <2>1, <2>2 DEF Mark, TypeOK, rows, orderVars
<1>5. ASSUME NEW r \in Requests, List(r) PROVE TypeOK'
  <2> DEFINE found == {p \in OfOrder(Req[r].order) : pay[p].status \in {"pending", "succeeded"}}
             todo == [p \in found |-> pay[p].status]
  <2>1. found \in SUBSET Payments
    BY DEF OfOrder
  <2>2. todo \in [found -> {"pending", "succeeded"}]
    OBVIOUS
  <2>3. todo \in Snapshots
    BY <2>1, <2>2 DEF Snapshots
  <2>4. [req[r] EXCEPT !.pc = "scan", !.todo = todo] \in RequestState
    <3> HIDE DEF todo
    <3> QED
      BY <2>3 DEF TypeOK, RequestState
  <2>5. req' \in [Requests -> RequestState]
    BY <1>5, <2>4, BecomesTyped DEF List
  <2> QED
    BY <1>5, <2>5 DEF List, TypeOK, rows, orderVars
<1>6. ASSUME NEW r \in Requests, Scan(r) PROVE TypeOK'
  <2> DEFINE todo == req[r].todo
  <2>1. todo \in Snapshots
    BY DEF TypeOK, RequestState
  <2>2. PICK S \in SUBSET Payments : todo \in [S -> {"pending", "succeeded"}]
    BY <2>1 DEF Snapshots
  <2>3. NoSnapshot \in Snapshots
    BY DEF NoSnapshot, Snapshots
  <2>4. ASSUME NEW p \in DOMAIN todo PROVE [q \in DOMAIN todo \ {p} |-> todo[q]] \in Snapshots
    <3>1. S \ {p} \in SUBSET Payments
      BY <2>2
    <3>2. [q \in DOMAIN todo \ {p} |-> todo[q]] \in [S \ {p} -> {"pending", "succeeded"}]
      BY <2>2
    <3> QED
      BY <3>1, <3>2 DEF Snapshots
  <2>5. DOMAIN todo \subseteq Payments
    BY <2>2
  <2>6. req' \in [Requests -> RequestState]
    <3>1. CASE Goto(r, "order")
      BY <3>1, MovesTyped
    <3>2. ASSUME NEW p \in DOMAIN todo,
                 Become(r, [req[r] EXCEPT !.pc = "succeed", !.payment = p, !.todo = NoSnapshot])
          PROVE  req' \in [Requests -> RequestState]
      <4>1. [req[r] EXCEPT !.pc = "succeed", !.payment = p, !.todo = NoSnapshot] \in RequestState
        BY <2>3, <2>5, ScansTyped
      <4> QED
        BY <3>2, <4>1, BecomesTyped
    <3>3. ASSUME NEW p \in DOMAIN todo,
                 Become(r, [req[r] EXCEPT !.pc = "select", !.payment = p, !.to = "closed",
                                          !.todo = [q \in DOMAIN todo \ {p} |-> todo[q]]])
          PROVE  req' \in [Requests -> RequestState]
      <4> DEFINE rest == [q \in DOMAIN todo \ {p} |-> todo[q]]
      <4>1. rest \in Snapshots
        BY <2>4
      <4>2. [req[r] EXCEPT !.pc = "select", !.payment = p, !.to = "closed", !.todo = rest]
            \in RequestState
        BY <4>1, <2>5, ScansTyped
      <4> QED
        BY <3>3, <4>2, BecomesTyped
    <3> QED
      BY <1>6, <3>1, <3>2, <3>3 DEF Scan
  <2> QED
    BY <1>6, <2>6 DEF Scan, TypeOK, rows, orderVars
<1>7. ASSUME NEW r \in Requests, CheckOrder(r) \/ InsertConflict(r) PROVE TypeOK'
  <2>1. req' \in [Requests -> RequestState]
    BY <1>7, MovesTyped DEF CheckOrder, InsertConflict
  <2> QED
    BY <1>7, <2>1 DEF CheckOrder, InsertConflict, TypeOK, rows, orderVars
<1>8. ASSUME NEW r \in Requests, Insert(r) PROVE TypeOK'
  <2> DEFINE p == Req[r].payment
             age == 1 + Cardinality(OfOrder(Req[r].order))
  <2>1. p \in Payments
    BY RequestsAssumption
  <2>2. age \in Nat
    <3>1. OfOrder(Req[r].order) \subseteq Payments
      BY DEF OfOrder
    <3>2. IsFiniteSet(OfOrder(Req[r].order))
      BY <3>1, PaymentsAssumption, FS_Subset
    <3> QED
      BY <3>2, FS_CardinalityType
  <2>3. pay' = [pay EXCEPT ![p] = [status |-> "pending", trade |-> NoTrade, at |-> age]]
    BY <1>8 DEF Insert
  <2>4. pay' \in [Payments -> PaymentRow]
    <3> HIDE DEF p, age
    <3> QED
      BY <2>1, <2>2, <2>3 DEF TypeOK, PaymentRow, Settled
  <2>5. req' \in [Requests -> RequestState]
    <3>1. CASE Goto(r, "fail")
      BY <3>1, MovesTyped
    <3>2. CASE Become(r, [req[r] EXCEPT !.pc = "succeed", !.payment = p])
      <4>1. [req[r] EXCEPT !.pc = "succeed", !.payment = p] \in RequestState
        BY <2>1 DEF TypeOK, RequestState
      <4> QED
        BY <3>2, <4>1, BecomesTyped
    <3> QED
      BY <1>8, <3>1, <3>2 DEF Insert
  <2> QED
    BY <1>8, <2>4, <2>5 DEF Insert, TypeOK, orderVars
<1>9. ASSUME NEW r \in Requests, Reuse(r) PROVE TypeOK'
  <2>1. req' \in [Requests -> RequestState]
    <3>1. CASE Goto(r, "fail")
      BY <3>1, MovesTyped
    <3>2. ASSUME NEW q \in Payments,
                 Become(r, [req[r] EXCEPT !.pc = "succeed", !.payment = q])
          PROVE  req' \in [Requests -> RequestState]
      <4>1. [req[r] EXCEPT !.pc = "succeed", !.payment = q] \in RequestState
        BY ZenonT(60) DEF TypeOK, RequestState
      <4> QED
        BY <3>2, <4>1, BecomesTyped
    <3> QED
      BY <1>9, <3>1, <3>2 DEF Reuse, OfOrder
  <2> QED
    BY <1>9, <2>1 DEF Reuse, TypeOK, rows, orderVars
<1>10. ASSUME NEW r \in Requests, LoadForConfirm(r) PROVE TypeOK'
  <2>1. req' \in [Requests -> RequestState]
    BY <1>10, MovesTyped, TransitsTyped, RequestsAssumption DEF LoadForConfirm, Settled
  <2>2. call' \in [Requests -> CallState]
    <3>1. call' = call \/ call' = [call EXCEPT ![r] = [state |-> "sent", waiting |-> TRUE]]
      BY <1>10 DEF LoadForConfirm
    <3>2. [state |-> "sent", waiting |-> TRUE] \in CallState
      BY DEF CallState
    <3> QED
      BY <3>1, <3>2, Zenon DEF TypeOK
  <2> QED
    BY <1>10, <2>1, <2>2 DEF LoadForConfirm, TypeOK, rows, orderVars
<1>11. ASSUME NEW r \in Requests, Answered(r) \/ LoadForClose(r) PROVE TypeOK'
  <2>1. req' \in [Requests -> RequestState]
    BY <1>11, MovesTyped, TransitsTyped, RequestsAssumption DEF Answered, LoadForClose, Settled
  <2> QED
    BY <1>11, <2>1 DEF Answered, LoadForClose, TypeOK, rows, orderVars
<1>12. ASSUME NEW r \in Requests, TimedOut(r) PROVE TypeOK'
  <2>1. req' \in [Requests -> RequestState]
    BY <1>12, MovesTyped DEF TimedOut
  <2>2. call' \in [Requests -> CallState]
    BY <1>12 DEF TimedOut, TypeOK, CallState
  <2> QED
    BY <1>12, <2>1, <2>2 DEF TimedOut, TypeOK, rows, orderVars
<1>13. ASSUME NEW r \in Requests, Select(r) \/ DbError(r) \/ Crash(r) PROVE TypeOK'
  <2>1. req' \in [Requests -> RequestState]
    BY <1>13, MovesTyped, AnswersTyped DEF Select, DbError, Crash, After
  <2> QED
    BY <1>13, <2>1 DEF Select, DbError, Crash, TypeOK, rows, orderVars
<1>14. ASSUME NEW r \in Requests, Update(r) PROVE TypeOK'
  <2> DEFINE p == req[r].payment
  <2>1. p \in Payments
    BY DEF TypeOK, RequestState
  <2>2. req' \in [Requests -> RequestState]
    BY <1>14, MovesTyped DEF Update, After
  <2>3. req[r].to = "succeeded" => r \in Confirms
    BY <1>14 DEF Update, At, PaidInv, SucceedingIsPaid, Succeeding, Confirms
  <2>4. pay' \in [Payments -> PaymentRow]
    <3>1. CASE /\ req[r].to = "succeeded"
               /\ pay' = [pay EXCEPT ![p] = [pay[p] EXCEPT !.status = "succeeded",
                                                           !.trade = Req[r].trade]]
      <4> DEFINE row == [pay[p] EXCEPT !.status = "succeeded", !.trade = Req[r].trade]
      <4>1. row \in PaymentRow
        BY <2>1, <2>3, <3>1, ZenonT(60) DEF TypeOK, PaymentRow, Settled
      <4> QED
        BY <3>1, <4>1, <2>1 DEF TypeOK
    <3>2. CASE pay' = [pay EXCEPT ![p].status = "closed"]
      BY <3>2, <2>1 DEF TypeOK, PaymentRow, Settled
    <3> QED
      BY <1>14, <3>1, <3>2 DEF Update
  <2>5. events' \in [Payments -> Nat]
    BY <1>14, <2>1 DEF Update, TypeOK
  <2> QED
    BY <1>14, <2>2, <2>4, <2>5 DEF Update, TypeOK, orderVars
<1>15. ASSUME NEW p \in Payments, Expire(p) PROVE TypeOK'
  BY <1>15 DEF Expire, TypeOK, orderVars
<1>16. ASSUME NEW r \in Requests, OrderStep(r) PROVE TypeOK'
  <2>1. call' \in [Requests -> CallState]
    BY <1>16 DEF OrderStep, OrderClaims, OrderChecks, OrderConfirms, OrderRefuses, OrderAnswers,
       TypeOK, CallState
  <2>2. orderRec' \in [Keys -> {"none", "pending", "succeeded", "failed"}]
    BY <1>16, KeysTyped DEF OrderStep, OrderClaims, OrderChecks, OrderConfirms, OrderRefuses,
       OrderAnswers, TypeOK, orderVars
  <2>3. order' \in [Orders -> Book!Entry]
    <3>1. CASE OrderConfirms(r)
      <4>1. call[r].state # "none"
        BY <3>1 DEF OrderConfirms
      <4>2. Bill(r) \in Bills
        BY <4>1 DEF PaidInv, CallsOfConfirms, Bills, Confirms
      <4> HIDE DEF Bill
      <4> QED
        BY <3>1, <4>2 DEF OrderConfirms, TypeOK, Book!Entry
    <3> QED
      BY <1>16, <3>1 DEF OrderStep, OrderClaims, OrderChecks, OrderRefuses, TypeOK, orderVars
  <2> QED
    BY <1>16, <2>1, <2>2, <2>3
    DEF OrderStep, OrderClaims, OrderChecks, OrderConfirms, OrderRefuses, TypeOK, rows
<1>17. ASSUME NEW o \in Orders, OrderEnds(o) PROVE TypeOK'
  BY <1>17 DEF OrderEnds, Book!End, Book!Entry, TypeOK, rows
<1>18. CASE UNCHANGED vars
  BY <1>18 DEF vars, TypeOK
<1> QED
  BY <1>1, <1>2, <1>3, <1>4, <1>5, <1>6, <1>7, <1>8, <1>9, <1>10, <1>11, <1>12, <1>13, <1>14,
     <1>15, <1>16, <1>17, <1>18 DEF Next, RequestStep
------------------------------------------------------------------------------
(* What is paid stays paid, action by action. *)

\* What a confirmation does to orders.
LEMMA Confirming ==
  ASSUME TypeOK, NEW r \in Requests, OrderConfirms(r)
  PROVE  /\ OrderOfCall(r) \in Orders
         /\ order'[OrderOfCall(r)] = [status |-> "paid", payment |-> Bill(r)]
         /\ \A o \in Orders \ {OrderOfCall(r)} : order'[o] = order[o]
         /\ UNCHANGED order \/ call[r].state = "update"
<1>1. OrderOfCall(r) \in Orders
  BY RequestsAssumption, PaymentsAssumption DEF OrderOfCall
<1> QED
  BY <1>1 DEF OrderConfirms, TypeOK

\* An order that is paid stays as it is.
LEMMA PaidStays ==
  ASSUME PaymentInv, NoOverwrite, NEW o \in Orders, order[o].status = "paid", [Next]_vars
  PROVE  order'[o] = order[o]
<1> USE DEF PaymentInv
<1>1. ASSUME NEW r \in Requests, OrderConfirms(r) PROVE order'[o] = order[o]
  <2>1. CASE o = OrderOfCall(r) /\ call[r].state = "update"
    <3>1. PaidBy(Req[r].payment, Req[r].trade)
      BY <2>1 DEF PaidInv, UpdatingIsFree
    <3>2. order[o] = [status |-> "paid", payment |-> Bill(r)]
      BY <2>1, <3>1 DEF PaidBy, OrderOfCall, Bill
    <3> QED
      BY <1>1, <2>1, <3>2, Confirming
  <2> QED
    BY <1>1, <2>1, Confirming
<1>2. ASSUME NEW q \in Orders, OrderEnds(q) PROVE order'[o] = order[o]
  BY <1>2 DEF OrderEnds, Book!End, TypeOK
<1>3. ASSUME NEW r \in Requests,
             RequestStep(r) \/ Crash(r) \/ OrderClaims(r) \/ OrderChecks(r) \/ OrderRefuses(r)
      PROVE  order'[o] = order[o]
  BY <1>3 DEF RequestStep, Find, Claim, Reclaim, Mark, List, Scan, CheckOrder, Insert,
     InsertConflict, Reuse, LoadForConfirm, Answered, TimedOut, LoadForClose, Select, Update,
     DbError, Crash, OrderClaims, OrderChecks, OrderRefuses, orderVars
<1>4. ASSUME NEW p \in Payments, Expire(p) PROVE order'[o] = order[o]
  BY <1>4 DEF Expire, orderVars
<1> QED
  BY <1>1, <1>2, <1>3, <1>4 DEF Next, OrderStep, vars

LEMMA PaidByStays ==
  ASSUME PaymentInv, [Next]_vars, NoOverwrite
  PROVE  \A p \in Payments : \A t : PaidBy(p, t) => PaidBy(p, t)'
<1> SUFFICES ASSUME NEW p \in Payments, NEW t, PaidBy(p, t) PROVE PaidBy(p, t)'
  OBVIOUS
<1>1. OrderOf[p] \in Orders
  BY PaymentsAssumption
<1>2. order[OrderOf[p]].status = "paid"
  BY DEF PaidBy
<1>3. order'[OrderOf[p]] = order[OrderOf[p]]
  BY <1>1, <1>2, PaidStays
<1> QED
  BY <1>3 DEF PaidBy

LEMMA PaidForStays ==
  ASSUME PaymentInv, [Next]_vars, NEW r \in Requests, PaidFor(r)
  PROVE  PaidFor(r)'
BY PaidByStays, RequestsAssumption DEF PaidFor, NoOverwrite, OneBill

\* A step that leaves payments alone leaves BackedByOrder alone.
LEMMA PaymentsUnchanged ==
  ASSUME PaymentInv, [Next]_vars, UNCHANGED pay
  PROVE  BackedByOrder'
BY PaidByStays DEF PaymentInv, PaidInv, BackedByOrder, SucceededIsPaid, NoOverwrite, OneBill

\* A step that leaves the order service's side alone leaves what it knows alone.
LEMMA OrderSideUnchanged ==
  ASSUME PaymentInv, [Next]_vars, UNCHANGED <<call, orderRec>>
  PROVE  CallsOfConfirms' /\ AnsweredIsPaid' /\ RecordIsPaid'
BY PaidForStays DEF PaymentInv, PaidInv, CallsOfConfirms, AnsweredIsPaid, RecordIsPaid, Confirms

\* A step of request r leaves what is known of the others' transitions alone.
LEMMA OthersSucceeding ==
  ASSUME PaymentInv, [Next]_vars, NEW r \in Requests,
         \A q \in Requests \ {r} : req'[q] = req[q],
         Succeeding(r)' => /\ Req[r].kind = "confirm" /\ req'[r].payment = Req[r].payment
                           /\ PaidFor(r)'
  PROVE  SucceedingIsPaid'
BY PaidForStays DEF PaymentInv, PaidInv, SucceedingIsPaid, Succeeding

LEMMA NobodyMoves ==
  ASSUME PaymentInv, [Next]_vars, UNCHANGED req
  PROVE  SucceedingIsPaid'
BY PaidForStays DEF PaymentInv, PaidInv, SucceedingIsPaid, Succeeding

\* A request that goes where no transition is running says nothing of the order.
LEMMA ElsewhereSucceeding ==
  ASSUME PaymentInv, [Next]_vars, NEW r \in Requests,
         NEW pc \in {"claim", "list", "scan", "order", "insert", "active", "load", "await",
                     "succeed", "fail", "dead"},
         Goto(r, pc)
  PROVE  SucceedingIsPaid'
BY OthersSucceeding DEF Goto, Succeeding, PaymentInv, TypeOK

LEMMA BecomesSucceeding ==
  ASSUME PaymentInv, [Next]_vars, NEW r \in Requests, NEW state, Become(r, state),
         state.pc \notin {"select", "update"} \/ state.to # "succeeded"
  PROVE  SucceedingIsPaid'
BY OthersSucceeding DEF Become, Succeeding, PaymentInv, TypeOK

LEMMA AnswersSucceeding ==
  ASSUME PaymentInv, [Next]_vars, NEW r \in Requests,
         (\E a : Answer(r, a)) \/ (\E p : AnswerWith(r, p))
  PROVE  SucceedingIsPaid'
BY BecomesSucceeding DEF Answer, AnswerWith, PaymentInv, TypeOK, RequestState

LEMMA ClosesSucceeding ==
  ASSUME PaymentInv, [Next]_vars, NEW r \in Requests, NEW p, Transit(r, p, "closed")
  PROVE  SucceedingIsPaid'
BY BecomesSucceeding DEF Transit, PaymentInv, TypeOK, RequestState

LEMMA SucceedingStep ==
  ASSUME PaymentInv, [Next]_vars
  PROVE  SucceedingIsPaid'
<1>1. ASSUME NEW r \in Requests, Find(r) \/ Claim(r) \/ Reclaim(r) \/ Mark(r)
      PROVE  SucceedingIsPaid'
  BY <1>1, ElsewhereSucceeding, AnswersSucceeding DEF Find, Claim, Reclaim, Mark, Owned
<1>2. ASSUME NEW r \in Requests, List(r) PROVE SucceedingIsPaid'
  BY <1>2, BecomesSucceeding DEF List, PaymentInv, TypeOK, RequestState
<1>3. ASSUME NEW r \in Requests, Scan(r) PROVE SucceedingIsPaid'
  BY <1>3, ElsewhereSucceeding, BecomesSucceeding DEF Scan, PaymentInv, TypeOK, RequestState
<1>4. ASSUME NEW r \in Requests, CheckOrder(r) \/ InsertConflict(r) PROVE SucceedingIsPaid'
  BY <1>4, ElsewhereSucceeding DEF CheckOrder, InsertConflict
<1>5. ASSUME NEW r \in Requests, Insert(r) \/ Reuse(r) PROVE SucceedingIsPaid'
  BY <1>5, ElsewhereSucceeding, BecomesSucceeding
  DEF Insert, Reuse, PaymentInv, TypeOK, RequestState
<1>6. ASSUME NEW r \in Requests, LoadForConfirm(r) \/ LoadForClose(r) PROVE SucceedingIsPaid'
  BY <1>6, ElsewhereSucceeding, ClosesSucceeding DEF LoadForConfirm, LoadForClose
<1>7. ASSUME NEW r \in Requests, Answered(r) PROVE SucceedingIsPaid'
  <2>1. CASE Goto(r, "fail")
    BY <1>7, <2>1, ElsewhereSucceeding
  <2>2. CASE call[r].state = "ok" /\ Transit(r, Req[r].payment, "succeeded")
    <3>1. PaidFor(r) /\ Req[r].kind = "confirm"
      BY <2>2 DEF PaymentInv, PaidInv, AnsweredIsPaid, CallsOfConfirms
    <3>2. PaidFor(r)'
      BY <3>1, PaidForStays DEF PaymentInv
    <3>3. req'[r].payment = Req[r].payment /\ \A q \in Requests \ {r} : req'[q] = req[q]
      BY <2>2 DEF Transit, Become, PaymentInv, TypeOK, RequestState
    <3> QED
      BY <3>1, <3>2, <3>3, OthersSucceeding
  <2> QED
    BY <1>7, <2>1, <2>2 DEF Answered
<1>8. ASSUME NEW r \in Requests, TimedOut(r) PROVE SucceedingIsPaid'
  BY <1>8, ElsewhereSucceeding DEF TimedOut
<1>9. ASSUME NEW r \in Requests, Select(r) PROVE SucceedingIsPaid'
  <2>1. CASE Goto(r, After(r, FALSE))
    BY <2>1, ElsewhereSucceeding DEF After
  <2>2. CASE Goto(r, "update")
    <3>1. /\ \A q \in Requests \ {r} : req'[q] = req[q]
          /\ req'[r].to = req[r].to /\ req'[r].payment = req[r].payment
      BY <2>2 DEF Goto, PaymentInv, TypeOK, RequestState
    <3>2. Succeeding(r)' => Succeeding(r)
      BY <1>9, <3>1 DEF Succeeding, Select, At
    <3>3. Succeeding(r) => /\ Req[r].kind = "confirm" /\ req[r].payment = Req[r].payment
                           /\ PaidFor(r)
      BY DEF PaymentInv, PaidInv, SucceedingIsPaid
    <3>4. PaidFor(r) => PaidFor(r)'
      BY PaidForStays DEF PaymentInv
    <3> QED
      BY <3>1, <3>2, <3>3, <3>4, OthersSucceeding
  <2> QED
    BY <1>9, <2>1, <2>2 DEF Select
<1>10. ASSUME NEW r \in Requests, Update(r) PROVE SucceedingIsPaid'
  BY <1>10, ElsewhereSucceeding DEF Update, After
<1>11. ASSUME NEW r \in Requests, DbError(r) \/ Crash(r) PROVE SucceedingIsPaid'
  BY <1>11, ElsewhereSucceeding, AnswersSucceeding DEF DbError, Crash, After
<1>12. CASE \/ \E p \in Payments : Expire(p)
            \/ \E r \in Requests : OrderStep(r)
            \/ \E o \in Orders : OrderEnds(o)
            \/ UNCHANGED vars
  BY <1>12, NobodyMoves
  DEF Expire, OrderStep, OrderClaims, OrderChecks, OrderConfirms, OrderRefuses, OrderEnds, vars
<1> QED
  BY <1>1, <1>2, <1>3, <1>4, <1>5, <1>6, <1>7, <1>8, <1>9, <1>10, <1>11, <1>12
  DEF Next, RequestStep

LEMMA PaymentsStep ==
  ASSUME PaymentInv, [Next]_vars
  PROVE  BackedByOrder'
<1> SUFFICES ASSUME NoOverwrite PROVE SucceededIsPaid'
  BY DEF BackedByOrder, NoOverwrite, OneBill
<1>1. ASSUME NEW r \in Requests, Insert(r) PROVE SucceededIsPaid'
  <2>1. \A p \in Payments : pay'[p].status = "succeeded" => pay'[p] = pay[p]
    <3> DEFINE q == Req[r].payment
               row == [status |-> "pending", trade |-> NoTrade,
                       at |-> 1 + Cardinality(OfOrder(Req[r].order))]
    <3>1. pay' = [pay EXCEPT ![q] = row] /\ row.status = "pending"
      BY <1>1 DEF Insert
    <3> HIDE DEF q, row
    <3> QED
      BY <3>1 DEF PaymentInv, TypeOK
  <2> QED
    BY <2>1, PaidByStays DEF PaymentInv, PaidInv, BackedByOrder, SucceededIsPaid
<1>2. ASSUME NEW r \in Requests, Update(r) PROVE SucceededIsPaid'
  <2>1. PICK p \in Payments : p = req[r].payment
    BY DEF PaymentInv, TypeOK, RequestState
  <2>2. CASE /\ req[r].to = "succeeded"
             /\ pay' = [pay EXCEPT ![p] = [pay[p] EXCEPT !.status = "succeeded",
                                                         !.trade = Req[r].trade]]
    <3> DEFINE row == [pay[p] EXCEPT !.status = "succeeded", !.trade = Req[r].trade]
    <3>1. row.trade = Req[r].trade
      BY <2>1 DEF PaymentInv, TypeOK, PaymentRow
    <3>2. PaidBy(p, Req[r].trade)
      BY <1>2, <2>1, <2>2 DEF Update, At, Succeeding, PaidFor, PaymentInv, PaidInv, SucceedingIsPaid
    <3>3. pay'[p].trade = Req[r].trade /\ \A q \in Payments \ {p} : pay'[q] = pay[q]
      <4> HIDE DEF row
      <4> QED
        BY <2>1, <2>2, <3>1 DEF PaymentInv, TypeOK, row
    <3>4. PaidBy(p, Req[r].trade)'
      BY <2>1, <3>2, PaidByStays DEF PaymentInv
    <3>5. PaidBy(p, pay[p].trade)'
      BY <3>3, <3>4 DEF PaidBy
    <3>6. ASSUME NEW q \in Payments \ {p}, pay'[q].status = "succeeded"
          PROVE  PaidBy(q, pay[q].trade)'
      <4>1. PaidBy(q, pay[q].trade)
        BY <3>3, <3>6 DEF PaymentInv, PaidInv, BackedByOrder, SucceededIsPaid
      <4> QED
        BY <3>3, <4>1, PaidByStays DEF PaymentInv, PaidBy
    <3> QED
      BY <3>5, <3>6 DEF SucceededIsPaid
  <2>3. CASE pay' = [pay EXCEPT ![p].status = "closed"]
    <3>1. \A q \in Payments : pay'[q].status = "succeeded" => pay'[q] = pay[q]
      BY <2>1, <2>3 DEF PaymentInv, TypeOK, PaymentRow
    <3> QED
      BY <3>1, PaidByStays DEF PaymentInv, PaidInv, BackedByOrder, SucceededIsPaid
  <2> QED
    BY <1>2, <2>1, <2>2, <2>3 DEF Update
<1>3. CASE UNCHANGED pay
  BY <1>3, PaymentsUnchanged DEF BackedByOrder, NoOverwrite, OneBill
<1> QED
  BY <1>1, <1>2, <1>3
  DEF Next, RequestStep, Find, Claim, Reclaim, Mark, List, Scan, CheckOrder, InsertConflict,
      Reuse, LoadForConfirm, Answered, TimedOut, LoadForClose, Select, DbError, Crash, Expire,
      OrderStep, OrderClaims, OrderChecks, OrderConfirms, OrderRefuses, OrderEnds, rows, vars

LEMMA RecordsStep ==
  ASSUME PaymentInv, [Next]_vars
  PROVE  RecordNames'
<1>1. ASSUME NEW r \in Requests, Claim(r) PROVE RecordNames'
  BY <1>1 DEF Claim, Row, RecordNames, PaymentInv, PaidInv, TypeOK
<1>2. ASSUME NEW r \in Requests, Mark(r) PROVE RecordNames'
  BY <1>2 DEF Mark, Row, RecordNames, PaymentInv, PaidInv, TypeOK, RequestState
<1>3. CASE UNCHANGED rec
  BY <1>3 DEF RecordNames, PaymentInv, PaidInv
<1> QED
  BY <1>1, <1>2, <1>3
  DEF Next, RequestStep, Find, Reclaim, List, Scan, CheckOrder, Insert, InsertConflict, Reuse,
      LoadForConfirm, Answered, TimedOut, LoadForClose, Select, Update, DbError, Crash, Expire,
      OrderStep, OrderClaims, OrderChecks, OrderConfirms, OrderRefuses, OrderEnds, vars

LEMMA OrderSideStep ==
  ASSUME PaymentInv, [Next]_vars
  PROVE  CallsOfConfirms' /\ AnsweredIsPaid' /\ RecordIsPaid'
<1> USE DEF PaymentInv, PaidInv
\* The call of r and the record behind it move, to "ok" and "succeeded" only when paid for.
<1>1. ASSUME NEW r \in Confirms, NEW status, NEW st,
             orderRec' = orderRec \/ orderRec' = [orderRec EXCEPT ![Key(r)] = status],
             \A q \in Requests \ {r} : call'[q].state = call[q].state,
             call'[r].state = st,
             st = "ok" => PaidFor(r)',
             status = "succeeded" => PaidFor(r)'
      PROVE  CallsOfConfirms' /\ AnsweredIsPaid' /\ RecordIsPaid'
  <2>1. r \in Requests /\ Req[r].kind = "confirm"
    BY DEF Confirms
  <2>2. CallsOfConfirms'
    BY <1>1, <2>1 DEF CallsOfConfirms
  <2>3. AnsweredIsPaid'
    BY <1>1, <2>1, PaidForStays DEF AnsweredIsPaid
  <2>4. RecordIsPaid'
    <3> SUFFICES ASSUME NEW q \in Confirms, orderRec'[Key(q)] = "succeeded" PROVE PaidFor(q)'
      BY DEF RecordIsPaid
    <3>1. q \in Requests
      BY DEF Confirms
    <3>2. CASE orderRec[Key(q)] = "succeeded"
      BY <3>1, <3>2, PaidForStays DEF RecordIsPaid
    <3>3. CASE Key(q) = Key(r) /\ status = "succeeded"
      <4>1. Bill(q) = Bill(r)
        BY <3>3, RequestsAssumption
      <4>2. PaidFor(r)'
        BY <1>1, <3>3
      <4> QED
        BY <4>1, <4>2 DEF Bill, PaidFor
    <3> QED
      BY <1>1, <2>1, <3>1, <3>2, <3>3, KeysTyped DEF TypeOK
  <2> QED
    BY <2>2, <2>3, <2>4
<1>2. ASSUME NEW r \in Requests, LoadForConfirm(r)
      PROVE  CallsOfConfirms' /\ AnsweredIsPaid' /\ RecordIsPaid'
  <2>1. r \in Confirms /\ orderRec' = orderRec
    BY <1>2 DEF LoadForConfirm, Confirms, orderVars
  <2>2. CASE UNCHANGED call
    BY <2>1, <2>2, OrderSideUnchanged
  <2>3. CASE call' = [call EXCEPT ![r] = [state |-> "sent", waiting |-> TRUE]]
    <3>1. call'[r].state = "sent" /\ \A q \in Requests \ {r} : call'[q].state = call[q].state
      BY <2>3 DEF TypeOK
    <3> QED
      BY <2>1, <3>1, <1>1
  <2> QED
    BY <1>2, <2>2, <2>3 DEF LoadForConfirm
<1>3. ASSUME NEW r \in Requests, TimedOut(r)
      PROVE  CallsOfConfirms' /\ AnsweredIsPaid' /\ RecordIsPaid'
  <2>1. \A q \in Requests : call'[q].state = call[q].state
    BY <1>3 DEF TimedOut, TypeOK, CallState
  <2>2. orderRec' = orderRec
    BY <1>3 DEF TimedOut, orderVars
  <2> QED
    BY <2>1, <2>2, PaidForStays
    DEF CallsOfConfirms, AnsweredIsPaid, RecordIsPaid, Confirms
<1>4. ASSUME NEW r \in Requests, OrderStep(r)
      PROVE  CallsOfConfirms' /\ AnsweredIsPaid' /\ RecordIsPaid'
  <2>1. call[r].state # "none"
    BY <1>4 DEF OrderStep, OrderClaims, OrderChecks, OrderConfirms, OrderRefuses
  <2>2. r \in Confirms
    BY <2>1 DEF CallsOfConfirms, Confirms
  <2>3. ASSUME NEW status, NEW st, OrderAnswers(r, status, st),
               st = "ok" => PaidFor(r)', status = "succeeded" => PaidFor(r)'
        PROVE  CallsOfConfirms' /\ AnsweredIsPaid' /\ RecordIsPaid'
    <3>1. call'[r].state = st /\ \A q \in Requests \ {r} : call'[q].state = call[q].state
      BY <2>3 DEF OrderAnswers, TypeOK, CallState
    <3> QED
      BY <2>2, <2>3, <3>1, <1>1 DEF OrderAnswers
  <2>0. CASE OrderChecks(r)
    <3>1. \A q \in Requests :
            /\ call'[q].state = "ok" => call[q].state = "ok"
            /\ call'[q].state # "none" => call[q].state # "none"
      BY <2>0, <2>1 DEF OrderChecks, TypeOK, CallState
    <3>2. orderRec' = orderRec
      BY <2>0 DEF OrderChecks, orderVars
    <3> QED
      BY <3>1, <3>2, PaidForStays
      DEF CallsOfConfirms, AnsweredIsPaid, RecordIsPaid, Confirms
  <2>4. CASE OrderClaims(r)
    <3>1. orderRec[Key(r)] = "succeeded" => PaidFor(r)'
      BY <2>2, PaidForStays DEF RecordIsPaid
    <3> QED
      BY <2>3, <2>4, <3>1 DEF OrderClaims
  <2>5. CASE OrderConfirms(r)
    <3>1. PaidFor(r)'
      BY <2>5, Confirming DEF PaidFor, PaidBy, Bill, OrderOfCall
    <3> QED
      BY <2>3, <2>5, <3>1 DEF OrderConfirms
  <2>6. CASE OrderRefuses(r)
    BY <2>3, <2>6 DEF OrderRefuses
  <2> QED
    BY <1>4, <2>0, <2>4, <2>5, <2>6 DEF OrderStep
<1>5. CASE UNCHANGED <<call, orderRec>>
  BY <1>5, OrderSideUnchanged
<1> QED
  BY <1>2, <1>3, <1>4, <1>5
  DEF Next, RequestStep, Find, Claim, Reclaim, Mark, List, Scan, CheckOrder, Insert,
      InsertConflict, Reuse, Answered, LoadForClose, Select, Update, DbError, Crash, Expire,
      OrderEnds, orderVars, vars

\* A step of the order service leaves what other calls are about to write alone.
LEMMA UpdatersStep ==
  ASSUME PaymentInv, [Next]_vars
  PROVE  UpdatingIsFree' /\ UpdatersAgree'
<1> SUFFICES ASSUME NoOverwrite PROVE UpdatingIsFree' /\ UpdatersAgree'
  BY DEF UpdatingIsFree, UpdatersAgree, NoOverwrite, OneBill
<1> USE DEF PaymentInv, PaidInv
<1> DEFINE Writes(r) == call[r].state = "update"
           Stays(o) == order'[o] = order[o]
\* What is known of the calls that were about to write goes on.
<1>1. ASSUME \A r \in Requests : Writes(r)' => Writes(r) /\ Stays(OrderOfCall(r))
      PROVE  UpdatingIsFree' /\ UpdatersAgree'
  BY <1>1 DEF UpdatingIsFree, UpdatersAgree, Paying, PaidBy, OrderOfCall
<1>2. ASSUME NEW r \in Requests, OrderChecks(r) PROVE UpdatingIsFree' /\ UpdatersAgree'
  <2>1. \A q \in Requests \ {r} : call'[q] = call[q]
    BY <1>2 DEF OrderChecks, TypeOK
  <2>2. order' = order /\ order[OrderOfCall(r)].status = "reserved"
    BY <1>2 DEF OrderChecks, orderVars
  <2>3. UpdatingIsFree'
    BY <2>1, <2>2 DEF UpdatingIsFree, PaidBy, OrderOfCall
  <2>4. ASSUME NEW q \in Requests, Paying(q, OrderOfCall(r)) PROVE Bill(q) = Bill(r)
    <3>1. CASE ~BillsOverlap
      BY <1>2, <2>4, <3>1 DEF OrderChecks
    <3>2. CASE OneBill
      <4>1. q \in Confirms /\ r \in Confirms
        BY <1>2, <2>4 DEF OrderChecks, Paying, CallsOfConfirms, Confirms
      <4> QED
        BY <2>4, <3>2, <4>1 DEF OneBill, Paying
    <3> QED
      BY <3>1, <3>2 DEF NoOverwrite
  <2> QED
    BY <2>1, <2>3, <2>4 DEF UpdatersAgree, Paying
<1>3. ASSUME NEW r \in Requests, OrderConfirms(r) PROVE UpdatingIsFree' /\ UpdatersAgree'
  <2>1. ASSUME NEW q \in Requests, Writes(q)' PROVE Writes(q) /\ q # r
    BY <1>3, <2>1 DEF OrderConfirms, OrderAnswers, TypeOK, CallState
  <2>2. UpdatersAgree'
    BY <2>1 DEF UpdatersAgree, Paying
  <2>3. ASSUME NEW q \in Requests, Writes(q)'
        PROVE order'[OrderOfCall(q)].status = "reserved" \/ PaidBy(Req[q].payment, Req[q].trade)'
    <3>1. Writes(q)
      BY <2>1, <2>3
    <3>2. OrderOfCall(q) \in Orders
      BY RequestsAssumption, PaymentsAssumption DEF OrderOfCall
    <3>3. CASE Stays(OrderOfCall(q))
      BY <3>1, <3>3 DEF UpdatingIsFree, PaidBy, OrderOfCall
    <3>4. CASE OrderOfCall(q) = OrderOfCall(r) /\ call[r].state = "update"
      <4>1. Bill(q) = Bill(r)
        BY <3>1, <3>4 DEF UpdatersAgree, Paying
      <4> QED
        BY <1>3, <3>4, <4>1, Confirming DEF PaidBy, Bill, OrderOfCall
    <3> QED
      BY <1>3, <3>2, <3>3, <3>4, Confirming
  <2> QED
    BY <2>2, <2>3 DEF UpdatingIsFree
<1>4. ASSUME NEW o \in Orders, OrderEnds(o) PROVE UpdatingIsFree' /\ UpdatersAgree'
  <2>1. \A r \in Requests : Writes(r)' => Writes(r) /\ OrderOfCall(r) # o
    BY <1>4 DEF OrderEnds, Paying
  <2>2. \A q \in Orders \ {o} : Stays(q)
    BY <1>4 DEF OrderEnds, Book!End, TypeOK
  <2>3. \A r \in Requests : OrderOfCall(r) \in Orders
    BY RequestsAssumption, PaymentsAssumption DEF OrderOfCall
  <2> QED
    BY <2>1, <2>2, <2>3, <1>1
<1>5. ASSUME NEW r \in Requests, OrderClaims(r) \/ OrderRefuses(r)
      PROVE  UpdatingIsFree' /\ UpdatersAgree'
  <2>1. order' = order /\ \A q \in Requests : Writes(q)' => Writes(q)
    BY <1>5 DEF OrderClaims, OrderRefuses, OrderAnswers, TypeOK, CallState
  <2> QED
    BY <2>1, <1>1
<1>6. ASSUME NEW r \in Requests, LoadForConfirm(r) \/ TimedOut(r)
      PROVE  UpdatingIsFree' /\ UpdatersAgree'
  <2>1. order' = order /\ \A q \in Requests : Writes(q)' => Writes(q)
    BY <1>6 DEF LoadForConfirm, TimedOut, orderVars, TypeOK, CallState
  <2> QED
    BY <2>1, <1>1
<1>7. CASE UNCHANGED <<call, order>>
  BY <1>7, <1>1
<1> QED
  BY <1>2, <1>3, <1>4, <1>5, <1>6, <1>7
  DEF Next, RequestStep, OrderStep, Find, Claim, Reclaim, Mark, List, Scan, CheckOrder, Insert,
      InsertConflict, Reuse, Answered, LoadForClose, Select, Update, DbError, Crash, Expire,
      orderVars, vars

------------------------------------------------------------------------------
(* The theorems. *)

LEMMA PaymentInvStays == PaymentInv /\ [Next]_vars => PaymentInv'
BY TypeStep, SucceedingStep, PaymentsStep, RecordsStep, OrderSideStep, UpdatersStep
   DEF PaymentInv, PaidInv

(* Every variable of the payment service keeps its type, for any number of requests,
   payments and orders. *)
THEOREM PaymentsTyped == Spec => []TypeOK
<1>1. PaymentInv => TypeOK
  BY DEF PaymentInv
<1> QED
  BY <1>1, InitInv, PaymentInvStays, PTL DEF Spec

(* When confirmations of an order that name different bills do not overlap in the order
   service, or there is one bill for an order, a payment that ConfirmPaymentSuccess moved to
   succeeded has its order paid by it, under the trade number it shows, however requests,
   their retries, timeouts, crashes and lost acknowledgements interleave. *)
THEOREM SucceededPaymentsArePaid == NoOverwrite => (Spec => []SucceededIsPaid)
<1> SUFFICES ASSUME NoOverwrite PROVE Spec => []SucceededIsPaid
  OBVIOUS
<1>1. PaymentInv => SucceededIsPaid
  BY DEF PaymentInv, PaidInv, BackedByOrder
<1> QED
  BY <1>1, InitInv, PaymentInvStays, PTL DEF Spec
------------------------------------------------------------------------------
(* What every request knows, also when transitions overlap: a creation inserts a payment
   nobody has seen yet, so a row that was seen does not turn pending again. *)

Creating == {"list", "scan", "order", "insert", "active"}
Finished == {"succeed", "fail", "done", "dead"}

CreatesCreate == \A r \in Requests : req[r].pc \in Creating => Req[r].kind = "create"

FreshPayment ==
  \A r \in Creates : req[r].pc \notin Finished => pay[Req[r].payment].status = "none"

TodoOfOrder ==
  \A r \in Requests : \A p \in DOMAIN req[r].todo : p \in OfOrder(Req[r].order)

RowsAreThere ==
  \A r \in Requests :
    /\ At(r, "await") => pay[Req[r].payment].status # "none"
    /\ req[r].pc \in {"select", "update"} => pay[req[r].payment].status # "none"

FreshInv ==
  /\ PaymentInv
  /\ CreatesCreate
  /\ FreshPayment
  /\ TodoOfOrder
  /\ RowsAreThere

(* A payment is final when transitions do not overlap, because whoever is about to write
   it has seen it pending and is alone with it. *)

AloneWithPayment ==
  \A q, r \in Requests :
    At(q, "update") /\ At(r, "update") /\ req[q].payment = req[r].payment => q = r

UpdatesPending ==
  \A r \in Requests : At(r, "update") => pay[req[r].payment].status = "pending"

(* The inductive invariant behind PaymentsAreFinal and OneEventPerSuccess. *)
FinalInv ==
  /\ FreshInv
  /\ AloneWithPayment
  /\ UpdatesPending
  /\ OneEvent

LEMMA InitFresh == Init => FreshInv
<1> SUFFICES ASSUME Init PROVE FreshInv
  OBVIOUS
<1>1. CreatesCreate /\ RowsAreThere
  BY DEF Init, CreatesCreate, RowsAreThere, At, Creating
<1>2. FreshPayment
  BY RequestsAssumption DEF Init, FreshPayment, Creates
<1>3. TodoOfOrder
  BY DEF Init, TodoOfOrder, NoSnapshot
<1> QED
  BY <1>1, <1>2, <1>3, InitInv DEF FreshInv

LEMMA InitFinal == Init => FinalInv
<1> SUFFICES ASSUME Init PROVE FinalInv
  OBVIOUS
<1>1. AloneWithPayment /\ UpdatesPending
  BY DEF Init, AloneWithPayment, UpdatesPending, At
<1>2. OneEvent
  BY DEF Init, OneEvent
<1> QED
  BY <1>1, <1>2, InitFresh DEF FinalInv

------------------------------------------------------------------------------
(* Where a request goes. *)

LEMMA OwnStep ==
  ASSUME PaymentInv, [Next]_vars, NEW r \in Requests
  PROVE  req'[r] = req[r] \/ RequestStep(r) \/ Crash(r)
<1>1. ASSUME NEW q \in Requests, RequestStep(q) \/ Crash(q), q # r PROVE req'[r] = req[r]
  BY <1>1
  DEF RequestStep, Find, Claim, Reclaim, Mark, List, Scan, CheckOrder, Insert, InsertConflict,
      Reuse, LoadForConfirm, Answered, TimedOut, LoadForClose, Select, Update, DbError, Crash,
      Goto, Become, Answer, AnswerWith, Transit, PaymentInv, TypeOK
<1>2. CASE \/ \E p \in Payments : Expire(p)
           \/ \E q \in Requests : OrderStep(q)
           \/ \E o \in Orders : OrderEnds(o)
           \/ UNCHANGED vars
  BY <1>2 DEF Expire, OrderStep, OrderClaims, OrderChecks, OrderConfirms, OrderRefuses, OrderEnds, vars
<1> QED
  BY <1>1, <1>2 DEF Next

LEMMA WhereTo ==
  ASSUME FreshInv, [Next]_vars, NEW r \in Requests
  PROVE  /\ req[r].pc \in Finished => req'[r].pc \in Finished
         /\ req'[r].pc \in Creating => Req[r].kind = "create"
         /\ At(r, "update")' =>
              req'[r].payment = req[r].payment /\ (At(r, "update") \/ Select(r))
<1> USE DEF FreshInv, PaymentInv, At, Finished, Creating
<1> DEFINE Thus == /\ req[r].pc \in Finished => req'[r].pc \in Finished
                   /\ req'[r].pc \in Creating => Req[r].kind = "create"
                   /\ At(r, "update")' =>
                        req'[r].payment = req[r].payment /\ (At(r, "update") \/ Select(r))
<1>1. ASSUME NEW pc \in {"claim", "load", "await", "select", "succeed", "fail", "dead"},
             Goto(r, pc), req[r].pc \in Finished => pc \in Finished
      PROVE  Thus
  BY <1>1 DEF Goto, TypeOK
<1>2. ASSUME NEW state, Become(r, state),
             state.pc \in {"select", "succeed", "done"},
             req[r].pc \in Finished => state.pc \in Finished
      PROVE  Thus
  BY <1>2 DEF Become, TypeOK
<1>3. ASSUME NEW a, Answer(r, a) PROVE Thus
  BY <1>3, <1>2 DEF Answer, TypeOK, RequestState
<1>4. ASSUME NEW p, AnswerWith(r, p) PROVE Thus
  BY <1>4, <1>2 DEF AnswerWith, TypeOK, RequestState
<1>5. ASSUME NEW p, NEW st, Transit(r, p, st), req[r].pc \notin Finished PROVE Thus
  BY <1>5, <1>2 DEF Transit, TypeOK, RequestState
<1>6. ASSUME NEW pc \in Creating, Goto(r, pc), Req[r].kind = "create", req[r].pc \notin Finished
      PROVE  Thus
  BY <1>6 DEF Goto, TypeOK
<1>7. CASE req'[r] = req[r]
  BY <1>7 DEF CreatesCreate
<1>8. CASE Find(r) \/ Claim(r) \/ Reclaim(r) \/ Mark(r)
  BY <1>8, <1>1, <1>3, <1>4, <1>6 DEF Find, Claim, Reclaim, Mark, Owned
<1>9. CASE List(r)
  BY <1>9 DEF List, Become, TypeOK, RequestState, CreatesCreate
<1>10. CASE Scan(r)
  <2>1. Req[r].kind = "create"
    BY <1>10 DEF Scan, CreatesCreate
  <2> QED
    BY <1>10, <2>1, <1>2, <1>6 DEF Scan, TypeOK, RequestState
<1>11. CASE CheckOrder(r) \/ Insert(r) \/ InsertConflict(r) \/ Reuse(r)
  <2>1. Req[r].kind = "create"
    BY <1>11 DEF CheckOrder, Insert, InsertConflict, Reuse, CreatesCreate
  <2> QED
    BY <1>11, <2>1, <1>1, <1>2, <1>6
    DEF CheckOrder, Insert, InsertConflict, Reuse, TypeOK, RequestState
<1>12. CASE LoadForConfirm(r) \/ Answered(r) \/ TimedOut(r) \/ LoadForClose(r)
  BY <1>12, <1>1, <1>5 DEF LoadForConfirm, Answered, TimedOut, LoadForClose
<1>13. ASSUME NEW ok \in BOOLEAN, Goto(r, After(r, ok)), req[r].pc \notin Finished PROVE Thus
  BY <1>13, <1>1, <1>6 DEF After
<1>14. CASE Select(r)
  <2>1. CASE Goto(r, "update")
    BY <1>14, <2>1, ZenonT(60) DEF Goto, Select, TypeOK, RequestState
  <2> QED
    BY <1>14, <2>1, <1>13 DEF Select
<1>15. CASE Update(r)
  BY <1>15, <1>13 DEF Update
<1>16. CASE DbError(r) \/ Crash(r)
  BY <1>16, <1>1, <1>3, <1>13 DEF DbError, Crash
<1>17. RequestStep(r) => Thus
  BY <1>8, <1>9, <1>10, <1>11, <1>12, <1>14, <1>15, <1>16 DEF RequestStep
<1>18. Thus
  BY <1>7, <1>16, <1>17, OwnStep
<1> QED
  BY <1>18

------------------------------------------------------------------------------
(* What happens to a payment. *)

LEMMA PaymentMoves ==
  ASSUME [Next]_vars
  PROVE  \/ UNCHANGED <<pay, events>>
         \/ \E r \in Requests : Insert(r) \/ Update(r)
BY ZenonT(60) DEF Next, RequestStep, Find, Claim, Reclaim, Mark, List, Scan, CheckOrder, InsertConflict,
   Reuse, LoadForConfirm, Answered, TimedOut, LoadForClose, Select, DbError, Crash, Expire,
   OrderStep, OrderClaims, OrderChecks, OrderConfirms, OrderRefuses, OrderEnds, rows, vars

LEMMA Inserts ==
  ASSUME FreshInv, NEW r \in Requests, Insert(r)
  PROVE  /\ r \in Creates /\ pay[Req[r].payment].status = "none"
         /\ pay'[Req[r].payment].status = "pending"
         /\ \A p \in Payments \ {Req[r].payment} : pay'[p] = pay[p]
         /\ UNCHANGED events /\ req'[r].pc \in Finished
<1> USE DEF FreshInv, PaymentInv
<1>1. r \in Creates /\ Req[r].payment \in Payments
  BY RequestsAssumption DEF Insert, At, Creating, CreatesCreate, Creates
<1>2. pay[Req[r].payment].status = "none"
  BY <1>1 DEF Insert, At, Finished, FreshPayment
<1>3. /\ pay'[Req[r].payment].status = "pending"
      /\ \A p \in Payments \ {Req[r].payment} : pay'[p] = pay[p]
  <2> DEFINE q == Req[r].payment
             row == [status |-> "pending", trade |-> NoTrade,
                     at |-> 1 + Cardinality(OfOrder(Req[r].order))]
  <2>1. pay' = [pay EXCEPT ![q] = row] /\ row.status = "pending"
    BY DEF Insert
  <2> HIDE DEF row
  <2> QED
    BY <1>1, <2>1 DEF TypeOK
<1>4. UNCHANGED events
  BY DEF Insert
<1>5. req'[r].pc \in Finished
  BY DEF Insert, Goto, Become, Finished, TypeOK, RequestState
<1> QED
  BY <1>1, <1>2, <1>3, <1>4, <1>5

\* A transition, whatever overlaps with it, settles a row that is there.
LEMMA Writes ==
  ASSUME FreshInv, NEW r \in Requests, Update(r)
  PROVE  /\ req[r].payment \in Payments /\ pay[req[r].payment].status # "none"
         /\ pay'[req[r].payment].status \in Settled
         /\ req[r].to = "succeeded" => pay'[req[r].payment].status = "succeeded"
         /\ \A p \in Payments \ {req[r].payment} : pay'[p] = pay[p]
<1> USE DEF FreshInv, PaymentInv
<1> DEFINE p == req[r].payment
<1>1. p \in Payments /\ pay[p].status # "none"
  BY DEF Update, At, RowsAreThere, TypeOK, RequestState
<1>2. CASE /\ req[r].to = "succeeded"
           /\ pay' = [pay EXCEPT ![p] = [pay[p] EXCEPT !.status = "succeeded",
                                                       !.trade = Req[r].trade]]
  <2> DEFINE row == [pay[p] EXCEPT !.status = "succeeded", !.trade = Req[r].trade]
  <2>1. row.status = "succeeded"
    BY <1>1 DEF TypeOK, PaymentRow
  <2>2. pay' = [pay EXCEPT ![p] = row]
    BY <1>2
  <2> HIDE DEF row
  <2> QED
    BY <1>1, <1>2, <2>1, <2>2 DEF TypeOK, Settled
<1>3. CASE req[r].to = "closed" /\ pay' = [pay EXCEPT ![p].status = "closed"]
  BY <1>1, <1>3 DEF TypeOK, PaymentRow, Settled
<1> QED
  BY <1>2, <1>3 DEF Update

\* No row disappears, and what is settled is settled for good, one way or the other.
LEMMA RowsRemain ==
  ASSUME FreshInv, [Next]_vars, NEW p \in Payments
  PROVE  /\ pay[p].status # "none" => pay'[p].status # "none"
         /\ pay[p].status \in Settled => pay'[p].status \in Settled
BY PaymentMoves, Inserts, Writes DEF Settled

------------------------------------------------------------------------------
(* The invariant, conjunct by conjunct. *)

LEMMA FreshStays ==
  ASSUME FreshInv, [Next]_vars
  PROVE  FreshPayment'
<1> SUFFICES ASSUME NEW r \in Creates, req'[r].pc \notin Finished
             PROVE  pay'[Req[r].payment].status = "none"
  BY DEF FreshPayment
<1>1. r \in Requests /\ Req[r].payment \in Payments
  BY RequestsAssumption DEF Creates
<1>2. pay[Req[r].payment].status = "none"
  BY <1>1, WhereTo DEF FreshInv, FreshPayment
<1>3. ASSUME NEW q \in Requests, Insert(q) PROVE pay'[Req[r].payment].status = "none"
  <2>1. q # r
    BY <1>3, Inserts
  <2>2. Req[q].payment # Req[r].payment
    BY <1>3, <2>1, Inserts, RequestsAssumption
  <2> QED
    BY <1>1, <1>2, <1>3, <2>2, Inserts
<1>4. ASSUME NEW q \in Requests, Update(q) PROVE pay'[Req[r].payment].status = "none"
  BY <1>1, <1>2, <1>4, Writes
<1> QED
  BY <1>2, <1>3, <1>4, PaymentMoves

LEMMA TodoStays ==
  ASSUME FreshInv, [Next]_vars
  PROVE  TodoOfOrder'
<1> SUFFICES ASSUME NEW r \in Requests, NEW p \in DOMAIN req'[r].todo
             PROVE  (p \in OfOrder(Req[r].order))'
  BY DEF TodoOfOrder
<1>1. p \in OfOrder(Req[r].order) => (p \in OfOrder(Req[r].order))'
  BY RowsRemain DEF OfOrder
<1>2. CASE req'[r].todo = req[r].todo
  BY <1>1, <1>2 DEF FreshInv, TodoOfOrder
<1>3. CASE List(r)
  <2>1. p \in OfOrder(Req[r].order)
    <3> DEFINE found == {q \in OfOrder(Req[r].order) : pay[q].status \in {"pending", "succeeded"}}
               todo == [q \in found |-> pay[q].status]
    <3>1. req'[r].todo = todo
      <4>1. req' = [req EXCEPT ![r] = [req[r] EXCEPT !.pc = "scan", !.todo = todo]]
        BY <1>3 DEF List, Become
      <4> HIDE DEF todo
      <4> QED
        BY <4>1 DEF FreshInv, PaymentInv, TypeOK, RequestState
    <3> QED
      BY <3>1
  <2> QED
    BY <1>1, <2>1
<1>4. CASE Scan(r)
  <2> DEFINE todo == req[r].todo
  <2>1. p \in DOMAIN todo
    <3>1. CASE Goto(r, "order")
      BY <3>1 DEF Goto, FreshInv, PaymentInv, TypeOK, RequestState
    <3>2. ASSUME NEW q, Become(r, [req[r] EXCEPT !.pc = "succeed", !.payment = q,
                                                 !.todo = NoSnapshot])
          PROVE  FALSE
      <4>1. req'[r].todo = NoSnapshot
        BY <3>2 DEF Become, FreshInv, PaymentInv, TypeOK, RequestState
      <4> QED
        BY <4>1 DEF NoSnapshot
    <3>3. ASSUME NEW q, Become(r, [req[r] EXCEPT !.pc = "select", !.payment = q,
                                                 !.to = "closed",
                                                 !.todo = [x \in DOMAIN todo \ {q} |-> todo[x]]])
          PROVE  p \in DOMAIN todo
      <4> DEFINE left == [x \in DOMAIN todo \ {q} |-> todo[x]]
      <4>1. req'[r].todo = left
        <5>1. req' = [req EXCEPT ![r] = [req[r] EXCEPT !.pc = "select", !.payment = q,
                                                       !.to = "closed", !.todo = left]]
          BY <3>3 DEF Become
        <5> HIDE DEF left
        <5> QED
          BY <5>1 DEF FreshInv, PaymentInv, TypeOK, RequestState
      <4> QED
        BY <4>1
    <3> QED
      BY <1>4, <3>1, <3>2, <3>3 DEF Scan
  <2> QED
    BY <1>1, <2>1 DEF FreshInv, TodoOfOrder
<1>5. req'[r].todo = req[r].todo \/ List(r) \/ Scan(r)
  <2> USE DEF FreshInv, PaymentInv, TypeOK, RequestState
  <2>1. ASSUME NEW pc, Goto(r, pc) PROVE req'[r].todo = req[r].todo
    BY <2>1 DEF Goto
  <2>2. ASSUME NEW a, Answer(r, a) PROVE req'[r].todo = req[r].todo
    BY <2>2 DEF Answer, Become
  <2>3. ASSUME NEW q, AnswerWith(r, q) PROVE req'[r].todo = req[r].todo
    BY <2>3 DEF AnswerWith, Become
  <2>4. ASSUME NEW q, NEW st, Transit(r, q, st) PROVE req'[r].todo = req[r].todo
    BY <2>4 DEF Transit, Become
  <2>5. ASSUME NEW q, Become(r, [req[r] EXCEPT !.pc = "succeed", !.payment = q])
        PROVE  req'[r].todo = req[r].todo
    BY <2>5 DEF Become
  <2> HIDE DEF FreshInv, PaymentInv, TypeOK, RequestState
  <2> QED
    BY <2>1, <2>2, <2>3, <2>4, <2>5, OwnStep
    DEF RequestStep, Find, Claim, Reclaim, Mark, CheckOrder, Insert, InsertConflict, Reuse,
        LoadForConfirm, Answered, TimedOut, LoadForClose, Select, Update, DbError, Crash,
        FreshInv
<1> QED
  BY <1>2, <1>3, <1>4, <1>5

\* Whoever moves a payment on has seen its row.
LEMMA RowsThereStays ==
  ASSUME FreshInv, [Next]_vars
  PROVE  RowsAreThere'
<1> USE DEF FreshInv, PaymentInv, At
<1> SUFFICES ASSUME NEW r \in Requests
             PROVE  /\ At(r, "await")' => pay'[Req[r].payment].status # "none"
                    /\ req'[r].pc \in {"select", "update"} =>
                         pay'[req'[r].payment].status # "none"
  BY DEF RowsAreThere
<1> DEFINE Thus == /\ At(r, "await")' => pay'[Req[r].payment].status # "none"
                   /\ req'[r].pc \in {"select", "update"} =>
                        pay'[req'[r].payment].status # "none"
<1>1. req[r].payment \in Payments /\ Req[r].payment \in Payments
  BY RequestsAssumption DEF TypeOK, RequestState
<1>2. CASE req'[r] = req[r]
  BY <1>1, <1>2, RowsRemain DEF RowsAreThere
<1>3. CASE req'[r].pc \notin {"await", "select", "update"}
  BY <1>3
<1>4. ASSUME NEW p \in Payments, NEW st, Transit(r, p, st), pay[p].status # "none" PROVE Thus
  <2>1. req'[r].payment = p /\ req'[r].pc = "select"
    BY <1>4 DEF Transit, Become, TypeOK, RequestState
  <2> QED
    BY <1>4, <2>1, RowsRemain
<1>5. CASE Scan(r)
  <2>1. ASSUME NEW p \in DOMAIN req[r].todo,
               Become(r, [req[r] EXCEPT !.pc = "select", !.payment = p, !.to = "closed",
                                        !.todo = [q \in DOMAIN req[r].todo \ {p} |-> req[r].todo[q]]])
        PROVE  Thus
    <3> DEFINE left == [q \in DOMAIN req[r].todo \ {p} |-> req[r].todo[q]]
    <3>1. req' = [req EXCEPT ![r] = [req[r] EXCEPT !.pc = "select", !.payment = p,
                                                   !.to = "closed", !.todo = left]]
      BY <2>1 DEF Become
    <3> HIDE DEF left
    <3>2. req'[r].payment = p /\ req'[r].pc = "select"
      BY <3>1 DEF TypeOK, RequestState
    <3>3. p \in Payments /\ pay[p].status # "none"
      BY DEF TodoOfOrder, OfOrder
    <3> QED
      BY <3>2, <3>3, RowsRemain
  <2>2. CASE Goto(r, "order")
    BY <2>2, <1>3 DEF Goto, TypeOK, RequestState
  <2>3. ASSUME NEW p, Become(r, [req[r] EXCEPT !.pc = "succeed", !.payment = p,
                                               !.todo = NoSnapshot])
        PROVE  Thus
    BY <2>3, <1>3 DEF Become, TypeOK, RequestState
  <2> QED
    BY <1>5, <2>1, <2>2, <2>3 DEF Scan
<1>6. CASE LoadForConfirm(r)
  <2>1. CASE Goto(r, "fail") \/ Goto(r, "succeed")
    BY <2>1, <1>3 DEF Goto, TypeOK, RequestState
  <2>2. CASE pay[Req[r].payment].status = "pending" /\ Transit(r, Req[r].payment, "closed")
    BY <1>1, <1>4, <2>2
  <2>3. CASE pay[Req[r].payment].status = "pending" /\ Goto(r, "await")
    <3>1. req'[r].pc = "await"
      BY <2>3 DEF Goto, TypeOK, RequestState
    <3> QED
      BY <1>1, <2>3, <3>1, RowsRemain
  <2> QED
    BY <1>6, <2>1, <2>2, <2>3 DEF LoadForConfirm
<1>7. CASE Answered(r)
  <2>1. pay[Req[r].payment].status # "none"
    BY <1>7 DEF Answered, RowsAreThere
  <2>2. CASE Goto(r, "fail")
    BY <2>2, <1>3 DEF Goto, TypeOK, RequestState
  <2> QED
    BY <1>1, <1>4, <1>7, <2>1, <2>2 DEF Answered
<1>8. CASE LoadForClose(r)
  <2>1. CASE Goto(r, "fail") \/ Goto(r, "succeed")
    BY <2>1, <1>3 DEF Goto, TypeOK, RequestState
  <2>2. CASE pay[Req[r].payment].status = "pending" /\ Transit(r, Req[r].payment, "closed")
    BY <1>1, <1>4, <2>2
  <2> QED
    BY <1>8, <2>1, <2>2 DEF LoadForClose
<1>9. CASE Select(r)
  <2>1. pay[req[r].payment].status # "none"
    BY <1>9 DEF Select, RowsAreThere
  <2>2. PICK pc \in {"update", "scan", "fail", "succeed"} : Goto(r, pc)
    BY <1>9 DEF Select, After
  <2>3. req'[r].payment = req[r].payment /\ req'[r].pc = pc
    BY <2>2 DEF Goto, TypeOK, RequestState
  <2> QED
    BY <1>1, <2>1, <2>3, RowsRemain
<1>10. ASSUME NEW pc \in {"start", "claim", "list", "scan", "order", "insert", "active", "load",
                          "succeed", "fail", "done", "dead"}, Goto(r, pc)
       PROVE  Thus
  BY <1>3, <1>10 DEF Goto, TypeOK, RequestState
<1>11. ASSUME NEW state, Become(r, state), state.pc \in {"scan", "succeed", "done"} PROVE Thus
  BY <1>3, <1>11 DEF Become, TypeOK
<1>12. ASSUME NEW a, Answer(r, a) PROVE Thus
  BY <1>3, <1>12 DEF Answer, Become, TypeOK, RequestState
<1>13. ASSUME NEW p, AnswerWith(r, p) PROVE Thus
  BY <1>3, <1>13 DEF AnswerWith, Become, TypeOK, RequestState
<1>14. CASE Find(r) \/ Claim(r) \/ Reclaim(r) \/ Mark(r)
  BY <1>14, <1>10, <1>12, <1>13 DEF Find, Claim, Reclaim, Mark, Owned
<1>15. CASE List(r)
  BY <1>15, <1>3 DEF List, Become, TypeOK, RequestState
<1>16. CASE CheckOrder(r) \/ InsertConflict(r) \/ TimedOut(r) \/ Crash(r)
  BY <1>16, <1>10 DEF CheckOrder, InsertConflict, TimedOut, Crash
<1>17. ASSUME NEW p, Become(r, [req[r] EXCEPT !.pc = "succeed", !.payment = p]) PROVE Thus
  BY <1>3, <1>17 DEF Become, TypeOK, RequestState
<1>18. CASE Insert(r) \/ Reuse(r)
  BY <1>18, <1>10, <1>17 DEF Insert, Reuse
<1>19. CASE Update(r) \/ DbError(r)
  BY <1>19, <1>10, <1>12 DEF Update, DbError, After
<1>20. RequestStep(r) => Thus
  BY <1>5, <1>6, <1>7, <1>8, <1>9, <1>14, <1>15, <1>16, <1>18, <1>19 DEF RequestStep
<1>21. Thus
  BY <1>2, <1>16, <1>20, OwnStep
<1> QED
  BY <1>21

LEMMA FreshInvStays == FreshInv /\ [Next]_vars => FreshInv'
<1> SUFFICES ASSUME FreshInv, [Next]_vars PROVE FreshInv'
  OBVIOUS
<1>1. PaymentInv'
  BY PaymentInvStays DEF FreshInv
<1>2. CreatesCreate'
  BY WhereTo DEF CreatesCreate
<1> QED
  BY <1>1, <1>2, FreshStays, TodoStays, RowsThereStays DEF FreshInv

------------------------------------------------------------------------------
(* Payments whose transitions never overlap. *)

LEMMA Updates ==
  ASSUME FinalInv, NEW r \in Requests, Update(r)
  PROVE  /\ req[r].payment \in Payments /\ pay[req[r].payment].status = "pending"
         /\ \A p \in Payments \ {req[r].payment} : pay'[p] = pay[p] /\ events'[p] = events[p]
         /\ \/ /\ req[r].to = "succeeded"
               /\ pay'[req[r].payment].status = "succeeded"
               /\ events'[req[r].payment] = events[req[r].payment] + 1
            \/ /\ req[r].to = "closed"
               /\ pay'[req[r].payment].status = "closed"
               /\ events'[req[r].payment] = events[req[r].payment]
         /\ req'[r].pc # "update"
<1> USE DEF FinalInv, FreshInv, PaymentInv
<1> DEFINE p == req[r].payment
<1>1. p \in Payments /\ pay[p].status = "pending"
  BY DEF Update, UpdatesPending, TypeOK, RequestState
<1>2. req'[r].pc # "update"
  BY DEF Update, Goto, After, TypeOK, RequestState
<1>3. CASE /\ req[r].to = "succeeded"
           /\ pay' = [pay EXCEPT ![p] = [pay[p] EXCEPT !.status = "succeeded",
                                                       !.trade = Req[r].trade]]
           /\ events' = [events EXCEPT ![p] = @ + 1]
  <2> DEFINE row == [pay[p] EXCEPT !.status = "succeeded", !.trade = Req[r].trade]
  <2>1. row.status = "succeeded"
    BY <1>1 DEF TypeOK, PaymentRow
  <2>2. pay' = [pay EXCEPT ![p] = row]
    BY <1>3
  <2> HIDE DEF row
  <2> QED
    BY <1>1, <1>2, <1>3, <2>1, <2>2 DEF TypeOK
<1>4. CASE /\ req[r].to = "closed"
           /\ pay' = [pay EXCEPT ![p].status = "closed"]
           /\ UNCHANGED events
  BY <1>1, <1>2, <1>4 DEF TypeOK, PaymentRow
<1> QED
  BY <1>3, <1>4 DEF Update

\* Whatever is settled stays, and no row disappears.
LEMMA RowsStay ==
  ASSUME FinalInv, [Next]_vars, NEW p \in Payments
  PROVE  /\ pay[p].status \in Settled => pay'[p] = pay[p]
         /\ pay[p].status # "none" => pay'[p].status # "none"
BY PaymentMoves, Inserts, Updates DEF Settled, FinalInv

LEMMA AloneStays ==
  ASSUME ~PaymentOverlap, FinalInv, [Next]_vars
  PROVE  AloneWithPayment'
<1>a. FreshInv
  BY DEF FinalInv
<1> USE <1>a
<1> SUFFICES ASSUME NEW q \in Requests, NEW r \in Requests, At(q, "update")', At(r, "update")',
                    req'[q].payment = req'[r].payment
             PROVE  q = r
  BY DEF AloneWithPayment
<1>1. req[q].payment = req[r].payment
  BY WhereTo
<1>2. CASE At(q, "update") /\ At(r, "update")
  BY <1>1, <1>2 DEF FinalInv, AloneWithPayment
<1>3. ASSUME NEW s \in Requests, NEW t \in Requests, req[s].payment = req[t].payment,
             Select(s), At(t, "update")
      PROVE  FALSE
  BY <1>3 DEF Select, InTransition
<1>4. CASE Select(q) /\ Select(r)
  BY <1>4 DEF Select, Goto, At, FinalInv, FreshInv, PaymentInv, TypeOK
<1> QED
  BY <1>1, <1>2, <1>3, <1>4, WhereTo

LEMMA PendingStays ==
  ASSUME FinalInv, [Next]_vars
  PROVE  UpdatesPending'
<1>a. FreshInv
  BY DEF FinalInv
<1> USE <1>a
<1> SUFFICES ASSUME NEW r \in Requests, At(r, "update")'
             PROVE  pay'[req'[r].payment].status = "pending"
  BY DEF UpdatesPending
<1>1. PICK p \in Payments : p = req[r].payment /\ p = req'[r].payment
  BY WhereTo DEF FinalInv, FreshInv, PaymentInv, TypeOK, RequestState
<1>2. CASE Select(r)
  BY <1>1, <1>2 DEF Select, rows, After, Goto, At, FinalInv, FreshInv, PaymentInv, TypeOK
<1>3. CASE At(r, "update")
  <2>1. pay[p].status = "pending"
    BY <1>1, <1>3 DEF FinalInv, UpdatesPending
  <2>2. ASSUME NEW q \in Requests, Insert(q) PROVE pay'[p].status = "pending"
    BY <2>1, <2>2, Inserts
  <2>3. ASSUME NEW q \in Requests, Update(q) PROVE pay'[p].status = "pending"
    <3>1. q # r
      BY <2>3, Updates DEF At
    <3>2. req[q].payment # p
      BY <1>1, <1>3, <2>3, <3>1 DEF FinalInv, AloneWithPayment, Update
    <3> QED
      BY <2>1, <2>3, <3>2, Updates
  <2> QED
    BY <1>1, <2>1, <2>2, <2>3, PaymentMoves
<1> QED
  BY <1>2, <1>3, WhereTo

LEMMA OneEventStays ==
  ASSUME FinalInv, [Next]_vars
  PROVE  OneEvent'
<1>a. FreshInv
  BY DEF FinalInv
<1> USE <1>a
<1> SUFFICES ASSUME NEW p \in Payments
             PROVE  events'[p] = IF pay'[p].status = "succeeded" THEN 1 ELSE 0
  BY DEF OneEvent
<1>1. events[p] = IF pay[p].status = "succeeded" THEN 1 ELSE 0
  BY DEF FinalInv, OneEvent
<1>2. ASSUME NEW r \in Requests, Insert(r)
      PROVE  events'[p] = IF pay'[p].status = "succeeded" THEN 1 ELSE 0
  BY <1>1, <1>2, Inserts
<1>3. ASSUME NEW r \in Requests, Update(r)
      PROVE  events'[p] = IF pay'[p].status = "succeeded" THEN 1 ELSE 0
  BY <1>1, <1>3, Updates
<1> QED
  BY <1>1, <1>2, <1>3, PaymentMoves

LEMMA FinalInvStays ==
  ASSUME ~PaymentOverlap
  PROVE  FinalInv /\ [Next]_vars => FinalInv'
<1> SUFFICES ASSUME FinalInv, [Next]_vars PROVE FinalInv'
  OBVIOUS
<1>1. FreshInv'
  BY FreshInvStays DEF FinalInv
<1> QED
  BY <1>1, AloneStays, PendingStays, OneEventStays DEF FinalInv

------------------------------------------------------------------------------
(* What is answered holds: whatever sends a request to "succeed", and the record it
   leaves behind, says what AnswersHold says of the answer. *)

Holds(r, p) ==
  CASE Req[r].kind = "create"  -> pay[p].status # "none" /\ OrderOf[p] = Req[r].order
    [] Req[r].kind = "confirm" -> p = Req[r].payment /\ pay[p].status = "succeeded"
    [] Req[r].kind = "close"   -> pay[p].status = "closed"

SuccessHolds ==
  \A r \in Requests : At(r, "succeed") \/ req[r].answer = "ok" => Holds(r, req[r].payment)

RecordHolds ==
  \A r \in Requests : rec[Key(r)].status = "succeeded" => Holds(r, rec[Key(r)].payment)

AnsweredIsDone == \A r \in Requests : req[r].answer = "ok" => At(r, "done")

\* Only a creation turns to another payment than the one it was sent with.
OwnPayment ==
  \A r \in Requests :
    Req[r].kind # "create" /\ ~At(r, "done") => req[r].payment = Req[r].payment

(* The inductive invariant behind AnswersOutlast. *)
AnswerInv ==
  /\ FinalInv
  /\ SuccessHolds
  /\ RecordHolds
  /\ AnsweredIsDone
  /\ OwnPayment

LEMMA InitAnswers == Init => AnswerInv
<1> SUFFICES ASSUME Init PROVE AnswerInv
  OBVIOUS
<1>1. FinalInv
  BY InitFinal
<1>2. SuccessHolds /\ AnsweredIsDone /\ OwnPayment
  BY DEF Init, SuccessHolds, AnsweredIsDone, OwnPayment, At
<1>3. RecordHolds
  BY KeysTyped DEF Init, RecordHolds, Row
<1> QED
  BY <1>1, <1>2, <1>3 DEF AnswerInv

LEMMA KindsOf == \A r \in Requests : Req[r].kind \in {"create", "confirm", "close"}
BY RequestsAssumption DEF Kinds

LEMMA HoldsStays ==
  ASSUME FinalInv, [Next]_vars, NEW r \in Requests, NEW p \in Payments, Holds(r, p)
  PROVE  Holds(r, p)'
<1>1. pay[p].status \in Settled => pay'[p] = pay[p]
  BY RowsStay
<1>2. pay[p].status # "none" => pay'[p].status # "none"
  BY RowsStay
<1> QED
  BY <1>1, <1>2, KindsOf DEF Holds, Settled

\* Requests with one key are answered alike.
LEMMA HoldsAlike ==
  ASSUME NEW q \in Requests, NEW r \in Requests, Key(q) = Key(r), NEW p \in Payments, Holds(r, p)
  PROVE  Holds(q, p)
<1>1. Req[q].kind = Req[r].kind
  BY DEF Key
<1>2. CASE Req[r].kind = "create"
  BY <1>1, <1>2, RequestsAssumption DEF Holds, Creates
<1>3. CASE Req[r].kind = "confirm"
  BY <1>1, <1>3, RequestsAssumption DEF Holds, Confirms, Bill
<1>4. CASE Req[r].kind = "close"
  BY <1>1, <1>4 DEF Holds
<1> QED
  BY <1>2, <1>3, <1>4, KindsOf

\* What a step of a request leaves it with.
LEMMA Answering ==
  ASSUME AnswerInv, [Next]_vars, NEW r \in Requests
  PROVE  /\ At(r, "succeed")' => Holds(r, req[r].payment)'
         /\ req'[r].answer = "ok" => At(r, "done")' /\ Holds(r, req[r].payment)'
         /\ Req[r].kind # "create" /\ ~At(r, "done")' => req'[r].payment = Req[r].payment
<1> USE DEF AnswerInv, FinalInv, FreshInv, PaymentInv, At
<1> DEFINE Thus ==
      /\ At(r, "succeed")' => Holds(r, req[r].payment)'
      /\ req'[r].answer = "ok" => At(r, "done")' /\ Holds(r, req[r].payment)'
      /\ Req[r].kind # "create" /\ ~At(r, "done")' => req'[r].payment = Req[r].payment
<1>1. req[r].payment \in Payments /\ Req[r].payment \in Payments
  BY RequestsAssumption DEF TypeOK, RequestState
<1>2. CASE req'[r] = req[r]
  <2>1. \A p \in Payments : Holds(r, p) => Holds(r, p)'
    BY HoldsStays
  <2>2. At(r, "succeed") \/ req[r].answer = "ok" => Holds(r, req[r].payment)
    BY DEF SuccessHolds
  <2>3. \A p \in Payments : Holds(r, p)' /\ p = req'[r].payment => Holds(r, req[r].payment)'
    BY DEF Holds
  <2> QED
    BY <1>1, <1>2, <2>1, <2>2, <2>3 DEF AnsweredIsDone, OwnPayment
\* To anywhere but "succeed" and an answer of "ok".
<1>3. ASSUME NEW pc, Goto(r, pc), pc # "succeed", ~At(r, "done") PROVE Thus
  BY <1>3 DEF Goto, TypeOK, RequestState, AnsweredIsDone, OwnPayment
<1>4. ASSUME NEW a, Answer(r, a), a # "ok" PROVE Thus
  BY <1>4 DEF Answer, Become, TypeOK, RequestState
<1>5. ASSUME NEW p, NEW st, Transit(r, p, st), Req[r].kind # "create" => p = Req[r].payment,
             ~At(r, "done")
      PROVE  Thus
  BY <1>5 DEF Transit, Become, TypeOK, RequestState, AnsweredIsDone
\* To "succeed" and to "ok".
<1>6. ASSUME NEW p \in Payments, req'[r].payment = p, Holds(r, p)',
             req'[r].pc \in {"succeed", "done"}, req'[r].pc = "succeed" => req'[r].answer # "ok",
             Req[r].kind # "create" => p = Req[r].payment \/ req'[r].pc = "done"
      PROVE  Thus
  BY <1>6 DEF Holds
<1>7. ASSUME Goto(r, "succeed"), ~At(r, "done"), Holds(r, req[r].payment),
             UNCHANGED pay
      PROVE  Thus
  <2>1. req'[r].payment = req[r].payment /\ req'[r].pc = "succeed" /\ req'[r].answer # "ok"
    BY <1>7 DEF Goto, TypeOK, RequestState, AnsweredIsDone
  <2> QED
    BY <1>1, <1>6, <1>7, <2>1, HoldsStays DEF OwnPayment
<1>8. CASE Find(r) \/ Claim(r) \/ Reclaim(r)
  <2>1. ASSUME rec[Key(r)].status = "succeeded", AnswerWith(r, rec[Key(r)].payment), UNCHANGED pay
        PROVE  Thus
    <3>1. PICK p \in Payments : p = rec[Key(r)].payment
      BY <2>1, KeysTyped DEF PaidInv, RecordNames
    <3>2. Holds(r, p)'
      BY <2>1, <3>1, HoldsStays DEF RecordHolds
    <3>3. req'[r].payment = p /\ req'[r].pc = "done"
      BY <2>1, <3>1 DEF AnswerWith, Become, TypeOK, RequestState
    <3> QED
      BY <3>2, <3>3, <1>6
  <2> QED
    BY <1>8, <2>1, <1>3, <1>4 DEF Find, Claim, Reclaim, Owned, rows
<1>9. CASE Mark(r)
  <2>1. CASE At(r, "succeed") /\ Answer(r, "ok")
    <3>1. PICK p \in Payments : p = req[r].payment
      BY <1>1
    <3>2. Holds(r, p)'
      BY <2>1, <3>1, HoldsStays DEF SuccessHolds
    <3>3. req'[r].payment = p /\ req'[r].pc = "done"
      BY <2>1, <3>1 DEF Answer, Become, TypeOK, RequestState
    <3> QED
      BY <3>2, <3>3, <1>6
  <2> QED
    BY <1>9, <2>1, <1>4 DEF Mark
<1>10. CASE List(r)
  BY <1>10 DEF List, Become, TypeOK, RequestState, AnsweredIsDone, CreatesCreate, Creating
\* A creation that found its payment.
<1>11. ASSUME NEW p \in OfOrder(Req[r].order), NEW todo, Req[r].kind = "create",
              Become(r, [req[r] EXCEPT !.pc = "succeed", !.payment = p, !.todo = todo]),
              ~At(r, "done"), UNCHANGED pay
       PROVE  Thus
  <2>1. p \in Payments /\ Holds(r, p)
    BY <1>11 DEF OfOrder, Holds
  <2>2. req'[r].payment = p /\ req'[r].pc = "succeed" /\ req'[r].answer # "ok"
    BY <1>11 DEF Become, TypeOK, RequestState, AnsweredIsDone
  <2> QED
    BY <1>6, <1>11, <2>1, <2>2, HoldsStays
<1>12. CASE Scan(r)
  <2>1. Req[r].kind = "create"
    BY <1>12 DEF Scan, CreatesCreate, Creating
  <2>2. ASSUME NEW p \in DOMAIN req[r].todo PROVE p \in OfOrder(Req[r].order)
    BY <2>2 DEF TodoOfOrder
  <2>3. ASSUME NEW p, NEW todo,
               Become(r, [req[r] EXCEPT !.pc = "select", !.payment = p, !.to = "closed",
                                        !.todo = todo])
        PROVE  Thus
    BY <1>12, <2>1, <2>3 DEF Scan, Become, TypeOK, RequestState, AnsweredIsDone
  <2> QED
    BY <1>12, <2>1, <2>2, <2>3, <1>3, <1>11 DEF Scan, rows
<1>13. CASE CheckOrder(r) \/ InsertConflict(r)
  BY <1>13, <1>3 DEF CheckOrder, InsertConflict
<1>14. CASE Insert(r)
  <2>1. r \in Creates /\ Req[r].kind = "create" /\ OrderOf[Req[r].payment] = Req[r].order
    BY <1>14, Inserts, RequestsAssumption DEF Creates
  <2>2. Holds(r, Req[r].payment)'
    BY <1>14, <2>1, Inserts DEF Holds
  <2>3. CASE Become(r, [req[r] EXCEPT !.pc = "succeed", !.payment = Req[r].payment])
    <3>1. /\ req'[r].payment = Req[r].payment /\ req'[r].pc = "succeed"
          /\ req'[r].answer # "ok"
      BY <1>14, <2>3 DEF Insert, Become, TypeOK, RequestState, AnsweredIsDone
    <3> QED
      BY <1>1, <1>6, <2>2, <3>1
  <2> QED
    BY <1>14, <2>3, <1>3 DEF Insert
<1>15. CASE Reuse(r)
  <2>1. Req[r].kind = "create"
    BY <1>15 DEF Reuse, CreatesCreate, Creating
  <2>2. ASSUME NEW p \in OfOrder(Req[r].order),
               Become(r, [req[r] EXCEPT !.pc = "succeed", !.payment = p]), UNCHANGED pay
        PROVE  Thus
    <3>1. p \in Payments /\ Holds(r, p)
      BY <2>1 DEF OfOrder, Holds
    <3>2. req'[r].payment = p /\ req'[r].pc = "succeed" /\ req'[r].answer # "ok"
      BY <1>15, <2>2 DEF Reuse, Become, TypeOK, RequestState, AnsweredIsDone
    <3> QED
      BY <1>6, <2>1, <2>2, <3>1, <3>2, HoldsStays
  <2> QED
    BY <1>15, <2>2, <1>3 DEF Reuse, rows
<1>16. CASE LoadForConfirm(r) \/ LoadForClose(r)
  <2>1. req[r].payment = Req[r].payment
    BY <1>16 DEF LoadForConfirm, LoadForClose, OwnPayment
  <2>2. CASE Goto(r, "succeed")
    <3>1. Holds(r, req[r].payment)
      BY <1>16, <2>1, <2>2, ZenonT(60) DEF LoadForConfirm, LoadForClose, Holds, Goto, Transit, Become,
         TypeOK, RequestState
    <3> QED
      BY <1>16, <2>2, <3>1, <1>7 DEF LoadForConfirm, LoadForClose, rows
  <2> QED
    BY <1>16, <2>2, <1>3, <1>5 DEF LoadForConfirm, LoadForClose
<1>17. CASE Answered(r) \/ TimedOut(r)
  BY <1>17, <1>3, <1>5 DEF Answered, TimedOut
<1>18. CASE Select(r)
  BY <1>18, <1>3 DEF Select, After
<1>19. CASE Update(r)
  <2>1. CASE Goto(r, "succeed")
    <3>1. req'[r].payment = req[r].payment /\ req'[r].pc = "succeed" /\ req'[r].answer # "ok"
      BY <1>19, <2>1 DEF Update, Goto, TypeOK, RequestState, AnsweredIsDone
    <3>2. Req[r].kind # "create" /\ ~(Req[r].kind = "confirm" /\ req[r].to = "closed")
      BY <1>19, <3>1 DEF Update, Goto, After, TypeOK, RequestState
    <3>3. req[r].payment = Req[r].payment
      BY <1>19, <3>2 DEF Update, OwnPayment
    <3>4. req[r].to = "succeeded" => Req[r].kind = "confirm"
      BY <1>19 DEF Update, PaidInv, SucceedingIsPaid, Succeeding
    <3>5. pay'[req[r].payment].status = IF Req[r].kind = "confirm" THEN "succeeded" ELSE "closed"
      BY <1>19, <3>2, <3>4, Updates
    <3>6. Holds(r, Req[r].payment)'
      BY <3>2, <3>3, <3>5, KindsOf DEF Holds
    <3> QED
      BY <1>1, <1>6, <3>1, <3>3, <3>6
  <2>2. ASSUME NEW ok \in BOOLEAN, Goto(r, After(r, ok)), After(r, ok) # "succeed" PROVE Thus
    BY <1>19, <2>2, <1>3 DEF Update
  <2> QED
    BY <1>19, <2>1, <2>2 DEF Update
<1>20. CASE DbError(r) \/ Crash(r)
  BY <1>20, <1>3, <1>4 DEF DbError, Crash, After
<1>21. RequestStep(r) => Thus
  BY <1>8, <1>9, <1>10, <1>12, <1>13, <1>14, <1>15, <1>16, <1>17, <1>18, <1>19, <1>20
  DEF RequestStep
<1>22. Thus
  BY <1>2, <1>20, <1>21, OwnStep
<1> QED
  BY <1>22

LEMMA RecordHoldsStays ==
  ASSUME AnswerInv, [Next]_vars
  PROVE  RecordHolds'
<1> USE DEF AnswerInv, FinalInv, FreshInv, PaymentInv
<1> SUFFICES ASSUME NEW q \in Requests, rec'[Key(q)].status = "succeeded"
             PROVE  Holds(q, rec[Key(q)].payment)'
  BY DEF RecordHolds
<1>1. Key(q) \in Keys
  BY KeysTyped
<1>2. ASSUME NEW p \in Payments, Holds(q, p), rec'[Key(q)].payment = p
      PROVE  Holds(q, rec[Key(q)].payment)'
  <2>1. Holds(q, p)'
    BY <1>2, HoldsStays
  <2> QED
    BY <1>2, <2>1 DEF Holds
<1>3. CASE rec'[Key(q)] = rec[Key(q)]
  <2>1. PICK p \in Payments : p = rec[Key(q)].payment
    BY <1>1, <1>3 DEF PaidInv, RecordNames
  <2>2. Holds(q, p)
    BY <1>3, <2>1 DEF RecordHolds
  <2> QED
    BY <1>2, <1>3, <2>1, <2>2
<1>4. ASSUME NEW r \in Requests, Claim(r) PROVE rec'[Key(q)] = rec[Key(q)]
  BY <1>1, <1>4 DEF Claim, Row, TypeOK
<1>5. ASSUME NEW r \in Requests, Mark(r), rec'[Key(q)] # rec[Key(q)]
      PROVE  Holds(q, rec[Key(q)].payment)'
  <2>1. At(r, "succeed") /\ Key(q) = Key(r) /\ rec'[Key(q)].payment = req[r].payment
    BY <1>1, <1>5 DEF Mark, Row, TypeOK
  <2>2. PICK p \in Payments : p = req[r].payment
    BY DEF TypeOK, RequestState
  <2>3. Holds(r, p)
    BY <2>1, <2>2 DEF SuccessHolds
  <2>4. Holds(q, p)
    BY <2>1, <2>3, HoldsAlike
  <2> QED
    BY <1>2, <2>1, <2>2, <2>4
<1>6. UNCHANGED rec \/ \E r \in Requests : Claim(r) \/ Mark(r)
  BY DEF Next, RequestStep, Find, Reclaim, List, Scan, CheckOrder, Insert, InsertConflict, Reuse,
     LoadForConfirm, Answered, TimedOut, LoadForClose, Select, Update, DbError, Crash, Expire,
     OrderStep, OrderClaims, OrderChecks, OrderConfirms, OrderRefuses, OrderEnds, vars
<1> QED
  BY <1>3, <1>4, <1>5, <1>6

LEMMA AnswerInvStays ==
  ASSUME ~PaymentOverlap
  PROVE  AnswerInv /\ [Next]_vars => AnswerInv'
<1> SUFFICES ASSUME AnswerInv, [Next]_vars PROVE AnswerInv'
  OBVIOUS
<1>1. FinalInv'
  BY FinalInvStays DEF AnswerInv
<1>2. SuccessHolds' /\ AnsweredIsDone' /\ OwnPayment'
  BY Answering DEF SuccessHolds, AnsweredIsDone, OwnPayment
<1> QED
  BY <1>1, <1>2, RecordHoldsStays DEF AnswerInv

------------------------------------------------------------------------------
(* Why a paid order and its payment can come apart: the confirmation that had the order paid
   is on its way to move the payment on, or something stopped it, and what stopped it is
   never undone. *)

CallInv ==
  \A r \in Requests :
    /\ req[r].pc \in {"start", "claim", "load"} => call[r].state = "none"
    /\ call[r].state \in {"sent", "open", "update"} =>
         ~call[r].waiting \/ req[r].pc \in {"await", "dead"}
    /\ req[r].answer # "none" => At(r, "done")

Stopped(r) ==
  \/ At(r, "dead")
  \/ call[r].state # "none" /\ ~call[r].waiting
  \/ call[r].state = "failed"
  \/ /\ "db_error" \in Faults
     /\ call[r].state = "ok" /\ (At(r, "fail") \/ req[r].answer = "error")

OnItsWay(r) ==
  \/ call[r].state # "none" /\ At(r, "await")
  \/ call[r].state = "ok" /\ Succeeding(r)

\* Where the confirmation that paid order OrderOf[p] for p under trade number t stands.
Accounted(p, t) ==
  \/ pay[p].status \in Settled
  \/ \E r \in Confirms : Bill(r) = <<p, t>> /\ (Stopped(r) \/ OnItsWay(r))

(* The inductive invariant behind PaymentsInStep. *)
StepInv ==
  /\ FreshInv
  /\ CallInv
  /\ \A p \in Payments, t \in {Req[r].trade : r \in Confirms} : PaidBy(p, t) => Accounted(p, t)

LEMMA InitStep == Init => StepInv
<1> SUFFICES ASSUME Init PROVE StepInv
  OBVIOUS
<1>1. CallInv
  BY DEF Init, CallInv
<1>2. ASSUME NEW p \in Payments, NEW t PROVE ~PaidBy(p, t)
  BY PaymentsAssumption DEF Init, PaidBy
<1> QED
  BY <1>1, <1>2, InitFresh DEF StepInv

\* The call of a request is made once, by itself, and answered by the order service alone.
LEMMA CallMoves ==
  ASSUME FreshInv, CallInv, [Next]_vars, NEW r \in Requests
  PROVE  \/ call'[r] = call[r]
         \/ /\ LoadForConfirm(r) /\ call[r].state = "none" /\ At(r, "await")'
            /\ call'[r].waiting
         \/ TimedOut(r) /\ call'[r].state = call[r].state /\ ~call'[r].waiting
         \/ /\ call[r].state \in {"sent", "open", "update"} /\ call'[r].state \in {"open", "update", "ok", "failed"}
            /\ call'[r].waiting = call[r].waiting /\ req' = req
<1> USE DEF FreshInv, PaymentInv, TypeOK, CallState
<1>1. ASSUME NEW q \in Requests, LoadForConfirm(q) \/ TimedOut(q), q # r
      PROVE  call'[r] = call[r]
  BY <1>1 DEF LoadForConfirm, TimedOut
<1>2. CASE LoadForConfirm(r)
  <2>1. CASE UNCHANGED call
    BY <2>1
  <2>2. CASE /\ Goto(r, "await")
             /\ call' = [call EXCEPT ![r] = [state |-> "sent", waiting |-> TRUE]]
    BY <1>2, <2>2 DEF LoadForConfirm, CallInv, At, Goto, RequestState
  <2> QED
    BY <1>2, <2>1, <2>2 DEF LoadForConfirm
<1>3. CASE TimedOut(r)
  BY <1>3 DEF TimedOut
<1>4. ASSUME NEW q \in Requests, OrderStep(q)
      PROVE  \/ call'[r] = call[r]
             \/ /\ call[r].state \in {"sent", "open", "update"} /\ call'[r].state \in {"open", "update", "ok", "failed"}
                /\ call'[r].waiting = call[r].waiting /\ req' = req
  BY <1>4 DEF OrderStep, OrderClaims, OrderChecks, OrderConfirms, OrderRefuses, OrderAnswers
<1>5. \/ UNCHANGED call
      \/ \E q \in Requests : LoadForConfirm(q) \/ TimedOut(q) \/ OrderStep(q)
  BY DEF Next, RequestStep, Find, Claim, Reclaim, Mark, List, Scan, CheckOrder, Insert,
     InsertConflict, Reuse, Answered, LoadForClose, Select, Update, DbError, Crash, Expire,
     OrderEnds, orderVars, vars
<1> QED
  BY <1>1, <1>2, <1>3, <1>4, <1>5

\* What is over stays over, and a request answers when it is done.
LEMMA EndsAndAnswers ==
  ASSUME FreshInv, CallInv, [Next]_vars, NEW r \in Requests
  PROVE  /\ req[r].pc \in {"done", "dead"} => req'[r] = req[r]
         /\ req'[r].answer # req[r].answer => At(r, "done")'
         /\ req'[r].pc \in {"start", "claim", "load"} => req[r].pc \in {"start", "claim", "load"}
         /\ At(r, "fail") =>
              req'[r].pc \in {"fail", "dead"} \/ (At(r, "done")' /\ req'[r].answer = "error")
<1> USE DEF FreshInv, PaymentInv, At
<1> DEFINE Thus ==
      /\ req[r].pc \in {"done", "dead"} => req'[r] = req[r]
      /\ req'[r].answer # req[r].answer => req'[r].pc = "done"
      /\ req'[r].pc \in {"start", "claim", "load"} => req[r].pc \in {"start", "claim", "load"}
      /\ req[r].pc = "fail" =>
           req'[r].pc \in {"fail", "dead"} \/ (req'[r].pc = "done" /\ req'[r].answer = "error")
<1>1. ASSUME NEW pc, Goto(r, pc), req[r].pc \notin {"done", "dead"},
             req[r].pc = "fail" => pc = "dead",
             pc \in {"start", "claim", "load"} => req[r].pc \in {"start", "claim", "load"}
      PROVE  Thus
  BY <1>1 DEF Goto, TypeOK, RequestState
<1>2. ASSUME NEW state, Become(r, state), req[r].pc \notin {"done", "dead", "fail"},
             state.pc \in {"scan", "select", "succeed", "done"},
             state.pc = "done" \/ state.answer = req[r].answer
      PROVE  Thus
  BY <1>2 DEF Become, TypeOK
<1>3. ASSUME NEW a, Answer(r, a), req[r].pc \notin {"done", "dead"},
             req[r].pc = "fail" => a = "error"
      PROVE  Thus
  BY <1>3 DEF Answer, Become, TypeOK, RequestState
<1>4. ASSUME NEW p, AnswerWith(r, p), req[r].pc \notin {"done", "dead", "fail"} PROVE Thus
  BY <1>4, <1>2 DEF AnswerWith, TypeOK, RequestState
<1>5. ASSUME NEW p, NEW st, Transit(r, p, st), req[r].pc \notin {"done", "dead", "fail"} PROVE Thus
  BY <1>5, <1>2 DEF Transit, TypeOK, RequestState
<1>6. ASSUME NEW ok \in BOOLEAN, Goto(r, After(r, ok)), req[r].pc \in {"select", "update"} PROVE Thus
  BY <1>6, <1>1 DEF After
<1>7. CASE req'[r] = req[r]
  BY <1>7
<1>8. CASE Find(r) \/ Claim(r) \/ Reclaim(r) \/ Mark(r)
  BY <1>8, <1>1, <1>3, <1>4 DEF Find, Claim, Reclaim, Mark, Owned
<1>9. CASE List(r) \/ Scan(r)
  BY <1>9, <1>1, <1>2 DEF List, Scan, TypeOK, RequestState
<1>10. CASE CheckOrder(r) \/ Insert(r) \/ InsertConflict(r) \/ Reuse(r)
  BY <1>10, <1>1, <1>2 DEF CheckOrder, Insert, InsertConflict, Reuse, TypeOK, RequestState
<1>11. CASE LoadForConfirm(r) \/ Answered(r) \/ TimedOut(r) \/ LoadForClose(r)
  BY <1>11, <1>1, <1>5 DEF LoadForConfirm, Answered, TimedOut, LoadForClose
<1>12. CASE Select(r) \/ Update(r)
  BY <1>12, <1>1, <1>6 DEF Select, Update
<1>13. CASE DbError(r) \/ Crash(r)
  BY <1>13, <1>1, <1>3, <1>6 DEF DbError, Crash
<1>14. RequestStep(r) => Thus
  BY <1>8, <1>9, <1>10, <1>11, <1>12, <1>13 DEF RequestStep
<1>15. Thus
  BY <1>7, <1>13, <1>14, OwnStep
<1> QED
  BY <1>15

\* From where it waits for the order service a request moves on when it was answered, has
\* timed out or died.
LEMMA LeavesAwait ==
  ASSUME FreshInv, CallInv, [Next]_vars, NEW r \in Requests, At(r, "await")
  PROVE  \/ req'[r] = req[r]
         \/ TimedOut(r)
         \/ At(r, "dead")'
         \/ call[r].state = "ok" /\ Succeeding(r)' /\ call'[r] = call[r]
         \/ call[r].state = "failed" /\ call'[r] = call[r]
<1> USE DEF FreshInv, PaymentInv, At
<1>1. CASE Answered(r)
  BY <1>1 DEF Answered, Transit, Become, Succeeding, TypeOK, RequestState
<1>2. CASE Crash(r)
  BY <1>2 DEF Crash, Goto, TypeOK, RequestState
<1>3. RequestStep(r) => Answered(r) \/ TimedOut(r)
  BY DEF RequestStep, Find, Claim, Reclaim, Mark, List, Scan, CheckOrder, Insert,
     InsertConflict, Reuse, LoadForConfirm, LoadForClose, Select, Update, DbError
<1> QED
  BY <1>1, <1>2, <1>3, OwnStep

LEMMA CallInvStays ==
  ASSUME FreshInv, CallInv, [Next]_vars
  PROVE  CallInv'
<1> USE DEF FreshInv, PaymentInv, At
<1> SUFFICES ASSUME NEW r \in Requests
             PROVE  /\ req'[r].pc \in {"start", "claim", "load"} => call'[r].state = "none"
                    /\ call'[r].state \in {"sent", "open", "update"} =>
                         ~call'[r].waiting \/ req'[r].pc \in {"await", "dead"}
                    /\ req'[r].answer # "none" => req'[r].pc = "done"
  BY DEF CallInv
<1>1. ASSUME req'[r].pc \in {"start", "claim", "load"} PROVE call'[r].state = "none"
  BY <1>1, CallMoves, EndsAndAnswers DEF CallInv, TimedOut
<1>2. ASSUME call'[r].state \in {"sent", "open", "update"}
      PROVE  ~call'[r].waiting \/ req'[r].pc \in {"await", "dead"}
  <2>1. CASE call'[r] = call[r]
    <3>1. TimedOut(r) => ~call'[r].waiting
      BY DEF TimedOut, TypeOK, CallState
    <3> QED
      BY <1>2, <2>1, <3>1, EndsAndAnswers, LeavesAwait DEF CallInv
  <2> QED
    BY <1>2, <2>1, CallMoves DEF CallInv
<1>3. ASSUME req'[r].answer # "none" PROVE req'[r].pc = "done"
  BY <1>3, EndsAndAnswers DEF CallInv
<1> QED
  BY <1>1, <1>2, <1>3

\* What stopped a confirmation is never undone.
LEMMA StoppedStays ==
  ASSUME FreshInv, CallInv, [Next]_vars, NEW r \in Requests, Stopped(r)
  PROVE  Stopped(r)'
<1> USE DEF FreshInv, PaymentInv, At
<1>1. CASE req[r].pc = "dead"
  BY <1>1, EndsAndAnswers DEF Stopped
<1>2. CASE call[r].state # "none" /\ ~call[r].waiting
  BY <1>2, CallMoves DEF Stopped
<1>3. CASE call[r].state = "failed"
  BY <1>3, CallMoves DEF Stopped
<1>4. CASE /\ "db_error" \in Faults
           /\ call[r].state = "ok" /\ (req[r].pc = "fail" \/ req[r].answer = "error")
  <2>1. \/ call'[r] = call[r]
        \/ call'[r].state = "ok" /\ ~call'[r].waiting
    BY <1>4, CallMoves
  <2>2. req'[r].pc \in {"fail", "dead"} \/ req'[r].answer = "error"
    BY <1>4, EndsAndAnswers DEF CallInv
  <2> QED
    BY <1>4, <2>1, <2>2 DEF Stopped
<1> QED
  BY <1>1, <1>2, <1>3, <1>4 DEF Stopped

\* A confirmation on its way goes on, is stopped, or finds or leaves the payment settled.
LEMMA OnItsWayGoesOn ==
  ASSUME FreshInv, CallInv, [Next]_vars, NEW r \in Requests, OnItsWay(r)
  PROVE  \/ Stopped(r)'
         \/ OnItsWay(r)'
         \/ pay'[Req[r].payment].status \in Settled
<1> USE DEF FreshInv, PaymentInv, At
<1>1. CASE call[r].state # "none" /\ req[r].pc = "await"
  <2>1. CASE req'[r] = req[r]
    BY <1>1, <2>1, CallMoves DEF OnItsWay
  <2>2. CASE TimedOut(r)
    <3>1. call'[r].state # "none" /\ ~call'[r].waiting
      BY <1>1, <2>2 DEF TimedOut, TypeOK, CallState
    <3> QED
      BY <3>1 DEF Stopped
  <2> QED
    BY <1>1, <2>1, <2>2, LeavesAwait DEF OnItsWay, Stopped
<1>2. CASE call[r].state = "ok" /\ Succeeding(r)
  <2>1. req[r].payment = Req[r].payment /\ Req[r].kind = "confirm" /\ Req[r].payment \in Payments
    BY <1>2, RequestsAssumption DEF PaidInv, SucceedingIsPaid
  <2>2. call'[r] = call[r]
    BY <1>2, CallMoves DEF Succeeding, LoadForConfirm, TimedOut
  <2>3. After(r, FALSE) = "fail"
    BY <1>2, <2>1 DEF After, Succeeding
  <2>4. CASE req'[r] = req[r]
    BY <1>2, <2>2, <2>4 DEF OnItsWay, Succeeding
  <2>5. CASE Select(r)
    <3>1. CASE pay[Req[r].payment].status = "pending"
      BY <1>2, <2>1, <2>2, <2>5, <3>1 DEF Select, Goto, OnItsWay, Succeeding, TypeOK, RequestState
    <3>2. CASE pay[Req[r].payment].status # "pending"
      <4>1. pay[Req[r].payment].status \in Settled
        BY <2>1, <2>5, <3>2 DEF Select, RowsAreThere, TypeOK, PaymentRow
      <4> QED
        BY <2>1, <4>1, RowsRemain
    <3> QED
      BY <3>1, <3>2
  <2>6. CASE Update(r)
    BY <2>1, <2>6, Writes
  <2>7. CASE DbError(r)
    BY <1>2, <2>2, <2>3, <2>7 DEF DbError, Goto, Stopped, Succeeding, TypeOK, RequestState
  <2>8. CASE Crash(r)
    BY <2>8 DEF Crash, Goto, Stopped, TypeOK, RequestState
  <2>9. RequestStep(r) => Select(r) \/ Update(r) \/ DbError(r)
    BY <1>2 DEF Succeeding, RequestStep, Find, Claim, Reclaim, Mark, List, Scan, CheckOrder,
       Insert, InsertConflict, Reuse, LoadForConfirm, Answered, TimedOut, LoadForClose
  <2> QED
    BY <2>4, <2>5, <2>6, <2>7, <2>8, <2>9, OwnStep
<1> QED
  BY <1>1, <1>2 DEF OnItsWay

\* An order is paid by the call of a confirmation, with its own bill.
LEMMA NewlyPaid ==
  ASSUME FreshInv, CallInv, [Next]_vars, NEW p \in Payments, NEW t, PaidBy(p, t)', ~PaidBy(p, t)
  PROVE  \E r \in Confirms : Bill(r) = <<p, t>> /\ OrderConfirms(r)
<1> USE DEF FreshInv, PaymentInv
<1> DEFINE o == OrderOf[p]
<1>1. o \in Orders
  BY PaymentsAssumption
<1>2. order'[o] # order[o] /\ order'[o].status = "paid" /\ order'[o].payment = <<p, t>>
  BY DEF PaidBy
<1>3. ASSUME NEW q \in Orders, OrderEnds(q) PROVE FALSE
  BY <1>1, <1>2, <1>3 DEF OrderEnds, Book!End, Book!Entry, TypeOK
<1>4. PICK r \in Requests : OrderConfirms(r)
  BY <1>2, <1>3 DEF Next, RequestStep, Find, Claim, Reclaim, Mark, List, Scan, CheckOrder, Insert,
     InsertConflict, Reuse, LoadForConfirm, Answered, TimedOut, LoadForClose, Select, Update,
     DbError, Crash, Expire, OrderStep, OrderClaims, OrderChecks, OrderRefuses, orderVars, vars
<1>5. r \in Confirms
  BY <1>4 DEF OrderConfirms, PaidInv, CallsOfConfirms, Confirms
<1>6. Bill(r) = <<p, t>>
  <2>1. order'[o] = [status |-> "paid", payment |-> Bill(r)]
    BY <1>1, <1>2, <1>4, Confirming
  <2> DEFINE bill == Bill(r)
  <2> HIDE DEF bill
  <2> QED
    BY <1>2, <2>1
<1> QED
  BY <1>4, <1>5, <1>6

LEMMA StepInvStays == StepInv /\ [Next]_vars => StepInv'
<1> SUFFICES ASSUME StepInv, [Next]_vars PROVE StepInv'
  OBVIOUS
<1> USE DEF StepInv
<1>1. FreshInv' /\ CallInv'
  BY FreshInvStays, CallInvStays
<1>2. ASSUME NEW p \in Payments, NEW t \in {Req[r].trade : r \in Confirms}, PaidBy(p, t)'
      PROVE  Accounted(p, t)'
  <2>1. ASSUME NEW r \in Confirms, Bill(r) = <<p, t>>, Stopped(r) \/ OnItsWay(r)
        PROVE  Accounted(p, t)'
    <3>1. r \in Requests /\ Req[r].payment = p
      BY <2>1 DEF Confirms, Bill
    <3>2. Stopped(r)' \/ OnItsWay(r)' \/ pay'[p].status \in Settled
      BY <2>1, <3>1, StoppedStays, OnItsWayGoesOn
    <3> QED
      BY <2>1, <3>2 DEF Accounted, Bill
  <2>2. CASE PaidBy(p, t)
    <3>1. CASE pay[p].status \in Settled
      BY <3>1, RowsRemain DEF Accounted
    <3> QED
      BY <2>1, <2>2, <3>1 DEF Accounted
  <2>3. CASE ~PaidBy(p, t)
    <3>1. PICK r \in Confirms : Bill(r) = <<p, t>> /\ OrderConfirms(r)
      BY <1>2, <2>3, NewlyPaid
    <3>2. r \in Requests /\ call[r].state \in {"open", "update"}
      BY <3>1 DEF OrderConfirms, Confirms
    <3>3. Stopped(r) \/ OnItsWay(r)
      BY <3>2 DEF CallInv, Stopped, OnItsWay, At
    <3> QED
      BY <2>1, <3>1, <3>3
  <2> QED
    BY <2>2, <2>3
<1> QED
  BY <1>1, <1>2

LEMMA StepInvInStep == NoOverwrite /\ StepInv => InStep
<1> SUFFICES ASSUME NoOverwrite, StepInv, AtRest, NEW p \in Payments,
                    NEW t \in {Req[r].trade : r \in Confirms}, PaidBy(p, t),
                    pay[p].status # "succeeded", pay[p].status # "closed"
             PROVE  \E r \in Confirms :
                      /\ Bill(r) = <<p, t>>
                      /\ \/ req[r].pc = "dead"
                         \/ call[r].state # "none" /\ ~call[r].waiting
                         \/ call[r].state = "failed"
                         \/ /\ "db_error" \in Faults
                            /\ call[r].state = "ok" /\ req[r].answer = "error"
  BY DEF StepInv, FreshInv, PaymentInv, PaidInv, BackedByOrder, InStep, UnsettledExplained
<1>1. Accounted(p, t) /\ pay[p].status \notin Settled
  BY DEF StepInv, Settled
<1>2. PICK r \in Confirms : Bill(r) = <<p, t>> /\ (Stopped(r) \/ OnItsWay(r))
  BY <1>1 DEF Accounted
<1>3. req[r].pc \in {"done", "dead"}
  BY DEF AtRest, Confirms
<1> QED
  BY <1>2, <1>3 DEF Stopped, OnItsWay, Succeeding, At

------------------------------------------------------------------------------
(* The theorems. *)

(* When transitions of one payment do not overlap, TransitionStatus never moves a
   payment that has succeeded or was closed, and its trade number stays. *)
THEOREM PaymentsAreFinal == ~PaymentOverlap => (Spec => FinalStatus)
<1> SUFFICES ASSUME ~PaymentOverlap PROVE Spec => FinalStatus
  OBVIOUS
<1>1. FinalInv /\ [Next]_vars =>
        [\A p \in Payments : pay[p].status \in Settled => pay'[p] = pay[p]]_vars
  BY RowsStay
<1> QED
  BY <1>1, InitFinal, FinalInvStays, PTL DEF Spec, FinalStatus

(* When transitions of one payment do not overlap, the outbox holds one
   payment.succeeded event of every payment that succeeded and none of any other. *)
THEOREM OneEventPerSuccess == ~PaymentOverlap => (Spec => []OneEvent)
<1> SUFFICES ASSUME ~PaymentOverlap PROVE Spec => []OneEvent
  OBVIOUS
<1>1. FinalInv => OneEvent
  BY DEF FinalInv
<1> QED
  BY <1>1, InitFinal, FinalInvStays, PTL DEF Spec

(* When transitions of one payment do not overlap, what CreatePayment,
   ConfirmPaymentSuccess and ClosePayment answered with success stays true, whoever
   shares the request_id, retries, dies or times out. *)
THEOREM AnswersOutlast == ~PaymentOverlap => (Spec => []AnswersHold)
<1> SUFFICES ASSUME ~PaymentOverlap PROVE Spec => []AnswersHold
  OBVIOUS
<1>1. AnswerInv => AnswersHold
  BY DEF AnswerInv, SuccessHolds, AnswersHold, Holds
<1> QED
  BY <1>1, InitAnswers, AnswerInvStays, PTL DEF Spec

(* When no confirmation writes its bill over another one, a payment that succeeded has its
   order paid by it, and an order paid by a payment that did not succeed is, at rest, the
   trace of a confirmation that died, stopped waiting, was told of a failure or lost its
   transaction, or of a payment that was closed: for any requests, under every failure,
   whether transitions of a payment overlap or not. *)
THEOREM PaymentsInStep == NoOverwrite => (Spec => []InStep)
<1> SUFFICES ASSUME NoOverwrite PROVE Spec => []InStep
  OBVIOUS
<1> QED
  BY InitStep, StepInvStays, StepInvInStep, PTL DEF Spec
==============================================================================
