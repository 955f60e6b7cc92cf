----------------------------- MODULE OrderProofs -----------------------------
(* Theorems about OrderService, for any orders, requests, stock and failures: its type, one
   order per request_id, how orders and their stock end, and what it implements of OrderBook. *)
EXTENDS OrderService, FunctionTheorems, FiniteSetTheorems, TLAPS

\* What is proved about the inventory service, at the instance used here.
InvP == INSTANCE InventoryProofs WITH
          Workers <- Calls, Baskets <- [o \in Orders |-> {Basket[o]}],
          MaxTotal <- 0, AdjustOverlap <- FALSE

\* The assumptions of Inventory hold at this instance.
LEMMA InventoryAssumptions == InvP!BasketsAssumption /\ InvP!BoundsAssumption
  BY OrdersAssumption DEF InvP!BasketsAssumption, InvP!BoundsAssumption

LEMMA SameNext == InvP!Next <=> Inv!Next
  BY DEF InvP!Next, Inv!Next, InvP!InitSkuStocks, Inv!InitSkuStocks,
         InvP!FreezeSkuStocks, Inv!FreezeSkuStocks, InvP!Begin, Inv!Begin,
         InvP!Reserve, Inv!Reserve, InvP!Release, Inv!Release, InvP!ConfirmDeduct,
         Inv!ConfirmDeduct, InvP!BeginAdjust, Inv!BeginAdjust, InvP!AdjustTotalStock,
         Inv!AdjustTotalStock, InvP!Reject, Inv!Reject, InvP!Abort, Inv!Abort,
         InvP!Items, Inv!Items, InvP!Missing, Inv!Missing, InvP!Held, Inv!Held,
         InvP!SameQuantities, Inv!SameQuantities, InvP!Insertable, Inv!Insertable,
         InvP!CanReserve, Inv!CanReserve, InvP!CanRelease, Inv!CanRelease,
         InvP!CanConfirm, Inv!CanConfirm, InvP!CanCommit, Inv!CanCommit, InvP!Plus,
         Inv!Plus, InvP!Minus, Inv!Minus, InvP!WriteRows, Inv!WriteRows, InvP!Finish,
         Inv!Finish, InvP!OrderOps, Inv!OrderOps, InvP!Touches, Inv!Touches,
         InvP!MayOverlapOrder, Inv!MayOverlapOrder, InvP!MayOverlapAdjust,
         Inv!MayOverlapAdjust, InvP!Snapshot, Inv!Snapshot, InvP!NoRow, Inv!NoRow,
         InvP!Idle, Inv!Idle

LEMMA SameTypes == InvP!TypeOK <=> Inv!TypeOK
  BY DEF InvP!TypeOK, Inv!TypeOK, InvP!TxState, Inv!TxState, InvP!ReservationRow,
         Inv!ReservationRow, InvP!Idle, Inv!Idle, InvP!OrderOps, Inv!OrderOps

LEMMA SameFiniteSets ==
  \A S : /\ InvP!IsFiniteSet(S) <=> IsFiniteSet(S)
         /\ InvP!Cardinality(S) = Cardinality(S)
<1>1. \A S : InvP!IsFiniteSet(S) <=> IsFiniteSet(S)
  BY DEF InvP!IsFiniteSet, IsFiniteSet
<1>2. \A S : InvP!Cardinality(S) = Cardinality(S)
  BY DEF InvP!Cardinality, Cardinality
<1> QED
  BY <1>1, <1>2

LEMMA StockTypeStep ==
  ASSUME Inv!TypeOK, Inv!Next
  PROVE  Inv!TypeOK'
<1>1. InvP!TypeOK' <=> Inv!TypeOK'
  BY DEF InvP!TypeOK, Inv!TypeOK, InvP!TxState, Inv!TxState, InvP!ReservationRow,
         Inv!ReservationRow, InvP!Idle, Inv!Idle, InvP!OrderOps, Inv!OrderOps
<1> QED
  BY <1>1, SameTypes, SameNext, InventoryAssumptions, InvP!TypeStep

LEMMA StockTypeKept ==
  ASSUME Inv!TypeOK, UNCHANGED stockVars
  PROVE  Inv!TypeOK'
  BY DEF Inv!TypeOK, stockVars

------------------------------------------------------------------------------
(* Type correctness.  TypeOK is not inductive: which order a request works on, and
   that a call that was made carries an operation, has to be known as well. *)

Working == {"validate", "load", "await", "persist", "select", "update", "reload",
            "succeed", "fail"}

\* Where a request of r's kind can stand, and on which order.
PlaceOf(r, st) ==
  /\ st.pc \in Working => st.order \in Orders
  /\ r \in Keyed => st.pc # "next" /\ (st.pc \in Working \cup {"start"}
                                        => st.order = Req[r].order)
  /\ r \notin Keyed => st.pc \in {"start", "next", "await", "select", "update",
                                  "done", "dead"}
  /\ st.pc \in {"validate", "persist"} => Req[r].kind = "create"
  /\ st.pc \in {"load", "select", "update"} => Req[r].kind # "create"
  /\ st.pc = "reload" => Req[r].kind = "cancel"

Places == \A r \in Requests : PlaceOf(r, req[r])

CallsMade ==
  \A c \in Calls : call[c].state # "none" => call[c].op \in Inv!OrderOps

TypeInv == TypeOK /\ Places /\ CallsMade

LEMMA KeyedFacts ==
  \A r \in Requests :
    /\ Req[r].kind \in Kinds
    /\ r \in Keyed <=> Req[r].kind # "close"
    /\ r \in Keyed => Req[r].order \in Orders /\ Key(r) \in Keys
  BY RequestsAssumption DEF Keyed, Keys, Key

\* One request changes, to a state that fits it.
LEMMA OneRequestMoves ==
  ASSUME TypeInv, NEW r \in Requests, NEW st \in RequestState, PlaceOf(r, st),
         req' = [req EXCEPT ![r] = st]
  PROVE  req' \in [Requests -> RequestState] /\ Places'
<1>1. req \in [Requests -> RequestState]
  BY DEF TypeInv, TypeOK, OrderTypeOK, RequestState
<1>2. req' \in [Requests -> RequestState]
  BY <1>1
<1>3. ASSUME NEW q \in Requests PROVE PlaceOf(q, req'[q])
  <2>1. CASE q = r
    BY <1>1, <2>1
  <2>2. CASE q # r
    BY <1>1, <2>2 DEF TypeInv, Places, PlaceOf
  <2> QED
    BY <2>1, <2>2
<1> QED
  BY <1>2, <1>3 DEF Places, PlaceOf

\* A request that only moves to another place.
LEMMA GotoTyped ==
  ASSUME TypeInv, NEW r \in Requests, NEW pc, Goto(r, pc),
         pc \in Working \cup {"next", "dead"},
         PlaceOf(r, [req[r] EXCEPT !.pc = pc])
  PROVE  req' \in [Requests -> RequestState] /\ Places'
<1>1. req[r] \in RequestState
  BY DEF TypeInv, TypeOK, OrderTypeOK, RequestState
<1>2. [req[r] EXCEPT !.pc = pc] \in RequestState
  BY <1>1 DEF RequestState, Working
<1>3. req' = [req EXCEPT ![r] = [req[r] EXCEPT !.pc = pc]]
  BY DEF Goto
<1> QED
  BY <1>2, <1>3, OneRequestMoves

\* A request that answers.
LEMMA AnswerTyped ==
  ASSUME TypeInv, NEW r \in Requests, NEW a \in {"ok", "busy", "sealed", "error"}, Answer(r, a)
  PROVE  req' \in [Requests -> RequestState] /\ Places'
<1> DEFINE st == [req[r] EXCEPT !.pc = "done", !.answer = a]
<1>1. req[r] \in RequestState
  BY DEF TypeInv, TypeOK, OrderTypeOK, RequestState
<1>2. st \in RequestState /\ st.pc = "done"
  BY <1>1 DEF RequestState
<1>3. PlaceOf(r, st)
  BY <1>2 DEF PlaceOf, Working
<1>4. req' = [req EXCEPT ![r] = st]
  BY DEF Answer
<1> QED
  BY <1>2, <1>3, <1>4, OneRequestMoves

LEMMA SendTyped ==
  ASSUME TypeInv, NEW r \in Requests, NEW o \in Orders, NEW op \in Inv!OrderOps, Send(r, o, op)
  PROVE  /\ call' \in [Calls -> CallState]
         /\ CallsMade'
<1>1. <<r, o>> \in Calls
  BY DEF Calls
<1> QED
  BY <1>1 DEF TypeInv, TypeOK, OrderTypeOK, Send, CallsMade, CallState

\* A step of the inventory service's side of a call.
LEMMA CallStepTyped ==
  ASSUME TypeInv, NEW c \in Calls, NEW st \in {"open"} \cup Answers, State(c, st),
         call[c].state # "none", Inv!Next \/ UNCHANGED stockVars,
         UNCHANGED <<order, expired, rec, req>>
  PROVE  TypeInv'
<1>1. Inv!TypeOK'
  BY StockTypeStep, StockTypeKept DEF TypeInv, TypeOK
<1>2. /\ call' \in [Calls -> CallState]
      /\ CallsMade'
  BY DEF TypeInv, TypeOK, OrderTypeOK, State, CallsMade, CallState, Answers
<1>3. OrderTypeOK'
  BY <1>2 DEF TypeInv, TypeOK, OrderTypeOK
<1>4. Places'
  BY DEF TypeInv, Places, PlaceOf
<1> QED
  BY <1>1, <1>2, <1>3, <1>4 DEF TypeInv, TypeOK

\* A step of a request.
LEMMA RequestStepTyped ==
  ASSUME TypeInv, UNCHANGED stockVars,
         req' \in [Requests -> RequestState], Places',
         order' \in [Orders -> OrderRow],
         expired' = expired,
         rec' \in [Keys -> RecordRow],
         \/ UNCHANGED call
         \/ \E r \in Requests, o \in Orders, op \in Inv!OrderOps : Send(r, o, op)
         \/ \E c \in Calls : call' = [call EXCEPT ![c].waiting = FALSE]
  PROVE  TypeInv'
<1>1. Inv!TypeOK'
  BY StockTypeKept DEF TypeInv, TypeOK
<1>2. /\ call' \in [Calls -> CallState]
      /\ CallsMade'
  <2>1. CASE UNCHANGED call
    BY <2>1 DEF TypeInv, TypeOK, OrderTypeOK, CallsMade
  <2>2. CASE \E r \in Requests, o \in Orders, op \in Inv!OrderOps : Send(r, o, op)
    BY <2>2, SendTyped
  <2>3. CASE \E c \in Calls : call' = [call EXCEPT ![c].waiting = FALSE]
    <3>1. PICK c \in Calls : call' = [call EXCEPT ![c].waiting = FALSE]
      BY <2>3
    <3>2. call \in [Calls -> CallState]
      BY DEF TypeInv, TypeOK, OrderTypeOK
    <3>3. \A d \in Calls : call'[d].state = call[d].state /\ call'[d].op = call[d].op
      BY <3>1, <3>2
    <3> QED
      BY <3>1, <3>2, <3>3 DEF TypeInv, CallsMade, CallState
  <2> QED
    BY <2>1, <2>2, <2>3
<1>3. OrderTypeOK'
  BY <1>2 DEF TypeInv, TypeOK, OrderTypeOK, RequestState
<1> QED
  BY <1>1, <1>2, <1>3 DEF TypeInv, TypeOK

LEMMA TypeStep == TypeInv /\ [Next]_vars => TypeInv'
<1> SUFFICES ASSUME TypeInv, [Next]_vars PROVE TypeInv'
  OBVIOUS
<1> USE KeyedFacts
<1>a. /\ req \in [Requests -> RequestState]
      /\ order \in [Orders -> OrderRow]
      /\ rec \in [Keys -> RecordRow]
  BY DEF TypeInv, TypeOK, OrderTypeOK, RequestState
<1>b. \A r \in Requests : PlaceOf(r, req[r])
  BY DEF TypeInv, Places
<1>1. ASSUME NEW r \in Requests, Claim(r) PROVE TypeInv'
  <2> USE <1>1 DEF Claim, At
  <2>1. rec' \in [Keys -> RecordRow]
    BY <1>a DEF Row, RecordRow
  <2>2. req' \in [Requests -> RequestState] /\ Places'
    <3>1. CASE Goto(r, IF Req[r].kind = "create" THEN "validate" ELSE "load")
      <4>1. PlaceOf(r, [req[r] EXCEPT !.pc = IF Req[r].kind = "create" THEN "validate"
                                              ELSE "load"])
        BY <1>a, <1>b DEF PlaceOf, Working, RequestState
      <4> QED
        BY <3>1, <4>1, GotoTyped DEF Working
    <3>2. CASE Answer(r, "error")
      BY <3>2, AnswerTyped
    <3> QED
      BY <3>1, <3>2
  <2> QED
    BY <1>a, <2>1, <2>2, RequestStepTyped
<1>2. ASSUME NEW r \in Requests, Replay(r) PROVE TypeInv'
  <2> USE <1>2 DEF Replay, At
  <2>1. req' \in [Requests -> RequestState] /\ Places'
    <3>1. CASE req' = [req EXCEPT ![r].pc = "done", ![r].answer = "ok",
                                  ![r].order = rec[Key(r)].order]
      <4> DEFINE st == [req[r] EXCEPT !.pc = "done", !.answer = "ok",
                                      !.order = rec[Key(r)].order]
      <4>1. st \in RequestState /\ PlaceOf(r, st)
        BY <1>a DEF RequestState, PlaceOf, Working, RecordRow
      <4>2. req' = [req EXCEPT ![r] = st]
        BY <3>1
      <4> QED
        BY <4>1, <4>2, OneRequestMoves
    <3>2. CASE Answer(r, "busy") \/ Answer(r, "sealed")
      BY <3>2, AnswerTyped
    <3> QED
      BY <3>1, <3>2
  <2> QED
    BY <1>a, <2>1, RequestStepTyped
<1>3. ASSUME NEW r \in Requests, Mark(r) PROVE TypeInv'
  <2> USE <1>3 DEF Mark, At
  <2>1. r \in Keyed /\ req[r].order \in Orders
    BY <1>b DEF PlaceOf, Working
  <2>2. rec' \in [Keys -> RecordRow]
    BY <1>a, <2>1 DEF Row, RecordRow
  <2>3. req' \in [Requests -> RequestState] /\ Places'
    BY AnswerTyped
  <2> QED
    BY <1>a, <2>2, <2>3, RequestStepTyped
<1>4. ASSUME NEW r \in Requests, Validate(r) PROVE TypeInv'
  <2> USE <1>4 DEF Validate, At
  <2>1. r \in Keyed /\ req[r].order \in Orders /\ req[r].order = Req[r].order
    BY <1>b DEF PlaceOf, Working, Keyed
  <2>2. \A pc \in {"fail", "await"} : PlaceOf(r, [req[r] EXCEPT !.pc = pc])
    BY <1>a, <2>1 DEF PlaceOf, Working, RequestState
  <2>3. req' \in [Requests -> RequestState] /\ Places'
    BY <2>2, GotoTyped DEF Working
  <2>4. UNCHANGED call \/ \E o \in Orders, op \in Inv!OrderOps : Send(r, o, op)
    BY <2>1 DEF Inv!OrderOps
  <2> QED
    BY <1>a, <2>3, <2>4, RequestStepTyped
<1>5. ASSUME NEW r \in Requests, LoadForCancel(r) \/ LoadForPay(r) PROVE TypeInv'
  <2> USE <1>5 DEF LoadForCancel, LoadForPay, At
  <2>1. r \in Keyed /\ req[r].order \in Orders /\ req[r].order = Req[r].order
    BY <1>b DEF PlaceOf, Working, Keyed
  <2>2. \A pc \in {"fail", "succeed", "await"} : PlaceOf(r, [req[r] EXCEPT !.pc = pc])
    BY <1>a, <2>1 DEF PlaceOf, Working, RequestState
  <2>3. req' \in [Requests -> RequestState] /\ Places'
    BY <2>2, GotoTyped DEF Working
  <2>4. UNCHANGED call \/ \E o \in Orders, op \in Inv!OrderOps : Send(r, o, op)
    BY <2>1 DEF Inv!OrderOps
  <2> QED
    BY <1>a, <2>3, <2>4, RequestStepTyped
<1>6. ASSUME NEW r \in Requests, ListExpired(r) PROVE TypeInv'
  <2> USE <1>6 DEF ListExpired, At
  <2> DEFINE st == [req[r] EXCEPT !.pc = "next",
                      !.todo = {o \in Orders : order[o].status \in Open /\ expired[o]}]
  <2>1. st \in RequestState /\ PlaceOf(r, st)
    BY <1>a DEF RequestState, PlaceOf, Working
  <2>2. req' = [req EXCEPT ![r] = st]
    OBVIOUS
  <2> QED
    BY <1>a, <2>1, <2>2, OneRequestMoves, RequestStepTyped
<1>7. ASSUME NEW r \in Requests, CloseNext(r) PROVE TypeInv'
  <2> USE <1>7 DEF CloseNext, At
  <2>1. r \notin Keyed
    BY <1>b DEF PlaceOf
  <2>2. ASSUME NEW o \in req[r].todo,
               req' = [req EXCEPT ![r].pc = "await", ![r].order = o, ![r].todo = @ \ {o}],
               Send(r, o, "release")
        PROVE  TypeInv'
    <3> DEFINE st == [req[r] EXCEPT !.pc = "await", !.order = o, !.todo = @ \ {o}]
    <3>1. o \in Orders
      BY <1>a DEF RequestState
    <3>2. st \in RequestState /\ PlaceOf(r, st)
      <4>1. /\ req[r] \in RequestState
            /\ req[r].todo \ {o} \in SUBSET Orders
        BY <1>a DEF RequestState
      <4>2. /\ st \in RequestState
            /\ st.pc = "await" /\ st.order = o
        BY <3>1, <4>1 DEF RequestState
      <4> HIDE DEF st
      <4> QED
        BY <2>1, <3>1, <4>2 DEF PlaceOf, Working, Keyed
    <3>3. req' = [req EXCEPT ![r] = st]
      BY <2>2
    <3>4. req' \in [Requests -> RequestState] /\ Places'
      BY <3>2, <3>3, OneRequestMoves
    <3>5. \E q \in Requests, d \in Orders, op \in Inv!OrderOps : Send(q, d, op)
      BY <2>2, <3>1 DEF Inv!OrderOps
    <3> QED
      BY <1>a, <3>4, <3>5, RequestStepTyped
  <2>3. CASE Answer(r, "ok") /\ UNCHANGED call
    BY <1>a, <2>3, AnswerTyped, RequestStepTyped
  <2> QED
    BY <2>2, <2>3
<1>8. ASSUME NEW r \in Requests, Answered(r) PROVE TypeInv'
  <2> USE <1>8 DEF Answered, At, OnError
  <2>1. req[r].order \in Orders /\ (r \in Keyed => req[r].order = Req[r].order)
    BY <1>b DEF PlaceOf, Working
  <2>2. PICK pc : /\ Goto(r, pc)
                  /\ \/ pc = "fail" /\ r \in Keyed
                     \/ pc = "next" /\ r \notin Keyed
                     \/ pc = "persist" /\ Req[r].kind = "create"
                     \/ pc = "select" /\ Req[r].kind # "create"
    OBVIOUS
  <2>3. PlaceOf(r, [req[r] EXCEPT !.pc = pc]) /\ pc \in Working \cup {"next", "dead"}
    BY <1>a, <2>1, <2>2 DEF PlaceOf, Working, RequestState, Keyed
  <2> QED
    BY <1>a, <2>2, <2>3, GotoTyped, RequestStepTyped
<1>9. ASSUME NEW r \in Requests, TimedOut(r) PROVE TypeInv'
  <2> USE <1>9 DEF TimedOut, At, OnError
  <2>1. /\ req[r].order \in Orders /\ (r \in Keyed => req[r].order = Req[r].order)
        /\ <<r, req[r].order>> \in Calls
    BY <1>b DEF PlaceOf, Working, Calls
  <2>2. PlaceOf(r, [req[r] EXCEPT !.pc = OnError(r)])
    BY <1>a, <2>1 DEF PlaceOf, Working, RequestState
  <2>3. req' \in [Requests -> RequestState] /\ Places'
    BY <2>2, GotoTyped DEF Working
  <2> QED
    BY <1>a, <2>1, <2>3, RequestStepTyped
<1>10. ASSUME NEW r \in Requests, Persist(r) PROVE TypeInv'
  <2> USE <1>10 DEF Persist, At
  <2>1. /\ r \in Keyed /\ req[r].order \in Orders /\ req[r].order = Req[r].order
    BY <1>b DEF PlaceOf, Working, Keyed
  <2>2. \A pc \in {"succeed", "await"} : PlaceOf(r, [req[r] EXCEPT !.pc = pc])
    BY <1>a, <2>1 DEF PlaceOf, Working, RequestState
  <2>3. req' \in [Requests -> RequestState] /\ Places'
    BY <2>2, GotoTyped DEF Working
  <2>4. order' \in [Orders -> OrderRow]
    <3>1. [order[req[r].order] EXCEPT !.status = "reserved"] \in OrderRow
      BY <1>a, <2>1 DEF OrderRow
    <3>2. \/ UNCHANGED order
          \/ order' = [order EXCEPT ![req[r].order] =
                          [order[req[r].order] EXCEPT !.status = "reserved"]]
      OBVIOUS
    <3> QED
      BY <1>a, <2>1, <3>1, <3>2
  <2>5. UNCHANGED call \/ \E o \in Orders, op \in Inv!OrderOps : Send(r, o, op)
    BY <2>1 DEF Inv!OrderOps
  <2> QED
    BY <1>a, <2>3, <2>4, <2>5, RequestStepTyped
<1>11. ASSUME NEW r \in Requests, Select(r) \/ Reload(r) PROVE TypeInv'
  <2> USE <1>11 DEF Select, Reload, At, OnError
  <2>1. req[r].order \in Orders /\ (r \in Keyed => req[r].order = Req[r].order)
    BY <1>b DEF PlaceOf, Working
  <2>2. PICK pc : /\ Goto(r, pc)
                  /\ \/ pc \in {"fail", "succeed"} /\ r \in Keyed
                     \/ pc = "reload" /\ Req[r].kind = "cancel"
                     \/ pc = "next" /\ r \notin Keyed
                     \/ pc = "update"
    BY <1>b DEF PlaceOf, Keyed
  <2>3. PlaceOf(r, [req[r] EXCEPT !.pc = pc]) /\ pc \in Working \cup {"next", "dead"}
    BY <1>a, <1>b, <2>1, <2>2 DEF PlaceOf, Working, RequestState, Keyed
  <2> QED
    BY <1>a, <2>2, <2>3, GotoTyped, RequestStepTyped
<1>12. ASSUME NEW r \in Requests, Update(r) PROVE TypeInv'
  <2> USE <1>12 DEF Update, At, OnError
  <2>1. req[r].order \in Orders /\ (r \in Keyed => req[r].order = Req[r].order)
    BY <1>b DEF PlaceOf, Working
  <2>2. PICK pc : /\ Goto(r, pc)
                  /\ \/ pc \in {"fail", "succeed"} /\ r \in Keyed
                     \/ pc = "next" /\ r \notin Keyed
    BY DEF Keyed
  <2>3. PlaceOf(r, [req[r] EXCEPT !.pc = pc]) /\ pc \in Working \cup {"next", "dead"}
    BY <1>a, <1>b, <2>1, <2>2 DEF PlaceOf, Working, RequestState, Keyed
  <2>4. Transition(r) \in OrderRow
    BY <1>a, <2>1 DEF Transition, Ended, Keyed, OrderRow
  <2>5. order' \in [Orders -> OrderRow]
    BY <1>a, <2>1, <2>4
  <2> QED
    BY <1>a, <2>2, <2>3, <2>5, GotoTyped, RequestStepTyped
<1>13. ASSUME NEW r \in Requests, DbError(r) \/ Crash(r) PROVE TypeInv'
  <2> USE <1>13 DEF DbError, Crash, OnError
  <2>1. CASE Answer(r, "error") /\ UNCHANGED <<order, expired, rec, call, stockVars>>
    BY <1>a, <2>1, AnswerTyped, RequestStepTyped
  <2>2. CASE /\ req[r].pc \in {"load", "select", "update"} /\ Goto(r, OnError(r))
             /\ UNCHANGED <<order, expired, rec, call, stockVars>>
    <3>1. PlaceOf(r, [req[r] EXCEPT !.pc = OnError(r)])
      BY <1>a, <1>b, <2>2 DEF PlaceOf, Working, RequestState, Keyed
    <3> QED
      BY <1>a, <2>2, <3>1, GotoTyped, RequestStepTyped DEF Working
  <2>3. CASE Goto(r, "dead") /\ UNCHANGED <<order, expired, rec, call, stockVars>>
    <3>1. PlaceOf(r, [req[r] EXCEPT !.pc = "dead"])
      BY <1>a DEF PlaceOf, Working, RequestState
    <3> QED
      BY <1>a, <2>3, <3>1, GotoTyped, RequestStepTyped DEF Working
  <2> QED
    BY <2>1, <2>2, <2>3
<1>14. ASSUME NEW o \in Orders, Expire(o) PROVE TypeInv'
  <2>1. Inv!TypeOK'
    BY <1>14, StockTypeKept DEF TypeInv, TypeOK, Expire
  <2>2. expired' \in [Orders -> BOOLEAN]
    BY <1>14 DEF Expire, TypeInv, TypeOK, OrderTypeOK
  <2> QED
    BY <1>14, <2>1, <2>2 DEF Expire, TypeInv, TypeOK, OrderTypeOK, Places, CallsMade
<1>15. ASSUME NEW c \in Calls, Deliver(c) PROVE TypeInv'
  <2> USE <1>15 DEF Deliver
  <2>1. /\ call[c].op \in Inv!OrderOps /\ c[2] \in Orders
        /\ Basket[c[2]] \in {Basket[c[2]]}
    BY DEF TypeInv, CallsMade, Calls
  <2>2. Inv!Next
    BY <2>1 DEF Inv!Next
  <2> QED
    BY <2>2, CallStepTyped
<1>16. ASSUME NEW c \in Calls, Serve(c) PROVE TypeInv'
  <2>1. Inv!Next
    BY <1>16 DEF Serve, Inv!Next
  <2> QED
    BY <1>16, <2>1, CallStepTyped DEF Serve, Answers
<1>17. ASSUME NEW c \in Calls, InventoryError(c) PROVE TypeInv'
  <2>1. Inv!Next \/ UNCHANGED stockVars
    BY <1>17 DEF InventoryError, Inv!Next
  <2> QED
    BY <1>17, <2>1, CallStepTyped DEF InventoryError, Answers
<1>18. CASE UNCHANGED vars
  BY <1>18, StockTypeKept
     DEF vars, stockVars, TypeInv, TypeOK, OrderTypeOK, Places, CallsMade
<1> QED
  BY <1>1, <1>2, <1>3, <1>4, <1>5, <1>6, <1>7, <1>8, <1>9, <1>10, <1>11, <1>12, <1>13,
     <1>14, <1>15, <1>16, <1>17, <1>18 DEF Next, RequestStep

LEMMA InitHeldFinite ==
  ASSUME Init, NEW s \in Skus
  PROVE  IsFiniteSet(Inv!HeldUnits(s)) /\ Cardinality(Inv!HeldUnits(s)) \in Nat
<1> DEFINE H == {p \in Orders : resv[p][s].status = "reserved"}
           U(o) == {o} \X (1 .. resv[o][s].qty)
<1>1. H \subseteq Existing
  BY DEF Init, Inv!NoRow
<1>2. IsFiniteSet(H)
  BY <1>1, OrdersAssumption, FS_Subset
<1>3. ASSUME NEW o \in H PROVE IsFiniteSet(U(o))
  <2>1. resv[o][s].qty \in Nat
    BY OrdersAssumption DEF Init, Inv!NoRow
  <2>2. IsFiniteSet(1 .. resv[o][s].qty)
    BY <2>1, FS_Interval
  <2> QED
    BY <2>2, FS_Singleton, FS_Product
<1>4. IsFiniteSet({U(o) : o \in H})
  <2> DEFINE F == [o \in H |-> U(o)]
             T == {U(o) : o \in H}
  <2>1. F \in [H -> T]
    OBVIOUS
  <2>2. \A t \in T : \E o \in H : F[o] = t
    OBVIOUS
  <2>3. F \in Surjection(H, T)
    <3> HIDE DEF F, T, H, U
    <3> QED
      BY <2>1, <2>2, Fun_IsSurj
  <2> QED
    <3> HIDE DEF F, T, H, U
    <3>1. IsFiniteSet(T)
      BY <1>2, <2>3, FS_Surjection
    <3> QED
      BY <3>1 DEF T
<1>5. IsFiniteSet(UNION {U(o) : o \in H})
  BY <1>3, <1>4, FS_UNION
<1> QED
  BY <1>5, FS_CardinalityType DEF Inv!HeldUnits

LEMMA InitTyped == Init => TypeInv
<1> SUFFICES ASSUME Init PROVE TypeInv
  OBVIOUS
<1>1. OrderTypeOK
  BY KeyedFacts DEF Init, OrderTypeOK, OrderRow, RecordRow, RequestState, CallState, Row, NoOrder
<1>2. Inv!TypeOK
  <2>1. reserved \in [Skus -> Int] /\ available \in [Skus -> Int] /\ total \in [Skus -> Int]
    BY InitHeldFinite, OrdersAssumption DEF Init
  <2>2. resv \in [Orders -> [Skus -> Inv!ReservationRow]]
    BY OrdersAssumption DEF Init, Inv!NoRow, Inv!ReservationRow
  <2> QED
    BY <2>1, <2>2 DEF Init, Inv!TypeOK, Inv!TxState
<1>3. Places /\ CallsMade
  BY KeyedFacts DEF Init, Places, PlaceOf, CallsMade, Working
<1> QED
  BY <1>1, <1>2, <1>3 DEF TypeInv, TypeOK

(* Type correctness of the order service and of the inventory service it drives. *)
THEOREM TypeCorrect == Spec => []TypeOK
<1>1. TypeInv => TypeOK
  BY DEF TypeInv
<1> QED
  BY <1>1, InitTyped, TypeStep, PTL DEF Spec

------------------------------------------------------------------------------
(* One order per request_id: what a create request and its retries under the same key
   leave behind, whatever fails and overlaps. *)

Creates == {r \in Keyed : Req[r].kind = "create"}

\* Order o exists, has stock rows, or had an inventory call sent for it.
Touched(o) ==
  \/ order[o].status # "none"
  \/ \E s \in DOMAIN Basket[o] : resv[o][s].status # "none"
  \/ \E q \in Requests : call[<<q, o>>].state # "none"

Running == {"validate", "await", "persist", "succeed", "fail"}

\* Create r got past its action record, or has left something behind.
Begun(r) == req[r].pc \in Running \/ Touched(Req[r].order)

(* The strengthening: a create that has begun owns its key, and owns it alone; all
   other requests only touch orders that exist; and an inventory transaction is the
   one its call named. *)
Claimed == \A r \in Creates : Begun(r) => rec[Key(r)].status # "none"

Sole == \A r, q \in Creates : Key(r) = Key(q) /\ Begun(r) /\ Begun(q) => r = q

KnownOrders ==
  \A r \in Requests \ Creates :
    /\ req[r].pc \in {"await", "select", "update"} => order[req[r].order].status # "none"
    /\ \A o \in req[r].todo : order[o].status # "none"

TxOwner ==
  \A c \in Calls : tx[c].op \in Inv!OrderOps => tx[c].order = c[2] /\ call[c].state # "none"

KeyInv == Claimed /\ Sole /\ KnownOrders /\ TxOwner

LEMMA CreateFacts ==
  /\ Creates \subseteq Keyed
  /\ Keyed \subseteq Requests
  /\ \A r \in Creates : Req[r].order \in Orders /\ Key(r) \in Keys
  /\ \A r, q \in Creates : Req[r].order = Req[q].order => r = q
  BY RequestsAssumption DEF Creates, Keyed, Keys

\* What each step of a request does to the orders.
LEMMA OrderStep ==
  ASSUME TypeInv, KnownOrders, [Next]_vars, NEW o \in Orders
  PROVE  /\ order[o].status # "none" => order'[o].status # "none"
         /\ order[o].status = "none" /\ order'[o].status # "none" =>
              \E r \in Creates : Req[r].order = o /\ Begun(r)
<1> DEFINE Goal == /\ order[o].status # "none" => order'[o].status # "none"
                   /\ order[o].status = "none" /\ order'[o].status # "none" =>
                        \E r \in Creates : Req[r].order = o /\ Begun(r)
<1>a. order \in [Orders -> OrderRow] /\ req \in [Requests -> RequestState]
  BY DEF TypeInv, TypeOK, OrderTypeOK, RequestState
<1>b. \A r \in Requests : PlaceOf(r, req[r])
  BY DEF TypeInv, Places
<1>1. CASE UNCHANGED order
  BY <1>1
<1>2. ASSUME NEW r \in Requests, Persist(r) PROVE Goal
  <2>1. r \in Creates /\ req[r].order = Req[r].order /\ Begun(r)
    BY <1>2, <1>b, KeyedFacts DEF Persist, At, PlaceOf, Working, Creates, Begun, Running, Keyed
  <2>2. UNCHANGED order \/ order' = [order EXCEPT ![Req[r].order].status = "reserved"]
    BY <1>2, <2>1 DEF Persist
  <2>3. CASE o = Req[r].order
    BY <1>a, <2>1, <2>2, <2>3 DEF OrderRow
  <2>4. CASE o # Req[r].order
    BY <1>a, <2>2, <2>4
  <2> QED
    BY <2>3, <2>4
<1>3. ASSUME NEW r \in Requests, Update(r) PROVE Goal
  <2>1. req[r].order \in Orders /\ r \notin Creates /\ req[r].pc = "update"
    BY <1>3, <1>b DEF Update, At, PlaceOf, Working, Creates
  <2>2. order[req[r].order].status # "none"
    BY <2>1 DEF KnownOrders
  <2>3. Transition(r).status # "none"
    BY <1>a, <2>1 DEF Transition, OrderRow
  <2>4. order' = [order EXCEPT ![req[r].order] = Transition(r)]
    BY <1>3 DEF Update
  <2> QED
    BY <1>a, <2>1, <2>2, <2>3, <2>4
<1> QED
  <2>1. \/ UNCHANGED order
        \/ \E r \in Requests : Persist(r) \/ Update(r)
    BY DEF Next, RequestStep, Claim, Replay, Mark, Validate, LoadForCancel, LoadForPay,
           ListExpired, CloseNext, Answered, TimedOut, Select, Reload, DbError, Crash,
           Expire, Deliver, Serve, InventoryError, vars
  <2> QED
    BY <1>1, <1>2, <1>3, <2>1

\* A call is sent for an order that exists, or by the create that owns the order.
LEMMA SendStep ==
  ASSUME TypeInv, KnownOrders, [Next]_vars, NEW q \in Requests, NEW o \in Orders,
         call[<<q, o>>].state = "none", call'[<<q, o>>].state # "none"
  PROVE  order[o].status # "none" \/ \E r \in Creates : Req[r].order = o /\ Begun(r)
<1> DEFINE Goal == order[o].status # "none" \/ \E r \in Creates : Req[r].order = o /\ Begun(r)
           c == <<q, o>>
<1>a. call \in [Calls -> CallState] /\ req \in [Requests -> RequestState] /\ c \in Calls
  BY DEF TypeInv, TypeOK, OrderTypeOK, RequestState, Calls
<1>b. \A r \in Requests : PlaceOf(r, req[r])
  BY DEF TypeInv, Places
<1>1. ASSUME NEW r \in Requests, NEW d, NEW op, Send(r, d, op) PROVE d = o
  BY <1>1, <1>a DEF Send
<1>2. ASSUME NEW r \in Requests, Validate(r) \/ Persist(r) PROVE Goal
  <2>1. r \in Creates /\ req[r].order = Req[r].order /\ Begun(r)
    BY <1>2, <1>b, KeyedFacts
       DEF Validate, Persist, At, PlaceOf, Working, Creates, Begun, Running, Keyed
  <2>2. \E op : Send(r, req[r].order, op)
    BY <1>2 DEF Validate, Persist
  <2> QED
    BY <1>1, <2>1, <2>2
<1>3. ASSUME NEW r \in Requests, LoadForCancel(r) \/ LoadForPay(r) PROVE Goal
  <2>1. order[req[r].order].status \in Open /\ \E op : Send(r, req[r].order, op)
    BY <1>3 DEF LoadForCancel, LoadForPay
  <2> QED
    BY <1>1, <2>1 DEF Open
<1>4. ASSUME NEW r \in Requests, CloseNext(r) PROVE Goal
  <2>1. \E d \in req[r].todo : Send(r, d, "release")
    BY <1>4 DEF CloseNext
  <2>2. r \in Requests \ Creates
    BY <1>4, <1>b DEF CloseNext, At, PlaceOf, Creates
  <2>3. o \in req[r].todo
    BY <1>1, <2>1
  <2> QED
    BY <2>2, <2>3 DEF KnownOrders
<1>5. ASSUME NEW r \in Requests, TimedOut(r) PROVE FALSE
  <2>1. <<r, req[r].order>> \in Calls
    BY <1>5, <1>b DEF TimedOut, At, PlaceOf, Working, Calls
  <2> QED
    BY <1>5, <1>a, <2>1 DEF TimedOut
<1>6. ASSUME NEW d \in Calls, Deliver(d) \/ Serve(d) \/ InventoryError(d) PROVE FALSE
  <2>1. call[d].state # "none" /\ \E st : State(d, st)
    BY <1>6 DEF Deliver, Serve, InventoryError
  <2> QED
    BY <1>a, <2>1 DEF State
<1>7. ~UNCHANGED call
  OBVIOUS
<1> QED
  BY <1>2, <1>3, <1>4, <1>5, <1>6, <1>7
     DEF Next, RequestStep, Claim, Replay, Mark, ListExpired, Answered, Select, Update,
         Reload, DbError, Crash, Expire, vars

\* Stock rows of an order only change in a transaction of a call for that order.
LEMMA RowStep ==
  ASSUME TypeInv, TxOwner, [Next]_vars, NEW o \in Orders, resv'[o] # resv[o]
  PROVE  \E q \in Requests : call[<<q, o>>].state # "none"
<1>1. PICK c \in Calls : Serve(c) /\ ~UNCHANGED resv
  BY DEF Next, RequestStep, Claim, Replay, Mark, Validate, LoadForCancel, LoadForPay,
         ListExpired, CloseNext, Answered, TimedOut, Persist, Select, Update, Reload,
         DbError, Crash, Expire, Deliver, InventoryError, Inv!Begin, Inv!Abort, stockVars, vars
<1>2. Inv!Reserve(c) \/ Inv!Release(c) \/ Inv!ConfirmDeduct(c)
  BY <1>1 DEF Serve, Inv!Reject
<1>3. tx[c].op \in Inv!OrderOps
  BY <1>2 DEF Inv!Reserve, Inv!Release, Inv!ConfirmDeduct, Inv!OrderOps
<1>4. tx[c].order = c[2] /\ call[c].state # "none"
  BY <1>3 DEF TxOwner
<1>5. \E S, st, b : resv' = Inv!WriteRows(tx[c].order, S, st, b)
  BY <1>2 DEF Inv!Reserve, Inv!Release, Inv!ConfirmDeduct
<1>6. resv \in [Orders -> [Skus -> Inv!ReservationRow]]
  BY DEF TypeInv, TypeOK, Inv!TypeOK
<1>7. o = c[2]
  BY <1>4, <1>5, <1>6 DEF Inv!WriteRows
<1>8. c = <<c[1], o>> /\ c[1] \in Requests
  BY <1>7 DEF Calls
<1> QED
  BY <1>4, <1>8

\* Nothing but its own create leaves the first trace of an order.
LEMMA TouchStep ==
  ASSUME TypeInv, KnownOrders, TxOwner, [Next]_vars, NEW o \in Orders,
         Touched(o)', ~Touched(o)
  PROVE  \E r \in Creates : Req[r].order = o /\ Begun(r)
<1>1. order[o].status = "none" /\ \A q \in Requests : call[<<q, o>>].state = "none"
  BY DEF Touched
<1>2. resv'[o] = resv[o]
  BY <1>1, RowStep
<1>3. \/ order'[o].status # "none"
      \/ \E q \in Requests : call'[<<q, o>>].state # "none"
  BY <1>2 DEF Touched
<1> QED
  BY <1>1, <1>3, OrderStep, SendStep

\* A create gets past its action record by claiming it, and in no other way.
LEMMA RunStep ==
  ASSUME TypeInv, [Next]_vars, NEW r \in Creates,
         req'[r].pc \in Running, req[r].pc \notin Running
  PROVE  Claim(r)
<1>a. /\ req \in [Requests -> RequestState]
      /\ r \in Requests /\ Req[r].kind = "create" /\ r \in Keyed
  BY DEF TypeInv, TypeOK, OrderTypeOK, RequestState, Creates, Keyed
<1>b. \A q \in Requests : PlaceOf(q, req[q])
  BY DEF TypeInv, Places
<1>1. PICK q \in Requests : RequestStep(q) \/ Crash(q)
  BY DEF Next, Expire, Deliver, Serve, InventoryError, vars
<1>2. \/ \E pc : Goto(q, pc)
      \/ \E a : Answer(q, a)
      \/ Replay(q) \/ ListExpired(q) \/ CloseNext(q)
  BY <1>1 DEF RequestStep, Claim, Mark, Validate, LoadForCancel, LoadForPay, Answered,
              TimedOut, Persist, Select, Update, Reload, DbError, Crash
<1>3. q = r
  <2>1. q # r => req'[r] = req[r]
    BY <1>2, <1>a DEF Goto, Answer, Replay, ListExpired, CloseNext
  <2> QED
    BY <2>1
<1>4. req[r].pc \in {"start", "done", "dead"}
  BY <1>a, <1>b DEF PlaceOf, Running, RequestState
<1>5. ASSUME NEW a, Answer(r, a) PROVE FALSE
  BY <1>5, <1>a DEF Answer, Running, RequestState
<1>6. ~Replay(r) /\ ~ListExpired(r) /\ ~CloseNext(r)
  <2>1. ~Replay(r)
    BY <1>5, <1>a DEF Replay, Running, RequestState
  <2>2. ~ListExpired(r) /\ ~CloseNext(r)
    BY <1>a, <1>4 DEF ListExpired, CloseNext, At
  <2> QED
    BY <2>1, <2>2
<1>7. ~Crash(r)
  BY <1>a DEF Crash, Goto, Running, RequestState
<1> QED
  BY <1>1, <1>3, <1>4, <1>5, <1>6, <1>7
     DEF RequestStep, Mark, Validate, LoadForCancel, LoadForPay, Answered, TimedOut,
         Persist, Select, Update, Reload, DbError, At

LEMMA BeginStep ==
  ASSUME TypeInv, KnownOrders, TxOwner, [Next]_vars, NEW r \in Creates,
         Begun(r)', ~Begun(r)
  PROVE  Claim(r)
<1>1. Req[r].order \in Orders
  BY CreateFacts
<1>2. CASE Touched(Req[r].order)'
  <2>1. PICK q \in Creates : Req[q].order = Req[r].order /\ Begun(q)
    BY <1>1, <1>2, TouchStep DEF Begun
  <2> QED
    BY <2>1, CreateFacts
<1>3. CASE req'[r].pc \in Running
  BY <1>3, RunStep DEF Begun
<1> QED
  BY <1>2, <1>3 DEF Begun

\* Claiming a key finds it free, and begins no other create.
LEMMA ClaimStep ==
  ASSUME TypeInv, NEW r \in Creates, Claim(r)
  PROVE  /\ rec[Key(r)].status = "none"
         /\ \A q \in Creates : q # r /\ Begun(q)' => Begun(q)
<1>1. req \in [Requests -> RequestState] /\ r \in Requests
  BY CreateFacts DEF TypeInv, TypeOK, OrderTypeOK, RequestState
<1>2. ASSUME NEW q \in Creates, q # r PROVE req'[q] = req[q]
  BY <1>1, <1>2, CreateFacts DEF Claim, Goto, Answer
<1>3. \A o : Touched(o)' <=> Touched(o)
  BY DEF Touched, Claim, stockVars
<1> QED
  BY <1>2, <1>3 DEF Claim, Begun

LEMMA RecordStep ==
  ASSUME TypeInv, [Next]_vars, NEW k \in Keys, rec[k].status # "none"
  PROVE  rec'[k].status # "none"
<1>a. rec \in [Keys -> RecordRow]
  BY DEF TypeInv, TypeOK, OrderTypeOK
<1>1. \/ UNCHANGED rec
      \/ \E r \in Requests, st \in {"pending", "succeeded", "failed"} : \E o :
           rec' = [rec EXCEPT ![Key(r)] = Row(st, o)]
  BY DEF Next, RequestStep, Claim, Replay, Mark, Validate, LoadForCancel, LoadForPay,
         ListExpired, CloseNext, Answered, TimedOut, Persist, Select, Update, Reload,
         DbError, Crash, Expire, Deliver, Serve, InventoryError, vars
<1> QED
  BY <1>a, <1>1 DEF Row

LEMMA KnownStep == TypeInv /\ KeyInv /\ [Next]_vars => KnownOrders'
<1> SUFFICES ASSUME TypeInv, KeyInv, [Next]_vars, NEW r \in Requests \ Creates
             PROVE  /\ req'[r].pc \in {"await", "select", "update"} =>
                         order'[req'[r].order].status # "none"
                    /\ \A o \in req'[r].todo : order'[o].status # "none"
  BY DEF KnownOrders
<1>a. req \in [Requests -> RequestState]
  BY DEF TypeInv, TypeOK, OrderTypeOK, RequestState
<1>b. \A q \in Requests : PlaceOf(q, req[q])
  BY DEF TypeInv, Places
<1>c. \A o \in Orders : order[o].status # "none" => order'[o].status # "none"
  BY OrderStep DEF KeyInv
<1>d. req[r].todo \subseteq Orders
  BY <1>a DEF RequestState
<1>e. /\ req[r].pc \in {"await", "select", "update"} => order[req[r].order].status # "none"
      /\ \A o \in req[r].todo : order[o].status # "none"
  BY DEF KeyInv, KnownOrders
<1>f. \A o \in req[r].todo : order'[o].status # "none"
  BY <1>c, <1>d, <1>e
<1>1. CASE req'[r] = req[r]
  <2>1. req[r].pc \in {"await", "select", "update"} => req[r].order \in Orders
    BY <1>b DEF PlaceOf, Working
  <2> QED
    BY <1>1, <1>c, <1>e, <1>f, <2>1
<1>2. CASE LoadForCancel(r) \/ LoadForPay(r)
  <2>1. PICK pc : Goto(r, pc) /\ (pc = "await" => order[req[r].order].status \in Open)
                              /\ pc \in {"await", "succeed", "fail"}
    BY <1>2 DEF LoadForCancel, LoadForPay
  <2>2. req'[r].pc = pc /\ req'[r].order = req[r].order /\ req'[r].todo = req[r].todo
    BY <1>a, <2>1 DEF Goto, RequestState
  <2>3. req[r].order \in Orders
    BY <1>2, <1>b DEF LoadForCancel, LoadForPay, At, PlaceOf, Working
  <2> QED
    BY <1>c, <1>f, <2>1, <2>2, <2>3 DEF Open
<1>3. CASE ListExpired(r)
  <2>1. /\ req'[r].pc = "next"
        /\ req'[r].todo = {o \in Orders : order[o].status \in Open /\ expired[o]}
    BY <1>3, <1>a DEF ListExpired, RequestState
  <2> QED
    BY <1>c, <2>1 DEF Open
<1>4. CASE CloseNext(r)
  <2>1. CASE Answer(r, "ok")
    <3>1. req'[r].pc = "done" /\ req'[r].todo = req[r].todo
      BY <1>a, <2>1 DEF Answer, RequestState
    <3> QED
      BY <1>f, <3>1
  <2>2. CASE \E o \in req[r].todo :
               req' = [req EXCEPT ![r].pc = "await", ![r].order = o, ![r].todo = @ \ {o}]
    <3>1. req'[r].order \in req[r].todo /\ req'[r].todo \subseteq req[r].todo
      BY <1>a, <2>2 DEF RequestState
    <3> QED
      BY <1>f, <3>1
  <2> QED
    BY <1>4, <2>1, <2>2 DEF CloseNext
<1>5. CASE Answered(r) \/ TimedOut(r) \/ Select(r) \/ Update(r)
  <2>1. PICK pc : Goto(r, pc)
    BY <1>5 DEF Answered, TimedOut, Select, Update
  <2>2. req'[r].order = req[r].order /\ req'[r].todo = req[r].todo
    BY <1>a, <2>1 DEF Goto, RequestState
  <2>3. req[r].pc \in {"await", "select", "update"} /\ req[r].order \in Orders
    BY <1>5, <1>b DEF Answered, TimedOut, Select, Update, At, PlaceOf, Working
  <2> QED
    BY <1>c, <1>e, <1>f, <2>2, <2>3
<1>6. CASE \/ \E pc \in {"validate", "load", "persist", "reload", "succeed", "fail", "next", "dead"} :
                Goto(r, pc)
           \/ \E a : Answer(r, a)
           \/ Replay(r)
  <2>1. req'[r].todo = req[r].todo /\ req'[r].pc \notin {"await", "select", "update"}
    BY <1>6, <1>a DEF Goto, Answer, Replay, RequestState
  <2> QED
    BY <1>f, <2>1
<1>7. ASSUME NEW q \in Requests, RequestStep(q) \/ Crash(q), q # r
      PROVE  req'[r] = req[r]
  <2>1. \/ \E pc : Goto(q, pc)
        \/ \E a : Answer(q, a)
        \/ Replay(q) \/ ListExpired(q) \/ CloseNext(q)
    BY <1>7 DEF RequestStep, Claim, Mark, Validate, LoadForCancel, LoadForPay, Answered,
                TimedOut, Persist, Select, Update, Reload, DbError, Crash
  <2> QED
    BY <1>7, <1>a, <2>1 DEF Goto, Answer, Replay, ListExpired, CloseNext
<1>8. ~Validate(r) /\ ~Persist(r)
  BY <1>b, KeyedFacts DEF Validate, Persist, At, PlaceOf, Creates, Keyed
<1>9. CASE RequestStep(r) \/ Crash(r)
  BY <1>2, <1>3, <1>4, <1>5, <1>6, <1>8, <1>9
     DEF RequestStep, Claim, Mark, Reload, DbError, OnError, Crash
<1> QED
  <2>1. (\E q \in Requests : RequestStep(q) \/ Crash(q)) \/ UNCHANGED req
    BY DEF Next, Expire, Deliver, Serve, InventoryError, vars
  <2> QED
    BY <1>1, <1>7, <1>9, <2>1

LEMMA OwnerStep == TypeInv /\ KeyInv /\ [Next]_vars => TxOwner'
<1> SUFFICES ASSUME TypeInv, KeyInv, [Next]_vars, NEW c \in Calls, tx'[c].op \in Inv!OrderOps
             PROVE  tx'[c].order = c[2] /\ call'[c].state # "none"
  BY DEF TxOwner
<1>a. call \in [Calls -> CallState] /\ tx \in [Calls -> Inv!TxState]
  BY DEF TypeInv, TypeOK, OrderTypeOK, Inv!TypeOK
<1>1. call[c].state # "none" => call'[c].state # "none"
  <2>1. \/ UNCHANGED call
        \/ \E r \in Requests : \E o, op : Send(r, o, op)
        \/ \E d \in Calls, st \in {"open"} \cup Answers : State(d, st)
        \/ \E d : call' = [call EXCEPT ![d].waiting = FALSE]
    BY ZenonT(60) DEF Next, RequestStep, Claim, Replay, Mark, Validate, LoadForCancel, LoadForPay,
           ListExpired, CloseNext, Answered, TimedOut, Persist, Select, Update, Reload,
           DbError, Crash, Expire, Deliver, Serve, InventoryError, Answers, vars
  <2>2. CASE \E r \in Requests : \E o, op : Send(r, o, op)
    BY <1>a, <2>2 DEF Send
  <2>3. CASE \E d \in Calls, st \in {"open"} \cup Answers : State(d, st)
    BY <1>a, <2>3 DEF State, CallState, Answers
  <2>4. CASE \E d : call' = [call EXCEPT ![d].waiting = FALSE]
    BY <1>a, <2>4 DEF CallState
  <2> QED
    BY <2>1, <2>2, <2>3, <2>4
<1>2. CASE tx'[c] = tx[c]
  BY <1>1, <1>2 DEF KeyInv, TxOwner
<1>3. CASE tx'[c] # tx[c]
  <2>1. PICK d \in Calls : Deliver(d) \/ Serve(d) \/ InventoryError(d)
    BY <1>3, ZenonT(60) DEF Next, RequestStep, Claim, Replay, Mark, Validate, LoadForCancel,
                LoadForPay, ListExpired, CloseNext, Answered, TimedOut, Persist, Select,
                Update, Reload, DbError, Crash, Expire, stockVars, vars
  <2>2. CASE Deliver(d)
    <3>1. call[d].state = "sent" /\ tx' = [tx EXCEPT ![d] =
            [op |-> call[d].op, order |-> d[2], basket |-> Basket[d[2]],
             snap |-> Inv!Snapshot(d[2], Basket[d[2]])]]
      BY <2>2 DEF Deliver, Inv!Begin
    <3>2. d = c
      BY <1>3, <1>a, <3>1
    <3> QED
      BY <1>1, <1>a, <3>1, <3>2
  <2>3. CASE Serve(d) \/ InventoryError(d)
    <3>1. UNCHANGED tx \/ tx' = [tx EXCEPT ![d] = Inv!Idle]
      BY <2>3 DEF Serve, InventoryError, Inv!Reserve, Inv!Release, Inv!ConfirmDeduct,
                  Inv!Reject, Inv!Abort, Inv!Finish, stockVars
    <3>2. tx'[c] = Inv!Idle
      BY <1>3, <1>a, <3>1
    <3> QED
      BY <3>2 DEF Inv!Idle, Inv!OrderOps
  <2> QED
    BY <2>1, <2>2, <2>3
<1> QED
  BY <1>2, <1>3

LEMMA KeyStep == TypeInv /\ KeyInv /\ [Next]_vars => KeyInv'
<1> SUFFICES ASSUME TypeInv, KeyInv, [Next]_vars PROVE Claimed' /\ Sole'
  BY KnownStep, OwnerStep DEF KeyInv
<1>a. rec \in [Keys -> RecordRow] /\ \A r \in Creates : Key(r) \in Keys
  BY CreateFacts DEF TypeInv, TypeOK, OrderTypeOK
<1>1. ASSUME NEW r \in Creates, Begun(r)' PROVE rec'[Key(r)].status # "none"
  <2>1. CASE Begun(r)
    BY <1>a, <2>1, RecordStep DEF KeyInv, Claimed
  <2>2. CASE ~Begun(r)
    <3>1. Claim(r)
      BY <1>1, <2>2, BeginStep DEF KeyInv
    <3> QED
      BY <1>a, <3>1 DEF Claim, Row
  <2> QED
    BY <2>1, <2>2
<1>2. ASSUME NEW r \in Creates, NEW q \in Creates, Key(r) = Key(q), Begun(r)', Begun(q)', r # q
      PROVE  FALSE
  <2>1. ASSUME NEW x \in Creates, NEW y \in Creates, Key(x) = Key(y), x # y,
               Begun(y)', Claim(x)
        PROVE  FALSE
    BY <2>1, ClaimStep DEF KeyInv, Claimed
  <2>2. Begun(r) /\ Begun(q)
    BY <1>2, <2>1, BeginStep DEF KeyInv
  <2> QED
    BY <1>2, <2>2 DEF KeyInv, Sole
<1> QED
  BY <1>1, <1>2 DEF Claimed, Sole, Key

LEMMA KeyInit == Init => KeyInv
<1> SUFFICES ASSUME Init PROVE KeyInv
  OBVIOUS
<1>1. ASSUME NEW r \in Creates PROVE ~Begun(r)
  <2>1. Req[r].order \in Orders \ Existing /\ r \in Requests
    BY RequestsAssumption DEF Creates, Keyed
  <2>2. \A s \in DOMAIN Basket[Req[r].order] : resv[Req[r].order][s].status = "none"
    BY <2>1, OrdersAssumption DEF Init, Inv!NoRow
  <2>3. order[Req[r].order].status = "none" /\ req[r].pc = "start"
    BY <2>1 DEF Init
  <2>4. \A q \in Requests : call[<<q, Req[r].order>>].state = "none"
    BY <2>1 DEF Init, Calls
  <2> QED
    BY <2>2, <2>3, <2>4 DEF Begun, Touched, Running
<1>2. KnownOrders
  BY DEF Init, KnownOrders, Creates
<1>3. TxOwner
  BY DEF Init, TxOwner, Inv!Idle, Inv!OrderOps
<1> QED
  BY <1>1, <1>2, <1>3 DEF KeyInv, Claimed, Sole

(* OneOrderPerKey: a create and its retries under one request_id never have two
   orders take stock or exist. *)
THEOREM OneOrder == Spec => []OneOrderPerKey
<1>1. TypeInv /\ KeyInv => OneOrderPerKey
  <2> SUFFICES ASSUME KeyInv PROVE OneOrderPerKey
    OBVIOUS
  <2>1. ASSUME NEW r \in Creates, order[Req[r].order].status # "none"
                                  \/ Rows(Req[r].order) # {"none"}
        PROVE  Begun(r)
    <3>1. Req[r].order \in Orders
      BY CreateFacts
    <3>2. DOMAIN Basket[Req[r].order] # {}
      BY <3>1, OrdersAssumption
    <3> QED
      BY <2>1, <3>2 DEF Rows, Begun, Touched
  <2> QED
    BY <2>1 DEF KeyInv, Sole, OneOrderPerKey, Creates
<1>2. Init => TypeInv /\ KeyInv
  BY InitTyped, KeyInit
<1>3. TypeInv /\ KeyInv /\ [Next]_vars => (TypeInv /\ KeyInv)'
  BY TypeStep, KeyStep
<1> QED
  BY <1>1, <1>2, <1>3, PTL DEF Spec

------------------------------------------------------------------------------
(* Requests, their calls and the transactions that serve them, whatever overlaps. *)

OpsOf(r) ==
  CASE Req[r].kind = "create" -> {"reserve", "release"}
    [] Req[r].kind = "pay"    -> {"confirm"}
    [] OTHER                  -> {"release"}

Early == {"start", "validate", "load"}

\* Where r stands tells what its call for o has come to.
CallFits(r, o) ==
  LET c == <<r, o>> IN
  /\ call[c].state # "none" => call[c].op \in OpsOf(r) /\ (r \in Keyed => o = Req[r].order)
  /\ req[r].pc \in Early \/ o \in req[r].todo => call[c].state = "none"
  /\ r \in Keyed => o \notin req[r].todo
  /\ req[r].order = o =>
       /\ req[r].pc \in {"persist", "select", "update", "reload"} => call[c].state = "ok"
       /\ req[r].pc = "persist" => call[c].op = "reserve"
  /\ call[c].state \in {"sent", "open"} =>
       \/ req[r].pc = "await" /\ req[r].order = o
       \/ req[r].pc = "dead"
       \/ ~call[c].waiting

CallsFit == \A r \in Requests, o \in Orders : CallFits(r, o)

\* While a call is open its transaction is the one it named; else there is none.
TxFits ==
  \A c \in Calls :
    /\ call[c].state = "open" =>
         tx[c].op = call[c].op /\ tx[c].order = c[2] /\ tx[c].basket = Basket[c[2]]
    /\ call[c].state # "open" => tx[c] = Inv!Idle

LinkInv == CallsFit /\ TxFits

LEMMA GotoMoves ==
  ASSUME TypeInv, NEW r \in Requests, NEW pc, Goto(r, pc)
  PROVE  /\ req'[r] = [req[r] EXCEPT !.pc = pc]
         /\ req'[r].pc = pc /\ req'[r].answer = req[r].answer
         /\ req'[r].order = req[r].order /\ req'[r].todo = req[r].todo
         /\ \A q \in Requests : q # r => req'[q] = req[q]
  BY DEF TypeInv, TypeOK, OrderTypeOK, RequestState, Goto

LEMMA AnswerMoves ==
  ASSUME TypeInv, NEW r \in Requests, NEW a, Answer(r, a)
  PROVE  /\ req'[r].pc = "done" /\ req'[r].answer = a
         /\ req'[r].order = req[r].order /\ req'[r].todo = req[r].todo
         /\ \A q \in Requests : q # r => req'[q] = req[q]
  BY DEF TypeInv, TypeOK, OrderTypeOK, RequestState, Answer

LEMMA SendMoves ==
  ASSUME TypeInv, NEW r \in Requests, NEW o \in Orders, NEW op, Send(r, o, op)
  PROVE  /\ call'[<<r, o>>] = [op |-> op, state |-> "sent", waiting |-> TRUE]
         /\ \A c \in Calls : c # <<r, o>> => call'[c] = call[c]
  BY DEF TypeInv, TypeOK, OrderTypeOK, Send, Calls

LEMMA StateMoves ==
  ASSUME TypeInv, NEW c \in Calls, NEW st, State(c, st)
  PROVE  /\ call'[c] = [call[c] EXCEPT !.state = st]
         /\ call'[c].state = st /\ call'[c].op = call[c].op
         /\ call'[c].waiting = call[c].waiting
         /\ \A d \in Calls : d # c => call'[d] = call[d]
  BY DEF TypeInv, TypeOK, OrderTypeOK, CallState, State

\* A request moves nothing but itself and its own calls.
LEMMA OthersKeep ==
  ASSUME TypeInv, NEW r \in Requests, RequestStep(r) \/ Crash(r), NEW q \in Requests, q # r
  PROVE  req'[q] = req[q] /\ \A o \in Orders : call'[<<q, o>>] = call[<<q, o>>]
<1>a. req \in [Requests -> RequestState] /\ call \in [Calls -> CallState]
  BY DEF TypeInv, TypeOK, OrderTypeOK, RequestState
<1>1. \/ \E pc : Goto(r, pc)
      \/ \E a : Answer(r, a)
      \/ Replay(r) \/ ListExpired(r) \/ CloseNext(r)
  BY DEF RequestStep, Claim, Mark, Validate, LoadForCancel, LoadForPay, Answered,
         TimedOut, Persist, Select, Update, Reload, DbError, Crash
<1>2. req'[q] = req[q]
  BY <1>1, <1>a DEF Goto, Answer, Replay, ListExpired, CloseNext
<1>3. \/ UNCHANGED call
      \/ \E o, op : Send(r, o, op)
      \/ TimedOut(r)
  BY DEF RequestStep, Claim, Replay, Mark, Validate, LoadForCancel, LoadForPay,
         ListExpired, CloseNext, Answered, Persist, Select, Update, Reload, DbError, Crash
<1>4. \A o \in Orders : call'[<<q, o>>] = call[<<q, o>>]
  BY <1>3, <1>a DEF Send, TimedOut, Calls
<1> QED
  BY <1>2, <1>4

\* The steps of Next, by whose they are.
LEMMA Steps ==
  ASSUME [Next]_vars
  PROVE  \/ \E r \in Requests : RequestStep(r) \/ Crash(r)
         \/ \E o \in Orders : Expire(o)
         \/ \E c \in Calls : Deliver(c) \/ Serve(c) \/ InventoryError(c)
         \/ UNCHANGED vars
  BY DEF Next

LEMMA RequestsLeaveStock ==
  ASSUME NEW r \in Requests, RequestStep(r) \/ Crash(r)
  PROVE  UNCHANGED stockVars
  BY DEF RequestStep, Claim, Replay, Mark, Validate, LoadForCancel, LoadForPay,
         ListExpired, CloseNext, Answered, TimedOut, Persist, Select, Update, Reload,
         DbError, Crash

(* Every step of the order service is a step of the inventory service, or leaves the
   stock alone. *)
LEMMA StockStep == TypeInv /\ [Next]_vars => [InvP!Next]_(InvP!vars)
<1> SUFFICES ASSUME TypeInv, [Next]_vars PROVE [Inv!Next]_stockVars
  BY SameNext DEF stockVars, InvP!vars
<1>1. ASSUME NEW c \in Calls, Deliver(c) PROVE Inv!Next
  <2>1. /\ call[c].op \in Inv!OrderOps /\ c[2] \in Orders
        /\ Basket[c[2]] \in {Basket[c[2]]}
    BY <1>1 DEF TypeInv, CallsMade, Calls, Deliver
  <2> QED
    BY <1>1, <2>1 DEF Inv!Next, Deliver
<1>2. ASSUME NEW c \in Calls, Serve(c) PROVE Inv!Next
  BY <1>2 DEF Serve, Inv!Next
<1>3. ASSUME NEW c \in Calls, InventoryError(c) PROVE [Inv!Next]_stockVars
  BY <1>3 DEF InventoryError, Inv!Next
<1>4. CASE UNCHANGED vars \/ \E o \in Orders : Expire(o)
  BY <1>4 DEF vars, stockVars, Expire
<1> QED
  BY <1>1, <1>2, <1>3, <1>4, Steps, RequestsLeaveStock

\* Where an answer sends its request.
LEMMA AnsweredGoes ==
  ASSUME NEW r \in Requests, Answered(r)
  PROVE  \E pc : /\ Goto(r, pc)
                 /\ \/ pc \in {"fail", "next"}
                    \/ call[<<r, req[r].order>>].state = "ok" /\ pc = "persist"
                       /\ Req[r].kind = "create"
                       /\ call[<<r, req[r].order>>].op # "release"
                    \/ call[<<r, req[r].order>>].state = "ok" /\ pc = "select"
  BY DEF Answered, OnError

LEMMA CallsFitStep == TypeInv /\ LinkInv /\ [Next]_vars => CallsFit'
<1> SUFFICES ASSUME TypeInv, LinkInv, [Next]_vars, NEW r \in Requests, NEW o \in Orders
             PROVE  CallFits(r, o)'
  BY DEF CallsFit
<1> DEFINE c == <<r, o>>
<1> USE KeyedFacts
<1>a. /\ req \in [Requests -> RequestState]
      /\ call \in [Calls -> CallState]
      /\ c \in Calls
      /\ PlaceOf(r, req[r])
  BY DEF TypeInv, TypeOK, OrderTypeOK, RequestState, Places, Calls
<1>b. CallFits(r, o)
  BY DEF LinkInv, CallsFit
\* The request moves on, and its call for o stays as it is.
<1>c. ASSUME NEW pc, Goto(r, pc), UNCHANGED call,
             pc \in Early => req[r].pc \in Early,
             req[r].order = o /\ pc \in {"persist", "select", "update", "reload"} =>
               call[c].state = "ok" /\ (pc = "persist" => call[c].op = "reserve"),
             req[r].order = o /\ req[r].pc = "await" =>
               call[c].state \notin {"sent", "open"} \/ pc = "dead",
             req[r].pc # "dead"
      PROVE  CallFits(r, o)'
  <2>1. /\ req'[r].pc = pc /\ req'[r].order = req[r].order /\ req'[r].todo = req[r].todo
        /\ call' = call
    BY <1>c, GotoMoves
  <2> QED
    BY <1>b, <1>c, <2>1 DEF CallFits, Early
<1>d. ASSUME NEW a, Answer(r, a), UNCHANGED call, req[r].pc \notin {"await", "dead"}
      PROVE  CallFits(r, o)'
  BY <1>b, <1>d, AnswerMoves DEF CallFits, Early
\* The request sends its first call for an order, or the release that follows a reserve.
<1>e. ASSUME NEW op \in OpsOf(r), Goto(r, "await"), Send(r, req[r].order, op), r \in Keyed,
             req[r].pc \notin {"await", "dead"}, req[r].order = Req[r].order
      PROVE  CallFits(r, o)'
  <2>1. req'[r].pc = "await" /\ req'[r].order = req[r].order /\ req'[r].todo = req[r].todo
    BY <1>e, GotoMoves
  <2>2. CASE o = req[r].order
    <3>1. call'[c] = [op |-> op, state |-> "sent", waiting |-> TRUE]
      BY <1>e, <2>2, SendMoves
    <3> QED
      BY <1>b, <1>e, <2>1, <2>2, <3>1 DEF CallFits, Early
  <2>3. CASE o # req[r].order
    <3>1. call'[c] = call[c] /\ req[r].order \in Orders
      BY <1>a, <1>e, <2>3, SendMoves
    <3> QED
      BY <1>b, <1>e, <2>1, <2>3, <3>1 DEF CallFits, Early
  <2> QED
    BY <2>2, <2>3
<1>1. CASE Claim(r)
  BY <1>1, <1>c, <1>d DEF Claim, At, Early
<1>2. CASE Replay(r)
  <2>1. req'[r].pc = "done" /\ req'[r].todo = req[r].todo /\ UNCHANGED call
    BY <1>2, <1>a, AnswerMoves DEF Replay, RequestState
  <2> QED
    BY <1>2, <1>b, <2>1 DEF Replay, At, CallFits, Early
<1>3. CASE Mark(r)
  BY <1>3, <1>d DEF Mark, At
<1>4. CASE Validate(r)
  <2>1. /\ req[r].pc = "validate" /\ Req[r].kind = "create" /\ r \in Keyed
        /\ req[r].order = Req[r].order
    BY <1>4, <1>a DEF Validate, At, PlaceOf, Working
  <2> QED
    BY <1>4, <1>c, <1>e, <2>1 DEF Validate, OpsOf, Early
<1>5. CASE LoadForCancel(r)
  <2>1. /\ req[r].pc = "load" /\ r \in Keyed /\ req[r].order = Req[r].order
        /\ Req[r].kind = "cancel"
    BY <1>5, <1>a DEF LoadForCancel, At, PlaceOf, Working
  <2> QED
    BY <1>5, <1>c, <1>e, <2>1 DEF LoadForCancel, OpsOf, Early
<1>6. CASE LoadForPay(r)
  <2>1. /\ req[r].pc = "load" /\ r \in Keyed /\ req[r].order = Req[r].order
        /\ Req[r].kind = "pay"
    BY <1>6, <1>a DEF LoadForPay, At, PlaceOf, Working
  <2> QED
    BY <1>6, <1>c, <1>e, <2>1 DEF LoadForPay, OpsOf, Early
<1>7. CASE ListExpired(r)
  <2>1. /\ req'[r].pc = "next" /\ UNCHANGED call /\ r \notin Keyed
    BY <1>7, <1>a DEF ListExpired, RequestState
  <2> QED
    BY <1>7, <1>b, <2>1 DEF ListExpired, At, CallFits, Early
<1>8. CASE CloseNext(r)
  <2>1. req[r].pc = "next" /\ r \notin Keyed
    BY <1>8, <1>a DEF CloseNext, At, PlaceOf
  <2>2. ASSUME NEW d \in req[r].todo,
               req' = [req EXCEPT ![r].pc = "await", ![r].order = d, ![r].todo = @ \ {d}],
               Send(r, d, "release")
        PROVE  CallFits(r, o)'
    <3>1. d \in Orders
      BY <1>a DEF RequestState
    <3>2. /\ req'[r].pc = "await" /\ req'[r].order = d /\ req'[r].todo = req[r].todo \ {d}
      BY <2>2, <1>a DEF RequestState
    <3>3. CASE o = d
      <4>1. call'[c] = [op |-> "release", state |-> "sent", waiting |-> TRUE]
        BY <2>2, <3>1, <3>3, SendMoves
      <4> QED
        BY <2>1, <3>2, <3>3, <4>1 DEF CallFits, Early, OpsOf, Keyed
    <3>4. CASE o # d
      <4>1. call'[c] = call[c]
        BY <1>a, <2>2, <3>1, <3>4, SendMoves
      <4> QED
        BY <1>b, <2>1, <3>2, <3>4, <4>1 DEF CallFits, Early
    <3> QED
      BY <3>3, <3>4
  <2> QED
    BY <1>8, <1>d, <2>1, <2>2 DEF CloseNext
<1>9. CASE Answered(r)
  <2> DEFINE e == <<r, req[r].order>>
  <2>1. req[r].pc = "await" /\ call[e].state \in Answers /\ UNCHANGED call
    BY <1>9 DEF Answered, At
  <2>2. req[r].order \in Orders /\ call[e].op \in OpsOf(r)
    <3>1. req[r].order \in Orders
      BY <2>1, <1>a DEF PlaceOf, Working
    <3> QED
      BY <2>1, <3>1 DEF LinkInv, CallsFit, CallFits, Answers
  <2>3. PICK pc : /\ Goto(r, pc)
                  /\ \/ pc \in {"fail", "next"}
                     \/ call[e].state = "ok" /\ pc = "persist" /\ Req[r].kind = "create"
                        /\ call[e].op # "release"
                     \/ call[e].state = "ok" /\ pc = "select"
    BY <1>9, AnsweredGoes
  <2>4. pc = "persist" => call[e].op = "reserve"
    BY <2>2, <2>3 DEF OpsOf
  <2> QED
    BY <1>c, <2>1, <2>3, <2>4 DEF Early, Answers
<1>10. CASE TimedOut(r)
  <2>1. req[r].pc = "await" /\ req[r].order \in Orders
    BY <1>10, <1>a DEF TimedOut, At, PlaceOf, Working
  <2>2. /\ req'[r].pc \in {"next", "fail"} /\ req'[r].order = req[r].order
        /\ req'[r].todo = req[r].todo
    BY <1>10, GotoMoves DEF TimedOut, OnError
  <2>3. /\ call'[c].state = call[c].state /\ call'[c].op = call[c].op
        /\ req[r].order = o => ~call'[c].waiting
        /\ req[r].order # o => call'[c].waiting = call[c].waiting
    BY <1>10, <1>a, <2>1 DEF TimedOut, Calls, CallState
  <2> QED
    BY <1>b, <2>1, <2>2, <2>3 DEF CallFits, Early
<1>11. CASE Persist(r)
  <2>1. /\ req[r].pc = "persist" /\ Req[r].kind = "create" /\ r \in Keyed
        /\ req[r].order = Req[r].order
    BY <1>11, <1>a DEF Persist, At, PlaceOf, Working
  <2> QED
    BY <1>11, <1>c, <1>e, <2>1 DEF Persist, OpsOf, Early
<1>12. CASE Select(r) \/ Update(r) \/ Reload(r)
  <2>1. req[r].pc \in {"select", "update", "reload"} /\ UNCHANGED call
    BY <1>12 DEF Select, Update, Reload, At
  <2>2. PICK pc : Goto(r, pc) /\ pc \in {"update", "reload", "fail", "next", "succeed"}
    BY <1>12 DEF Select, Update, Reload, OnError
  <2>3. req[r].order = o => call[c].state = "ok"
    BY <1>b, <2>1 DEF CallFits
  <2> QED
    BY <1>c, <2>1, <2>2, <2>3 DEF Early
<1>13. CASE DbError(r)
  BY <1>13, <1>c, <1>d DEF DbError, OnError, Early
<1>14. CASE Crash(r)
  BY <1>14, <1>c DEF Crash, Early
<1>15. ASSUME NEW q \in Requests, q # r, RequestStep(q) \/ Crash(q) PROVE CallFits(r, o)'
  BY <1>15, <1>b, OthersKeep DEF CallFits, Early
<1>16. ASSUME NEW d \in Calls, Deliver(d) \/ Serve(d) \/ InventoryError(d)
       PROVE  CallFits(r, o)'
  <2>1. PICK st \in {"open"} \cup Answers :
          State(d, st) /\ call[d].state \in {"sent", "open"} /\ UNCHANGED req
    BY <1>16 DEF Deliver, Serve, InventoryError, Answers
  <2>2. CASE d = c
    BY <1>b, <2>1, <2>2, StateMoves DEF CallFits, Early, Answers
  <2>3. CASE d # c
    <3>1. call'[c] = call[c]
      BY <1>a, <2>1, <2>3, StateMoves
    <3> QED
      BY <1>b, <2>1, <3>1 DEF CallFits, Early
  <2> QED
    BY <2>2, <2>3
<1>17. CASE UNCHANGED vars \/ \E d \in Orders : Expire(d)
  BY <1>b, <1>17 DEF vars, Expire, CallFits, Early
<1> QED
  BY <1>1, <1>2, <1>3, <1>4, <1>5, <1>6, <1>7, <1>8, <1>9, <1>10, <1>11, <1>12, <1>13, <1>14,
     <1>15, <1>16, <1>17, Steps DEF RequestStep
(* What a step of a request does to a call: it sends it, unless it was sent before and
   is not a create's reserve that is followed by the release; or stops waiting for it. *)
LEMMA CallMoves ==
  ASSUME TypeInv, LinkInv, NEW r \in Requests, RequestStep(r) \/ Crash(r), NEW c \in Calls
  PROVE  \/ call'[c] = call[c]
         \/ /\ call[c].state = "none" /\ call'[c].state = "sent"
         \/ /\ r \in Creates /\ Persist(r) /\ c = <<r, Req[r].order>>
            /\ call[c].state = "ok" /\ call'[c].state = "sent"
         \/ call'[c].state = call[c].state /\ call'[c].op = call[c].op
<1> USE KeyedFacts
<1>a. /\ call \in [Calls -> CallState] /\ PlaceOf(r, req[r])
      /\ \A o \in Orders : CallFits(r, o)
      /\ req \in [Requests -> RequestState]
  BY DEF TypeInv, TypeOK, OrderTypeOK, Places, LinkInv, CallsFit, RequestState
<1> DEFINE Goal == \/ call'[c] = call[c]
                   \/ /\ call[c].state = "none" /\ call'[c].state = "sent"
                   \/ /\ r \in Creates /\ Persist(r) /\ c = <<r, Req[r].order>>
                      /\ call[c].state = "ok" /\ call'[c].state = "sent"
                   \/ call'[c].state = call[c].state /\ call'[c].op = call[c].op
<1>1. CASE UNCHANGED call
  BY <1>1
<1>2. ASSUME NEW o \in Orders, NEW op, Send(r, o, op),
             \/ call[<<r, o>>].state = "none"
             \/ /\ call[<<r, o>>].state = "ok" /\ Persist(r) /\ r \in Creates
                /\ o = Req[r].order
      PROVE  Goal
  <2>1. /\ call'[<<r, o>>] = [op |-> op, state |-> "sent", waiting |-> TRUE]
        /\ c # <<r, o>> => call'[c] = call[c]
    BY <1>2, SendMoves
  <2>2. call'[<<r, o>>].state = "sent"
    BY <2>1
  <2> QED
    BY <1>2, <2>1, <2>2
<1>3. CASE Validate(r) \/ LoadForCancel(r) \/ LoadForPay(r)
  <2>1. req[r].pc \in Early /\ req[r].order \in Orders
    BY <1>3, <1>a DEF Validate, LoadForCancel, LoadForPay, At, Early, PlaceOf, Working
  <2>2. call[<<r, req[r].order>>].state = "none"
    BY <1>a, <2>1 DEF CallFits
  <2>3. UNCHANGED call \/ \E op : Send(r, req[r].order, op)
    BY <1>3 DEF Validate, LoadForCancel, LoadForPay
  <2> QED
    BY <1>1, <1>2, <2>1, <2>2, <2>3
<1>4. CASE CloseNext(r)
  <2>1. \A o \in req[r].todo : o \in Orders /\ call[<<r, o>>].state = "none"
    BY <1>a DEF CallFits, RequestState
  <2>2. UNCHANGED call \/ \E o \in req[r].todo : Send(r, o, "release")
    BY <1>4 DEF CloseNext
  <2> QED
    BY <1>1, <1>2, <2>1, <2>2
<1>5. CASE Persist(r)
  <2>1. /\ req[r].pc = "persist" /\ r \in Creates /\ req[r].order = Req[r].order
        /\ req[r].order \in Orders
    BY <1>5, <1>a DEF Persist, At, PlaceOf, Working, Creates, Keyed
  <2>2. call[<<r, req[r].order>>].state = "ok"
    BY <1>a, <2>1 DEF CallFits
  <2>3. UNCHANGED call \/ \E op : Send(r, req[r].order, op)
    BY <1>5 DEF Persist
  <2> QED
    BY <1>1, <1>2, <1>5, <2>1, <2>2, <2>3
<1>6. CASE TimedOut(r)
  BY <1>6, <1>a DEF TimedOut, CallState
<1> QED
  BY <1>1, <1>3, <1>4, <1>5, <1>6
     DEF RequestStep, Claim, Replay, Mark, ListExpired, Answered, Select, Update, Reload,
         DbError, Crash

LEMMA SameCommits ==
  ASSUME NEW c \in Calls
  PROVE  /\ InvP!Reserve(c) <=> Inv!Reserve(c)
         /\ InvP!Release(c) <=> Inv!Release(c)
         /\ InvP!ConfirmDeduct(c) <=> Inv!ConfirmDeduct(c)
  BY DEF InvP!Reserve, Inv!Reserve, InvP!Release, Inv!Release, InvP!ConfirmDeduct,
         Inv!ConfirmDeduct, InvP!Items, Inv!Items, InvP!Missing, Inv!Missing, InvP!Held,
         Inv!Held, InvP!SameQuantities, Inv!SameQuantities, InvP!Insertable,
         Inv!Insertable, InvP!CanReserve, Inv!CanReserve, InvP!CanRelease,
         Inv!CanRelease, InvP!CanConfirm, Inv!CanConfirm, InvP!Plus, Inv!Plus,
         InvP!Minus, Inv!Minus, InvP!WriteRows, Inv!WriteRows, InvP!Finish, Inv!Finish,
         InvP!NoRow, Inv!NoRow, InvP!Idle, Inv!Idle

\* An order's transaction ends in the commit that its call asked for, or in none.
LEMMA Served ==
  ASSUME TypeInv, LinkInv, NEW c \in Calls, Serve(c)
  PROVE  /\ call[c].state = "open" /\ c[2] \in Orders
         /\ tx[c].op = call[c].op /\ tx[c].order = c[2] /\ tx[c].op \in InvP!OrderOps
         /\ InvP!Items(tx[c]) = DOMAIN Basket[c[2]]
         /\ tx'[c] = Inv!Idle /\ \A d \in Calls : d # c => tx'[d] = tx[d]
         /\ \/ /\ call'[c].state \in {"ok", "lost"}
               /\ \/ call[c].op = "reserve" /\ InvP!Reserve(c)
                  \/ call[c].op = "release" /\ InvP!Release(c)
                  \/ call[c].op = "confirm" /\ InvP!ConfirmDeduct(c)
            \/ call'[c].state = "failed" /\ UNCHANGED resv
<1>1. /\ call[c].state = "open" /\ c[2] \in Orders
      /\ tx[c].op = call[c].op /\ tx[c].order = c[2] /\ tx[c].basket = Basket[c[2]]
      /\ call[c].op \in Inv!OrderOps
  BY DEF Serve, LinkInv, TxFits, Calls, TypeInv, CallsMade
<1>2. tx \in [Calls -> Inv!TxState]
  BY DEF TypeInv, TypeOK, Inv!TypeOK
<1>3. tx' = [tx EXCEPT ![c] = Inv!Idle]
  BY DEF Serve, Inv!Reserve, Inv!Release, Inv!ConfirmDeduct, Inv!Reject, Inv!Finish
<1>4. \/ /\ State(c, "ok") \/ State(c, "lost")
         /\ InvP!Reserve(c) \/ InvP!Release(c) \/ InvP!ConfirmDeduct(c)
      \/ State(c, "failed") /\ UNCHANGED resv
  BY SameCommits DEF Serve, Inv!Reject
<1>5. /\ InvP!Reserve(c) => tx[c].op = "reserve"
      /\ InvP!Release(c) => tx[c].op = "release"
      /\ InvP!ConfirmDeduct(c) => tx[c].op = "confirm"
  BY DEF InvP!Reserve, InvP!Release, InvP!ConfirmDeduct
<1>6. \/ /\ call'[c].state \in {"ok", "lost"}
         /\ InvP!Reserve(c) \/ InvP!Release(c) \/ InvP!ConfirmDeduct(c)
      \/ call'[c].state = "failed" /\ UNCHANGED resv
  BY <1>4, StateMoves
<1> QED
  BY <1>1, <1>2, <1>3, <1>5, <1>6 DEF InvP!Items, InvP!OrderOps, Inv!OrderOps

LEMMA TxFitsStep == TypeInv /\ LinkInv /\ [Next]_vars => TxFits'
<1> SUFFICES ASSUME TypeInv, LinkInv, [Next]_vars, NEW c \in Calls
             PROVE  /\ call'[c].state = "open" =>
                         /\ tx'[c].op = call'[c].op /\ tx'[c].order = c[2]
                         /\ tx'[c].basket = Basket[c[2]]
                    /\ call'[c].state # "open" => tx'[c] = Inv!Idle
  BY DEF TxFits
<1>a. /\ call[c].state = "open" =>
           tx[c].op = call[c].op /\ tx[c].order = c[2] /\ tx[c].basket = Basket[c[2]]
      /\ call[c].state # "open" => tx[c] = Inv!Idle
      /\ tx \in [Calls -> Inv!TxState]
  BY DEF LinkInv, TxFits, TypeInv, TypeOK, Inv!TypeOK
<1>1. ASSUME NEW r \in Requests, RequestStep(r) \/ Crash(r) PROVE tx' = tx
  BY <1>1, RequestsLeaveStock DEF stockVars
<1>2. ASSUME NEW r \in Requests, RequestStep(r) \/ Crash(r)
      PROVE  \/ call'[c].state = call[c].state /\ call'[c].op = call[c].op
             \/ call[c].state # "open" /\ call'[c].state # "open"
  BY <1>2, CallMoves
<1>3. ASSUME NEW d \in Calls, d # c, Deliver(d) \/ Serve(d) \/ InventoryError(d)
      PROVE  tx'[c] = tx[c] /\ call'[c] = call[c]
  <2>1. \E st : State(d, st)
    BY <1>3 DEF Deliver, Serve, InventoryError
  <2>2. \/ UNCHANGED tx
        \/ \E t : tx' = [tx EXCEPT ![d] = t]
    BY <1>3 DEF Deliver, Serve, InventoryError, Inv!Begin, Inv!Reserve, Inv!Release,
                Inv!ConfirmDeduct, Inv!Reject, Inv!Abort, Inv!Finish, stockVars
  <2> QED
    BY <1>3, <1>a, <2>1, <2>2, StateMoves
<1>4. CASE Deliver(c)
  <2>1. call'[c].state = "open" /\ call'[c].op = call[c].op
    BY <1>4, StateMoves DEF Deliver
  <2>2. tx' = [tx EXCEPT ![c] =
          [op |-> call[c].op, order |-> c[2], basket |-> Basket[c[2]],
           snap |-> Inv!Snapshot(c[2], Basket[c[2]])]]
    BY <1>4 DEF Deliver, Inv!Begin
  <2> QED
    BY <1>a, <2>1, <2>2
<1>5. CASE Serve(c)
  BY <1>5, Served
<1>6. CASE InventoryError(c)
  <2>1. call'[c].state = "failed"
    BY <1>6, StateMoves DEF InventoryError
  <2>2. \/ call[c].state = "sent" /\ tx' = tx
        \/ tx' = [tx EXCEPT ![c] = Inv!Idle]
    BY <1>6 DEF InventoryError, Inv!Abort, Inv!Finish, stockVars
  <2> QED
    BY <1>a, <2>1, <2>2
<1>7. CASE UNCHANGED vars \/ \E o \in Orders : Expire(o)
  BY <1>7, <1>a DEF vars, Expire, stockVars
<1> QED
  BY <1>a, <1>1, <1>2, <1>3, <1>4, <1>5, <1>6, <1>7, Steps

LEMMA LinkStep == TypeInv /\ LinkInv /\ [Next]_vars => LinkInv'
  BY CallsFitStep, TxFitsStep DEF LinkInv

LEMMA LinkInit == Init => LinkInv
<1> SUFFICES ASSUME Init PROVE LinkInv
  OBVIOUS
<1>1. CallsFit
  BY DEF Init, CallsFit, CallFits, Calls, Early
<1>2. TxFits
  BY DEF Init, TxFits
<1> QED
  BY <1>1, <1>2 DEF LinkInv
LEMMA StatusStep ==
  ASSUME TypeInv, [Next]_vars, NEW o \in Orders
  PROVE  \/ order'[o] = order[o]
         \/ \E r \in Creates : /\ Req[r].order = o /\ Persist(r)
                               /\ order'[o] = [order[o] EXCEPT !.status = "reserved"]
         \/ \E r \in Requests \ Creates : /\ req[r].order = o /\ Update(r)
                                          /\ order'[o] = Transition(r)
<1>a. order \in [Orders -> OrderRow]
  BY DEF TypeInv, TypeOK, OrderTypeOK
<1>b. \A r \in Requests : PlaceOf(r, req[r])
  BY DEF TypeInv, Places
<1>1. ASSUME NEW r \in Requests, Persist(r), order'[o] # order[o]
      PROVE  /\ r \in Creates /\ Req[r].order = o
             /\ order'[o] = [order[o] EXCEPT !.status = "reserved"]
  <2>1. r \in Creates /\ req[r].order = Req[r].order /\ Req[r].order \in Orders
    BY <1>1, <1>b, KeyedFacts DEF Persist, At, PlaceOf, Working, Creates, Keyed
  <2>2. UNCHANGED order \/ order' = [order EXCEPT ![Req[r].order].status = "reserved"]
    BY <1>1, <2>1 DEF Persist
  <2> QED
    BY <1>1, <1>a, <2>1, <2>2
<1>2. ASSUME NEW r \in Requests, Update(r), order'[o] # order[o]
      PROVE  r \in Requests \ Creates /\ req[r].order = o /\ order'[o] = Transition(r)
  <2>1. r \notin Creates /\ req[r].order \in Orders
    BY <1>2, <1>b DEF Update, At, PlaceOf, Working, Creates
  <2>2. order' = [order EXCEPT ![req[r].order] = Transition(r)]
    BY <1>2 DEF Update
  <2> QED
    BY <1>2, <1>a, <2>1, <2>2
<1>3. \/ UNCHANGED order
      \/ \E r \in Requests : Persist(r) \/ Update(r)
  BY DEF Next, RequestStep, Claim, Replay, Mark, Validate, LoadForCancel, LoadForPay,
         ListExpired, CloseNext, Answered, TimedOut, Select, Reload, DbError, Crash,
         Expire, Deliver, Serve, InventoryError, vars
<1> QED
  BY <1>1, <1>2, <1>3

\* A call turns "ok" when its transaction commits, and in no other way.
LEMMA TurnsOk ==
  ASSUME TypeInv, LinkInv, [Next]_vars, NEW c \in Calls, call'[c].state = "ok"
  PROVE  \/ call[c].state = "ok" /\ call'[c].op = call[c].op
         \/ Serve(c) /\ call'[c].op = call[c].op
<1>1. ASSUME NEW r \in Requests, RequestStep(r) \/ Crash(r)
      PROVE  call[c].state = "ok" /\ call'[c].op = call[c].op
  BY <1>1, CallMoves
<1>2. ASSUME NEW d \in Calls, Deliver(d) \/ Serve(d) \/ InventoryError(d), d # c
      PROVE  call'[c] = call[c]
  <2>1. \E st : State(d, st)
    BY <1>2 DEF Deliver, Serve, InventoryError
  <2> QED
    BY <1>2, <2>1, StateMoves
<1>3. CASE Deliver(c) \/ InventoryError(c)
  <2>1. call'[c].state \in {"open", "failed"}
    BY <1>3, StateMoves DEF Deliver, InventoryError
  <2> QED
    BY <2>1
<1>4. CASE Serve(c)
  <2>1. \E st : State(c, st)
    BY <1>4 DEF Serve
  <2> QED
    BY <1>4, <2>1, StateMoves
<1>5. CASE UNCHANGED vars \/ \E o \in Orders : Expire(o)
  BY <1>5 DEF vars, Expire
<1> QED
  BY <1>1, <1>2, <1>3, <1>4, <1>5, Steps

\* The rows of an order change only in a commit of a call for it.
LEMMA RowsMove ==
  ASSUME TypeInv, LinkInv, [Next]_vars, NEW o \in Orders, resv'[o] # resv[o]
  PROVE  \E q \in Requests : Serve(<<q, o>>) /\ call'[<<q, o>>].state \in {"ok", "lost"}
<1>1. PICK c \in Calls : Serve(c) /\ resv'[o] # resv[o]
  <2>1. ~UNCHANGED stockVars
    BY DEF stockVars
  <2>2. \A c \in Calls : Deliver(c) \/ InventoryError(c) => UNCHANGED resv
    BY DEF Deliver, InventoryError, Inv!Begin, Inv!Abort, stockVars
  <2> QED
    BY <2>1, <2>2, Steps, RequestsLeaveStock DEF Expire, vars, stockVars
<1>2. /\ call'[c].state \in {"ok", "lost"} /\ tx[c].order = c[2]
      /\ InvP!Reserve(c) \/ InvP!Release(c) \/ InvP!ConfirmDeduct(c)
  BY <1>1, Served
<1>3. \E S, st, b : resv' = InvP!WriteRows(c[2], S, st, b)
  BY <1>2 DEF InvP!Reserve, InvP!Release, InvP!ConfirmDeduct
<1>4. resv \in [Orders -> [Skus -> Inv!ReservationRow]]
  BY DEF TypeInv, TypeOK, Inv!TypeOK
<1>5. o = c[2]
  BY <1>1, <1>3, <1>4 DEF InvP!WriteRows
<1>6. c = <<c[1], o>> /\ c[1] \in Requests
  BY <1>5 DEF Calls
<1> QED
  BY <1>1, <1>2, <1>6

LEMMA BasketFacts ==
  \A o \in Orders : DOMAIN Basket[o] \subseteq Skus /\ DOMAIN Basket[o] # {}
  BY OrdersAssumption

LEMMA StockFacts ==
  ASSUME TypeInv, [Next]_vars
  PROVE  InvP!TypeOK /\ [InvP!Next]_(InvP!vars)
  BY StockStep, SameTypes DEF TypeInv, TypeOK

------------------------------------------------------------------------------
(* A settled order holds no stock, whatever overlaps: the call that let its request go
   on to the UPDATE left every row of the order final. *)

DoneFinal ==
  \A c \in Calls :
    call[c].state = "ok" /\ call[c].op # "reserve" => Rows(c[2]) \subseteq InvP!Final

HoldInv == LinkInv /\ InvP!SnapFinal /\ DoneFinal /\ SettledHoldsNothing

LEMMA FinalKept ==
  ASSUME TypeInv, [Next]_vars, NEW o \in Orders, Rows(o) \subseteq InvP!Final
  PROVE  Rows(o)' \subseteq InvP!Final
<1>1. ASSUME NEW s \in DOMAIN Basket[o] PROVE resv'[o][s].status \in InvP!Final
  <2>1. s \in Skus /\ resv[o][s].status \in InvP!Final
    BY BasketFacts DEF Rows
  <2> QED
    BY <2>1, StockFacts, InventoryAssumptions, InvP!FinalStep
<1> QED
  BY <1>1 DEF Rows

LEMMA DoneFinalStep == TypeInv /\ HoldInv /\ [Next]_vars => DoneFinal'
<1> SUFFICES ASSUME TypeInv, HoldInv, [Next]_vars,
                    NEW c \in Calls, call'[c].state = "ok", call'[c].op # "reserve"
             PROVE  Rows(c[2])' \subseteq InvP!Final
  BY DEF DoneFinal, Rows
<1>a. LinkInv /\ c[2] \in Orders
  BY DEF HoldInv, Calls
<1>1. CASE call[c].state = "ok" /\ call[c].op # "reserve"
  BY <1>1, <1>a, FinalKept DEF HoldInv, DoneFinal
<1>2. CASE Serve(c) /\ call[c].op # "reserve"
  <2> DEFINE o == c[2]
  <2>1. /\ tx[c].order = o /\ tx[c].op \in InvP!OrderOps
        /\ InvP!Items(tx[c]) = DOMAIN Basket[o]
        /\ InvP!Release(c) \/ InvP!ConfirmDeduct(c)
    BY <1>2, <1>a, Served
  <2>2. ASSUME NEW s \in DOMAIN Basket[o] PROVE resv'[o][s].status \in InvP!Final
    <3>1. \/ resv'[o][s].status \in {"released", "confirmed"}
          \/ /\ tx[c].snap[s].status \in {"released", "confirmed"}
             /\ resv'[o][s] = resv[o][s]
      <4>1. s \in InvP!Items(tx[c]) /\ InvP!TypeOK
        BY <2>1, StockFacts
      <4>2. CASE InvP!Release(c)
        BY <2>1, <4>1, <4>2, InventoryAssumptions, InvP!ReleasedRows
      <4>3. CASE InvP!ConfirmDeduct(c)
        BY <2>1, <4>1, <4>3, InventoryAssumptions, InvP!ConfirmedRows
      <4> QED
        BY <2>1, <4>2, <4>3
    <3>2. tx[c].snap[s].status \in InvP!Final => resv[o][s].status \in InvP!Final
      BY <2>1 DEF HoldInv, InvP!SnapFinal
    <3> QED
      BY <3>1, <3>2 DEF InvP!Final
  <2> QED
    BY <2>2 DEF Rows
<1> QED
  BY <1>a, <1>1, <1>2, TurnsOk

LEMMA HoldStep == TypeInv /\ HoldInv /\ [Next]_vars => HoldInv'
<1> SUFFICES ASSUME TypeInv, HoldInv, [Next]_vars PROVE HoldInv'
  OBVIOUS
<1>1. LinkInv' /\ DoneFinal'
  BY LinkStep, DoneFinalStep DEF HoldInv
<1>2. InvP!SnapFinal'
  BY StockFacts, InventoryAssumptions, InvP!SnapFinalStep DEF HoldInv
<1>3. ASSUME NEW o \in Orders, order'[o].status \in {"paid"} \cup Ended
      PROVE  Rows(o)' \cap {"none", "reserved"} = {}
  <2>1. Rows(o) \subseteq InvP!Final
    <3>1. CASE order'[o] = order[o]
      <4>1. Rows(o) \cap {"none", "reserved"} = {}
        BY <1>3, <3>1 DEF HoldInv, SettledHoldsNothing
      <4>2. \A s \in DOMAIN Basket[o] :
              resv[o][s].status \in {"none", "reserved", "released", "confirmed"}
        BY BasketFacts DEF TypeInv, TypeOK, Inv!TypeOK, Inv!ReservationRow
      <4> QED
        BY <4>1, <4>2 DEF Rows, InvP!Final
    <3>2. CASE \E r \in Requests \ Creates : req[r].order = o /\ Update(r)
      <4>1. PICK r \in Requests \ Creates : req[r].order = o /\ Update(r)
        BY <3>2
      <4>2. <<r, o>> \in Calls /\ CallFits(r, o) /\ req[r].pc = "update"
        BY <4>1 DEF HoldInv, LinkInv, CallsFit, Calls, Update, At
      <4>3. call[<<r, o>>].state = "ok" /\ call[<<r, o>>].op \in OpsOf(r)
        BY <4>1, <4>2 DEF CallFits
      <4>4. Req[r].kind # "create"
        BY <4>1, KeyedFacts DEF Creates, Keyed
      <4>5. call[<<r, o>>].op # "reserve"
        BY <4>3, <4>4 DEF OpsOf
      <4>6. <<r, o>>[2] = o
        OBVIOUS
      <4> QED
        BY <4>2, <4>3, <4>5, <4>6 DEF HoldInv, DoneFinal
    <3>3. CASE order'[o] = [order[o] EXCEPT !.status = "reserved"]
      <4>1. order[o] \in OrderRow
        BY DEF TypeInv, TypeOK, OrderTypeOK
      <4>2. order'[o].status = "reserved"
        BY <3>3, <4>1 DEF OrderRow
      <4> QED
        BY <1>3, <4>2 DEF Ended
    <3> QED
      BY <3>1, <3>2, <3>3, StatusStep
  <2>2. Rows(o)' \subseteq InvP!Final
    BY <2>1, FinalKept
  <2> QED
    BY <2>2 DEF InvP!Final
<1> QED
  BY <1>1, <1>2, <1>3 DEF HoldInv, SettledHoldsNothing, Rows

LEMMA HoldInit == Init => HoldInv
<1> SUFFICES ASSUME Init PROVE HoldInv
  OBVIOUS
<1>1. InvP!SnapFinal
  BY DEF Init, InvP!SnapFinal, Inv!Idle, InvP!OrderOps
<1>2. DoneFinal
  BY DEF Init, DoneFinal
<1>3. SettledHoldsNothing
  BY DEF Init, SettledHoldsNothing, Ended
<1> QED
  BY <1>1, <1>2, <1>3, LinkInit DEF HoldInv

(* SettledHoldsNothing: an order that is paid, cancelled or closed locks no stock any
   more, however the requests that settled it and their transactions overlap. *)
THEOREM NothingHeld == Spec => []SettledHoldsNothing
<1>1. Init => TypeInv /\ HoldInv
  BY InitTyped, HoldInit
<1>2. TypeInv /\ HoldInv /\ [Next]_vars => (TypeInv /\ HoldInv)'
  BY TypeStep, HoldStep
<1>3. HoldInv => SettledHoldsNothing
  BY DEF HoldInv
<1> QED
  BY <1>1, <1>2, <1>3, PTL DEF Spec

------------------------------------------------------------------------------
(* The order and its stock end the same way when no two transactions of an order
   overlap: a commit then leaves all rows released, or all confirmed, nothing changes
   them any more, and the UPDATE that settles the order follows such a commit. *)

DoneSettled ==
  \A c \in Calls : call[c].state = "ok" =>
    /\ call[c].op = "release" => Rows(c[2]) = {"released"}
    /\ call[c].op = "confirm" => Rows(c[2]) = {"confirmed"}

\* The order of a create that has not stored it yet does not exist.
Unborn ==
  \A r \in Creates :
    \/ req[r].pc \in {"start", "validate", "persist"}
    \/ req[r].pc = "await" /\ call[<<r, Req[r].order>>].op = "reserve"
    => order[Req[r].order].status = "none"

SettledInv == LinkInv /\ InvP!BackedInv /\ KnownOrders /\ Unborn /\ DoneSettled /\ Settled

\* Rows that are all final in the same way stay so.
LEMMA RowsFixed ==
  ASSUME TypeInv, InvP!BackedInv, [Next]_vars, NEW o \in Orders, NEW st \in InvP!Final,
         Rows(o) = {st}
  PROVE  Rows(o)' = {st}
<1>1. ASSUME NEW s \in DOMAIN Basket[o] PROVE resv'[o][s] = resv[o][s]
  <2>1. s \in Skus /\ resv[o][s].status \in InvP!Final
    BY BasketFacts DEF Rows
  <2> QED
    BY <2>1, StockFacts, InventoryAssumptions, InvP!FinalFixed DEF InvP!BackedInv
<1> QED
  BY <1>1 DEF Rows

LEMMA DoneSettledStep == TypeInv /\ SettledInv /\ [Next]_vars => DoneSettled'
<1> SUFFICES ASSUME TypeInv, SettledInv, [Next]_vars,
                    NEW c \in Calls, call'[c].state = "ok"
             PROVE  /\ call'[c].op = "release" => Rows(c[2])' = {"released"}
                    /\ call'[c].op = "confirm" => Rows(c[2])' = {"confirmed"}
  BY DEF DoneSettled, Rows
<1> DEFINE o == c[2]
<1>a. LinkInv /\ o \in Orders /\ InvP!BackedInv /\ DoneSettled
  BY DEF SettledInv, Calls
<1>1. CASE call[c].state = "ok" /\ call'[c].op = call[c].op
  <2>1. "released" \in InvP!Final /\ "confirmed" \in InvP!Final
    BY DEF InvP!Final
  <2> QED
    BY <1>1, <1>a, <2>1, RowsFixed DEF DoneSettled
<1>2. CASE Serve(c) /\ call'[c].op = call[c].op
  <2>1. /\ tx[c].order = o /\ tx[c].op \in InvP!OrderOps
        /\ InvP!Items(tx[c]) = DOMAIN Basket[o]
        /\ call[c].op = "release" => InvP!Release(c)
        /\ call[c].op = "confirm" => InvP!ConfirmDeduct(c)
    BY <1>2, <1>a, Served
  <2>2. ASSUME NEW s \in DOMAIN Basket[o]
        PROVE  s \in InvP!Items(tx[c]) /\ InvP!TypeOK /\ tx[c].snap[s] = resv[o][s]
    BY <2>1, <1>a, StockFacts DEF InvP!BackedInv, InvP!SnapFresh
  <2>3. CASE call[c].op = "release"
    <3>1. ASSUME NEW s \in DOMAIN Basket[o] PROVE resv'[o][s].status = "released"
      BY <2>1, <2>2, <2>3, InventoryAssumptions, InvP!ReleasedRows, SMTT(30)
    <3> QED
      BY <1>a, <1>2, <2>3, <3>1, BasketFacts DEF Rows
  <2>4. CASE call[c].op = "confirm"
    <3>1. ASSUME NEW s \in DOMAIN Basket[o] PROVE resv'[o][s].status = "confirmed"
      BY <2>1, <2>2, <2>4, InventoryAssumptions, InvP!ConfirmedRows, SMTT(30)
    <3> QED
      BY <1>a, <1>2, <2>4, <3>1, BasketFacts DEF Rows
  <2> QED
    BY <1>2, <2>3, <2>4
<1> QED
  BY <1>a, <1>1, <1>2, TurnsOk

\* The UPDATE of an order finds its stock settled the way the order now ends.
LEMMA UpdateFinds ==
  ASSUME TypeInv, SettledInv, NEW r \in Requests \ Creates, Update(r)
  PROVE  LET o == req[r].order IN
         /\ o \in Orders /\ Req[r].kind # "create"
         /\ \/ /\ Transition(r).status = "paid" /\ Req[r].kind = "pay"
               /\ Rows(o) = {"confirmed"}
            \/ /\ Transition(r).status \in Ended /\ Req[r].kind # "pay"
               /\ Rows(o) = {"released"}
<1> DEFINE o == req[r].order
           c == <<r, o>>
<1> USE KeyedFacts
<1>1. req[r].pc = "update" /\ o \in Orders /\ Req[r].kind # "create"
  BY DEF Update, At, TypeInv, Places, PlaceOf, Working
<1>2. c \in Calls /\ c[2] = o /\ CallFits(r, o)
  BY <1>1 DEF Calls, SettledInv, LinkInv, CallsFit
<1>3. call[c].state = "ok" /\ call[c].op \in OpsOf(r)
  BY <1>1, <1>2 DEF CallFits
<1>4. order[o] \in OrderRow
  BY <1>1 DEF TypeInv, TypeOK, OrderTypeOK
<1>5. /\ call[c].op = "release" => Rows(o) = {"released"}
      /\ call[c].op = "confirm" => Rows(o) = {"confirmed"}
  BY <1>2, <1>3 DEF SettledInv, DoneSettled
<1>6. CASE Req[r].kind = "pay"
  <2>1. Transition(r).status = "paid"
    BY <1>6 DEF Transition
  <2> QED
    BY <1>1, <1>3, <1>5, <1>6, <2>1 DEF OpsOf
<1>7. CASE Req[r].kind # "pay"
  <2>1. Transition(r).status \in Ended
    BY <1>1, <1>4, <1>7 DEF Transition, OrderRow, Ended, Kinds
  <2> QED
    BY <1>1, <1>3, <1>5, <1>7, <2>1 DEF OpsOf
<1> QED
  BY <1>6, <1>7

\* Storing an order finds that it does not exist.
LEMMA PersistFinds ==
  ASSUME TypeInv, SettledInv, NEW r \in Creates, Persist(r)
  PROVE  order[Req[r].order].status = "none"
  BY DEF Persist, At, SettledInv, Unborn

LEMMA UnbornStep == TypeInv /\ SettledInv /\ [Next]_vars => Unborn'
<1> SUFFICES ASSUME TypeInv, SettledInv, [Next]_vars, NEW r \in Creates,
                    \/ req'[r].pc \in {"start", "validate", "persist"}
                    \/ req'[r].pc = "await" /\ call'[<<r, Req[r].order>>].op = "reserve"
             PROVE  order'[Req[r].order].status = "none"
  BY DEF Unborn
<1> DEFINE o == Req[r].order
           c == <<r, o>>
<1>a. /\ r \in Requests /\ r \in Keyed /\ o \in Orders /\ c \in Calls
      /\ Req[r].kind = "create" /\ PlaceOf(r, req[r]) /\ LinkInv
      /\ req \in [Requests -> RequestState] /\ CallFits(r, o)
  BY CreateFacts DEF Creates, Calls, TypeInv, Places, SettledInv, TypeOK, OrderTypeOK, RequestState,
                     LinkInv, CallsFit
<1>1. order[o].status = "none"
  <2>1. SUFFICES ~(\/ req[r].pc \in {"start", "validate", "persist"}
                   \/ req[r].pc = "await" /\ call[c].op = "reserve")
                   => FALSE
    BY DEF SettledInv, Unborn
  <2> SUFFICES ASSUME req[r].pc \notin {"start", "validate", "persist"},
                      ~(req[r].pc = "await" /\ call[c].op = "reserve")
               PROVE  FALSE
    BY <2>1
  <2>2. ASSUME NEW q \in Requests, RequestStep(q) \/ Crash(q), q # r PROVE FALSE
    BY <2>2, <1>a, OthersKeep
  <2>3. ASSUME NEW d \in Calls, Deliver(d) \/ Serve(d) \/ InventoryError(d) PROVE FALSE
    <3>1. (\E st : State(d, st)) /\ req' = req
      BY <2>3 DEF Deliver, Serve, InventoryError
    <3> QED
      BY <3>1, <1>a, StateMoves
  <2>4. CASE UNCHANGED vars \/ \E d \in Orders : Expire(d)
    BY <2>4 DEF vars, Expire
  <2>5. CASE RequestStep(r) \/ Crash(r)
    <3>1. ASSUME NEW pc, Goto(r, pc), pc \in {"fail", "succeed", "dead", "next"} PROVE FALSE
      BY <3>1, <1>a, GotoMoves
    <3>2. ASSUME NEW a, Answer(r, a) PROVE FALSE
      BY <3>2, <1>a, AnswerMoves
    <3>3. ~Replay(r)
      BY <3>2, <1>a DEF Replay, RequestState
    <3>4. ~Answered(r)
      <4> SUFFICES ASSUME Answered(r) PROVE FALSE
        OBVIOUS
      <4>1. PICK pc : /\ Goto(r, pc)
                      /\ \/ pc \in {"fail", "next"}
                         \/ call[<<r, req[r].order>>].state = "ok" /\ pc = "persist"
                            /\ Req[r].kind = "create"
                            /\ call[<<r, req[r].order>>].op # "release"
                         \/ call[<<r, req[r].order>>].state = "ok" /\ pc = "select"
        BY <1>a, AnsweredGoes
      <4>2. req[r].pc = "await" /\ req[r].order = o /\ UNCHANGED call
        BY <1>a DEF Answered, At, PlaceOf, Working
      <4>3. req'[r].pc = pc
        BY <4>1, <1>a, GotoMoves
      <4>4. pc = "persist"
        BY <4>1, <4>3, <3>1
      <4>5. call[c].state = "ok" /\ call[c].op # "release"
        BY <4>1, <4>2, <4>4
      <4>6. call[c].op = "reserve"
        BY <4>5, <1>a DEF CallFits, OpsOf
      <4> QED
        BY <4>2, <4>6
    <3> QED
      BY <2>5, <3>1, <3>2, <3>3, <3>4, <1>a
         DEF RequestStep, Claim, Mark, Validate, LoadForCancel, LoadForPay, ListExpired,
             CloseNext, TimedOut, Persist, Select, Update, Reload, DbError, Crash, OnError,
             At, PlaceOf
  <2> QED
    BY <2>2, <2>3, <2>4, <2>5, Steps
<1>2. ~Persist(r) \/ order'[o] = order[o]
  <2> SUFFICES ASSUME Persist(r), ~UNCHANGED order PROVE FALSE
    BY DEF Persist
  <2>1. req[r].order = o /\ o \in Orders
    BY <1>a DEF Persist, At, PlaceOf, Working
  <2>2. \/ Goto(r, "succeed")
        \/ Goto(r, "await") /\ Send(r, o, "release")
    BY <2>1 DEF Persist
  <2>3. req'[r].pc \in {"succeed", "await"}
    <3>1. PICK pc \in {"succeed", "await"} : Goto(r, pc)
      BY <2>2
    <3> QED
      BY <3>1, <1>a, GotoMoves
  <2>4. CASE Goto(r, "succeed")
    <3>1. req'[r].pc = "succeed"
      BY <2>4, <1>a, GotoMoves
    <3> QED
      BY <3>1
  <2>5. CASE Send(r, o, "release")
    <3>1. call'[c] = [op |-> "release", state |-> "sent", waiting |-> TRUE]
      BY <2>5, <1>a, SendMoves
    <3>2. call'[c].op = "release"
      BY <3>1
    <3> QED
      BY <2>3, <3>2
  <2> QED
    BY <2>2, <2>4, <2>5
<1>3. ASSUME NEW q \in Requests \ Creates, req[q].order = o, Update(q) PROVE FALSE
  <2>1. order[o].status # "none"
    BY <1>3 DEF Update, At, SettledInv, KnownOrders
  <2> QED
    BY <1>1, <2>1
<1> QED
  BY <1>1, <1>2, <1>3, <1>a, StatusStep, CreateFacts
LEMMA SettledStep == TypeInv /\ SettledInv /\ [Next]_vars => Settled'
<1> SUFFICES ASSUME TypeInv, SettledInv, [Next]_vars, NEW o \in Orders
             PROVE  /\ order'[o].status = "paid" => Rows(o)' = {"confirmed"}
                    /\ order'[o].status \in Ended => Rows(o)' = {"released"}
  BY DEF Settled, Rows
<1>1. /\ order'[o].status = "paid" => Rows(o) = {"confirmed"}
      /\ order'[o].status \in Ended => Rows(o) = {"released"}
  <2>1. CASE order'[o] = order[o]
    BY <2>1 DEF SettledInv, Settled
  <2>2. CASE \E r \in Creates : order'[o] = [order[o] EXCEPT !.status = "reserved"]
    <3>1. order[o] \in OrderRow
      BY DEF TypeInv, TypeOK, OrderTypeOK
    <3>2. order'[o].status = "reserved"
      BY <2>2, <3>1 DEF OrderRow
    <3> QED
      BY <3>2 DEF Ended
  <2>3. CASE \E r \in Requests \ Creates : /\ req[r].order = o /\ Update(r)
                                           /\ order'[o] = Transition(r)
    BY <2>3, UpdateFinds DEF Ended
  <2> QED
    BY <2>1, <2>2, <2>3, StatusStep
<1>2. "released" \in InvP!Final /\ "confirmed" \in InvP!Final
  BY DEF InvP!Final
<1> QED
  BY <1>1, <1>2, RowsFixed DEF SettledInv

LEMMA SettledInvStep ==
  ASSUME ~SameOrderOverlap, TypeInv, TypeInv', KnownOrders', SettledInv, [Next]_vars
  PROVE  SettledInv'
<1>1. InvP!TypeOK /\ InvP!TypeOK'
  <2>1. InvP!TypeOK' <=> Inv!TypeOK'
    BY DEF InvP!TypeOK, Inv!TypeOK, InvP!TxState, Inv!TxState, InvP!ReservationRow,
           Inv!ReservationRow, InvP!Idle, Inv!Idle, InvP!OrderOps, Inv!OrderOps
  <2> QED
    BY <2>1, SameTypes DEF TypeInv, TypeOK
<1>2. InvP!BackedInv'
  BY <1>1, StockFacts, InventoryAssumptions, InvP!BackedStep DEF SettledInv
<1> QED
  BY <1>2, LinkStep, UnbornStep, DoneSettledStep, SettledStep DEF SettledInv

LEMMA SettledInit == Init => SettledInv
<1> SUFFICES ASSUME Init PROVE SettledInv
  OBVIOUS
<1>1. InvP!BackedInv
  <2>1. \A s \in Skus : InvP!HeldUnits(s) = Inv!HeldUnits(s)
    BY DEF InvP!HeldUnits, Inv!HeldUnits
  <2>2. InvP!ReservedBacked
    <3>1. \A s \in Skus : reserved[s] = Cardinality(Inv!HeldUnits(s))
      BY DEF Init
    <3> QED
      BY <2>1, <3>1, SameFiniteSets DEF InvP!ReservedBacked
  <2>3. InvP!HeldFinite
    BY <2>1, InitHeldFinite, SameFiniteSets DEF InvP!HeldFinite
  <2>4. InvP!HeldIsStocked /\ InvP!OrderAlone /\ InvP!SnapFresh
    BY DEF Init, InvP!HeldIsStocked, InvP!OrderAlone, InvP!SnapFresh, Inv!Idle, InvP!OrderOps
  <2> QED
    BY <2>2, <2>3, <2>4 DEF InvP!BackedInv
<1>2. KnownOrders
  BY KeyInit DEF KeyInv
<1>3. Unborn
  BY RequestsAssumption DEF Init, Unborn, Creates
<1>4. DoneSettled /\ Settled
  BY DEF Init, DoneSettled, Settled, Ended
<1> QED
  BY <1>1, <1>2, <1>3, <1>4, LinkInit DEF SettledInv

\* What the theorems below rest on.
StepInv == TypeInv /\ KeyInv /\ SettledInv

LEMMA StepInvHolds == ~SameOrderOverlap => (Spec => []StepInv)
<1> SUFFICES ASSUME ~SameOrderOverlap PROVE Spec => []StepInv
  OBVIOUS
<1>1. Init => StepInv
  BY InitTyped, KeyInit, SettledInit DEF StepInv
<1>2. StepInv /\ [Next]_vars => StepInv'
  <2> SUFFICES ASSUME StepInv, [Next]_vars PROVE StepInv'
    OBVIOUS
  <2>1. TypeInv' /\ KeyInv'
    BY TypeStep, KeyStep DEF StepInv
  <2>2. KnownOrders'
    BY <2>1 DEF KeyInv
  <2> QED
    BY <2>1, <2>2, SettledInvStep DEF StepInv
<1> QED
  BY <1>1, <1>2, PTL DEF Spec

(* Settled: while no two inventory transactions of an order overlap, all of a paid
   order's stock was deducted and all of a cancelled or closed order's was given back. *)
THEOREM SettledWithoutOverlap == ~SameOrderOverlap => (Spec => []Settled)
<1> SUFFICES ASSUME ~SameOrderOverlap PROVE Spec => []Settled
  OBVIOUS
<1>1. StepInv => Settled
  BY DEF StepInv, SettledInv
<1> QED
  BY <1>1, StepInvHolds, PTL

------------------------------------------------------------------------------
(* What was settled stays settled: the two UPDATEs that could follow it would have to
   find the stock settled in two ways, and the INSERT finds no order. *)

LEMMA FinalMoves ==
  ASSUME StepInv, [Next]_vars, NEW o \in Orders
  PROVE  /\ order[o].status = "paid" => order'[o].status = "paid"
         /\ order[o].status \in Ended => order'[o].status \in Ended
<1>a. TypeInv /\ SettledInv
  BY DEF StepInv
<1>1. CASE order'[o] = order[o]
  BY <1>1
<1>2. CASE \E r \in Creates : Req[r].order = o /\ Persist(r)
  <2>1. order[o].status = "none"
    BY <1>2, <1>a, PersistFinds
  <2> QED
    BY <2>1 DEF Ended
<1>3. CASE \E r \in Requests \ Creates : /\ req[r].order = o /\ Update(r)
                                         /\ order'[o] = Transition(r)
  <2>1. \/ order'[o].status = "paid" /\ Rows(o) = {"confirmed"}
        \/ order'[o].status \in Ended /\ Rows(o) = {"released"}
    BY <1>3, <1>a, UpdateFinds
  <2>2. /\ order[o].status = "paid" => Rows(o) = {"confirmed"}
        /\ order[o].status \in Ended => Rows(o) = {"released"}
    BY <1>a DEF SettledInv, Settled
  <2> QED
    BY <2>1, <2>2
<1> QED
  BY <1>1, <1>2, <1>3, <1>a, StatusStep

(* FinalStatus: while no two inventory transactions of an order overlap, a paid order
   stays paid and a cancelled or closed one never becomes anything else. *)
THEOREM FinalWithoutOverlap == ~SameOrderOverlap => (Spec => FinalStatus)
<1> SUFFICES ASSUME ~SameOrderOverlap PROVE Spec => FinalStatus
  OBVIOUS
<1>1. StepInv /\ [Next]_vars
        => [\A o \in Orders :
              /\ order[o].status = "paid" => order'[o].status = "paid"
              /\ order[o].status \in Ended => order'[o].status \in Ended]_vars
  BY FinalMoves
<1> QED
  BY <1>1, StepInvHolds, PTL DEF Spec, FinalStatus

------------------------------------------------------------------------------
(* Answers stay true.  What a succeeded record or a request about to answer says of an
   order is true when it is written, and stays so. *)

\* What the success of a request of this kind says of its order's status.
Stands(kind, st) ==
  CASE kind = "create" -> st # "none"
    [] kind = "cancel" -> st \in Ended
    [] kind = "pay"    -> st = "paid"
    [] OTHER           -> TRUE

AnswersInv ==
  /\ \A r \in Keyed : req[r].answer = "ok" \/ req[r].pc = "succeed" =>
       req[r].order \in Orders /\ Stands(Req[r].kind, order[req[r].order].status)
  /\ \A k \in Keys : rec[k].status = "succeeded" =>
       rec[k].order \in Orders /\ Stands(k[1], order[rec[k].order].status)

LEMMA StandsKept ==
  ASSUME StepInv, [Next]_vars, NEW kind \in Kinds, NEW o \in Orders,
         Stands(kind, order[o].status)
  PROVE  Stands(kind, order'[o].status)
<1>1. order[o].status # "none" => order'[o].status # "none"
  BY OrderStep DEF StepInv, KeyInv
<1>2. CASE kind = "create"
  BY <1>1, <1>2 DEF Stands
<1>3. CASE kind = "cancel"
  BY <1>3, FinalMoves DEF Stands
<1>4. CASE kind = "pay"
  BY <1>4, FinalMoves DEF Stands
<1>5. CASE kind = "close"
  BY <1>5 DEF Stands
<1> QED
  BY <1>2, <1>3, <1>4, <1>5 DEF Kinds

\* A request that goes on to its success finds, or makes, it true.
LEMMA Succeeds ==
  ASSUME TypeInv, NEW r \in Keyed, RequestStep(r), Goto(r, "succeed")
  PROVE  req[r].order \in Orders /\ Stands(Req[r].kind, order'[req[r].order].status)
<1> USE KeyedFacts
<1> DEFINE o == req[r].order
<1>a. /\ r \in Requests /\ PlaceOf(r, req[r]) /\ req \in [Requests -> RequestState]
      /\ order \in [Orders -> OrderRow]
  BY DEF Keyed, TypeInv, TypeOK, OrderTypeOK, RequestState, Places
<1>b. req'[r].pc = "succeed" /\ req'[r].order = o
  BY <1>a, GotoMoves
<1>c. ASSUME NEW pc, Goto(r, pc) PROVE pc = "succeed"
  <2>1. req'[r].pc = pc
    BY <1>a, <1>c, GotoMoves
  <2> QED
    BY <1>b, <2>1
<1>d. ASSUME NEW a PROVE ~Answer(r, a)
  <2> SUFFICES ASSUME Answer(r, a) PROVE FALSE
    OBVIOUS
  <2>1. req'[r].pc = "done"
    BY <1>a, AnswerMoves
  <2> QED
    BY <1>b, <2>1
<1>1. CASE LoadForCancel(r)
  <2>1. order[o].status \in Ended /\ UNCHANGED order /\ Req[r].kind = "cancel" /\ At(r, "load")
    BY <1>1, <1>c DEF LoadForCancel
  <2> QED
    BY <1>a, <1>b, <2>1 DEF Stands, At, PlaceOf, Working
<1>2. CASE LoadForPay(r)
  <2>1. order[o].status = "paid" /\ UNCHANGED order /\ Req[r].kind = "pay" /\ At(r, "load")
    BY <1>2, <1>c DEF LoadForPay
  <2> QED
    BY <1>a, <1>b, <2>1 DEF Stands, At, PlaceOf, Working
<1>3. CASE Persist(r)
  <2>1. order' = [order EXCEPT ![o].status = "reserved"] /\ At(r, "persist")
    BY <1>3, <1>c DEF Persist
  <2>2. o \in Orders /\ Req[r].kind = "create"
    BY <1>a, <2>1 DEF At, PlaceOf, Working
  <2>3. order'[o].status = "reserved"
    BY <1>a, <2>1, <2>2 DEF OrderRow
  <2> QED
    BY <1>b, <2>2, <2>3 DEF Stands
<1>4. CASE Update(r)
  <2>1. order' = [order EXCEPT ![o] = Transition(r)] /\ At(r, "update")
    BY <1>4 DEF Update
  <2>2. o \in Orders /\ Req[r].kind \in {"pay", "cancel"}
    BY <1>a, <2>1 DEF At, PlaceOf, Working, Kinds
  <2>3. order'[o] = Transition(r) /\ order[o] \in OrderRow
    BY <1>a, <2>1, <2>2
  <2>4. CASE Req[r].kind = "pay"
    <3>1. Transition(r).status = "paid"
      BY <2>4 DEF Transition
    <3> QED
      BY <1>b, <2>2, <2>3, <2>4, <3>1 DEF Stands
  <2>5. CASE Req[r].kind = "cancel"
    <3>1. Transition(r).status = "cancelled"
      BY <2>3, <2>5 DEF Transition, OrderRow
    <3> QED
      BY <1>b, <2>2, <2>3, <2>5, <3>1 DEF Stands, Ended
  <2> QED
    BY <2>2, <2>4, <2>5
<1>5. CASE Reload(r)
  <2>1. order[o].status \in Ended /\ UNCHANGED order /\ At(r, "reload")
    BY <1>5, <1>c DEF Reload
  <2>2. o \in Orders /\ Req[r].kind = "cancel"
    BY <1>a, <2>1 DEF At, PlaceOf, Working
  <2> QED
    BY <1>a, <1>b, <2>1, <2>2 DEF Stands
<1>6. ~Replay(r) /\ ~ListExpired(r) /\ ~CloseNext(r)
  <2>1. ~ListExpired(r) /\ ~CloseNext(r)
    BY <1>a DEF ListExpired, CloseNext, At, PlaceOf
  <2>2. ASSUME Replay(r) PROVE FALSE
    <3>1. req' = [req EXCEPT ![r].pc = "done", ![r].answer = "ok",
                             ![r].order = rec[Key(r)].order]
      BY <2>2, <1>d DEF Replay
    <3>2. req'[r].pc = "done"
      BY <3>1, <1>a DEF RequestState
    <3> QED
      BY <3>2, <1>b
  <2> QED
    BY <2>1, <2>2
<1>7. ~Answered(r)
  BY <1>a, <1>c, AnsweredGoes
<1> QED
  BY <1>1, <1>2, <1>3, <1>4, <1>5, <1>6, <1>7, <1>c, <1>d
     DEF RequestStep, Claim, Mark, Validate, TimedOut, Select, DbError, OnError
LEMMA AnswersStep == StepInv /\ AnswersInv /\ [Next]_vars => AnswersInv'
<1> SUFFICES ASSUME StepInv, AnswersInv, [Next]_vars PROVE AnswersInv'
  OBVIOUS
<1> USE KeyedFacts
<1>a. /\ TypeInv
      /\ req \in [Requests -> RequestState] /\ rec \in [Keys -> RecordRow]
      /\ \A r \in Keyed : r \in Requests
  BY DEF StepInv, TypeInv, TypeOK, OrderTypeOK, RequestState, Keyed
<1>b. \A k \in Keys : k[1] \in Kinds
  BY DEF Keys, Key, Keyed
<1>c. \A kind \in Kinds, o \in Orders :
        Stands(kind, order[o].status) => Stands(kind, order'[o].status)
  BY StandsKept
<1>1. ASSUME NEW r \in Keyed, req'[r].answer = "ok" \/ req'[r].pc = "succeed"
      PROVE  req'[r].order \in Orders /\ Stands(Req[r].kind, order'[req'[r].order].status)
  <2>1. CASE /\ req[r].answer = "ok" \/ req[r].pc = "succeed"
             /\ req'[r].order = req[r].order
    BY <2>1, <1>a, <1>c DEF AnswersInv
  <2>2. ASSUME NEW q \in Requests, RequestStep(q) \/ Crash(q), q # r
        PROVE  req'[r] = req[r]
    BY <2>2, <1>a, OthersKeep
  <2>3. CASE RequestStep(r) /\ Goto(r, "succeed")
    <3>1. req'[r].order = req[r].order
      BY <2>3, <1>a, GotoMoves
    <3> QED
      BY <2>3, <1>a, <3>1, Succeeds
  <2>4. ASSUME NEW pc, Goto(r, pc), pc # "succeed"
        PROVE  req[r].answer = "ok" /\ req'[r].order = req[r].order
    BY <1>1, <2>4, <1>a, GotoMoves
  <2>5. ASSUME NEW a, Answer(r, a)
        PROVE  a = "ok" /\ req'[r].order = req[r].order
    BY <1>1, <2>5, <1>a, AnswerMoves
  <2>6. CASE Replay(r)
    <3>1. CASE Answer(r, "busy") \/ Answer(r, "sealed")
      BY <3>1, <2>5
    <3>2. CASE /\ rec[Key(r)].status = "succeeded"
               /\ req' = [req EXCEPT ![r].pc = "done", ![r].answer = "ok",
                                     ![r].order = rec[Key(r)].order]
      <4>1. req'[r].order = rec[Key(r)].order /\ Key(r) \in Keys /\ Key(r)[1] = Req[r].kind
        BY <3>2, <1>a DEF RequestState, Key
      <4>2. /\ rec[Key(r)].order \in Orders
            /\ Stands(Req[r].kind, order[rec[Key(r)].order].status)
        BY <3>2, <4>1 DEF AnswersInv
      <4> QED
        BY <4>1, <4>2, <1>c, <1>a
    <3> QED
      BY <2>6, <3>1, <3>2 DEF Replay
  <2>7. CASE Mark(r)
    BY <2>7, <2>1, <2>5 DEF Mark, At
  <2>8. ~ListExpired(r) /\ ~CloseNext(r)
    <3>1. PlaceOf(r, req[r]) /\ Req[r].kind # "close"
      BY <1>a DEF TypeInv, Places, Keyed
    <3> QED
      BY <3>1 DEF ListExpired, CloseNext, At, PlaceOf
  <2>9. CASE RequestStep(r)
    <3>1. \/ \E pc : Goto(r, pc)
          \/ Answer(r, "error") \/ Mark(r) \/ Replay(r)
      BY <2>8, <2>9 DEF RequestStep, Claim, Validate, LoadForCancel, LoadForPay, Answered,
                        TimedOut, Persist, Select, Update, Reload, DbError
    <3> QED
      BY <2>9, <3>1, <2>1, <2>3, <2>4, <2>5, <2>6, <2>7
  <2>10. CASE UNCHANGED req
    BY <2>10, <2>1, <1>1
  <2>11. CASE Crash(r)
    BY <2>11, <2>1, <2>4 DEF Crash
  <2> QED
    BY <1>1, <2>1, <2>2, <2>9, <2>10, <2>11, Steps DEF Expire, Deliver, Serve, InventoryError, vars
<1>2. ASSUME NEW k \in Keys, rec'[k].status = "succeeded"
      PROVE  rec'[k].order \in Orders /\ Stands(k[1], order'[rec'[k].order].status)
  <2>1. CASE rec'[k] = rec[k]
    BY <1>2, <2>1, <1>b, <1>c DEF AnswersInv
  <2>2. CASE \E r \in Keyed : rec' = [rec EXCEPT ![Key(r)] =
                  Row("pending", IF Req[r].kind = "create" THEN NoOrder ELSE Req[r].order)]
    <3>1. rec'[k] # rec[k] => rec'[k].status = "pending"
      BY <2>2, <1>a DEF Row
    <3> QED
      BY <1>2, <2>1, <3>1
  <2>3. ASSUME NEW r \in Keyed, Mark(r), rec'[k] # rec[k]
        PROVE  rec'[k].order \in Orders /\ Stands(k[1], order'[rec'[k].order].status)
    <3>1. PICK row : rec' = [rec EXCEPT ![Key(r)] = row] /\
                     row = IF At(r, "succeed") THEN Row("succeeded", req[r].order)
                           ELSE Row("failed", rec[Key(r)].order)
      BY <2>3 DEF Mark
    <3>2. k = Key(r) /\ rec'[k] = row
      BY <2>3, <3>1, <1>a
    <3>3. At(r, "succeed") /\ rec'[k].order = req[r].order
      BY <1>2, <3>1, <3>2 DEF Row
    <3>4. req[r].order \in Orders /\ Stands(k[1], order[req[r].order].status)
      BY <3>2, <3>3 DEF AnswersInv, At, Key
    <3> QED
      BY <3>3, <3>4, <1>b, <1>c
  <2>4. \/ UNCHANGED rec
        \/ \E r \in Keyed : rec' = [rec EXCEPT ![Key(r)] =
                Row("pending", IF Req[r].kind = "create" THEN NoOrder ELSE Req[r].order)]
        \/ \E r \in Keyed : Mark(r)
    <3>1. \A r \in Requests : Mark(r) => r \in Keyed
      BY <1>a DEF Mark, At, TypeInv, Places, PlaceOf
    <3> QED
      BY <3>1 DEF Next, RequestStep, Claim, Replay, Validate, LoadForCancel, LoadForPay,
             ListExpired, CloseNext, Answered, TimedOut, Persist, Select, Update, Reload,
             DbError, Crash, Expire, Deliver, Serve, InventoryError, vars
  <2> QED
    BY <2>1, <2>2, <2>3, <2>4
<1> QED
  BY <1>1, <1>2 DEF AnswersInv

(* AnswersHold: while no two inventory transactions of an order overlap, what a request
   was told is true, and stays true whatever comes after. *)
THEOREM AnswersWithoutOverlap == ~SameOrderOverlap => (Spec => []AnswersHold)
<1> SUFFICES ASSUME ~SameOrderOverlap PROVE Spec => []AnswersHold
  OBVIOUS
<1>1. Init => AnswersInv
  BY DEF Init, AnswersInv, Row, Keyed
<1>2. StepInv /\ AnswersInv /\ [Next]_vars => AnswersInv'
  BY AnswersStep
<1>3. AnswersInv => AnswersHold
  BY KeyedFacts DEF AnswersInv, AnswersHold, Stands, Kinds, Keyed
<1> QED
  BY <1>1, <1>2, <1>3, StepInvHolds, PTL DEF Spec

------------------------------------------------------------------------------
(* Stock locked for an order that does not exist, whatever overlaps: its create is still
   on its way to the INSERT or to the compensating release, or was cut off there. *)

\* The error that makes a create give its stock up.
Refused(c) ==
  \/ call[c].op = "reserve" /\ call[c].state = "lost"
  \/ call[c].op = "release" /\ call[c].state = "failed"

Orphaned(r, o) ==
  LET c == <<r, o>> IN
  /\ \/ call[c].op = "reserve" /\ call[c].state \in {"ok", "lost"}
     \/ call[c].op = "release" /\ call[c].state \in {"sent", "open", "failed"}
  /\ \/ req[r].pc \in {"await", "persist", "dead"}
     \/ ~call[c].waiting
     \/ Refused(c)

OrphanInv ==
  \A o \in Orders :
    order[o].status = "none" /\ "reserved" \in Rows(o) =>
      \E r \in Creates : Req[r].order = o /\ Orphaned(r, o)

\* A step of the create itself.
LEMMA OrphanMoves ==
  ASSUME TypeInv, LinkInv, NEW r \in Creates, RequestStep(r) \/ Crash(r),
         Orphaned(r, Req[r].order), order'[Req[r].order].status = "none"
  PROVE  Orphaned(r, Req[r].order)'
<1> DEFINE o == Req[r].order
           c == <<r, o>>
<1>a. /\ r \in Requests /\ r \in Keyed /\ o \in Orders /\ c \in Calls
      /\ Req[r].kind = "create" /\ PlaceOf(r, req[r]) /\ CallFits(r, o)
      /\ req \in [Requests -> RequestState] /\ call \in [Calls -> CallState]
      /\ order \in [Orders -> OrderRow]
  BY CreateFacts DEF Creates, Calls, TypeInv, Places, TypeOK, OrderTypeOK, RequestState,
                     LinkInv, CallsFit
<1>b. req[r].pc \notin Early
  BY <1>a DEF Orphaned, CallFits
\* The request moves on without a call: it was, or is now, where no call follows.
<1>c. ASSUME NEW pc, Goto(r, pc), UNCHANGED call,
             \/ req[r].pc \notin {"await", "persist", "dead"}
             \/ pc \in {"persist", "dead"}
             \/ ~call[c].waiting
             \/ Refused(c)
      PROVE  Orphaned(r, o)'
  <2>1. req'[r].pc = pc
    BY <1>a, <1>c, GotoMoves
  <2> QED
    BY <1>c, <2>1 DEF Orphaned, Refused
<1>1. CASE Answered(r)
  <2>1. PICK pc : /\ Goto(r, pc)
                  /\ \/ pc \in {"fail", "next"}
                     \/ call[<<r, req[r].order>>].state = "ok" /\ pc = "persist"
                        /\ Req[r].kind = "create"
                        /\ call[<<r, req[r].order>>].op # "release"
                     \/ call[<<r, req[r].order>>].state = "ok" /\ pc = "select"
    BY <1>1, <1>a, AnsweredGoes
  <2>2. req[r].order = o /\ call[c].state \in Answers /\ UNCHANGED call
    BY <1>1, <1>a DEF Answered, At, PlaceOf, Working
  <2>3. CASE call[c].op = "reserve" /\ call[c].state = "ok"
    <3>1. Goto(r, "persist")
      BY <1>1, <1>a, <2>2, <2>3 DEF Answered
    <3> QED
      BY <1>c, <2>2, <3>1
  <2> QED
    BY <1>c, <2>1, <2>2, <2>3 DEF Orphaned, Refused, Answers
<1>2. CASE TimedOut(r)
  <2>1. call' = [call EXCEPT ![c].waiting = FALSE]
    BY <1>2, <1>a DEF TimedOut, At, PlaceOf, Working
  <2>2. call'[c].waiting = FALSE /\ call'[c].op = call[c].op /\ call'[c].state = call[c].state
    BY <2>1, <1>a DEF CallState
  <2> QED
    BY <2>2 DEF Orphaned, Refused
<1>3. CASE Persist(r)
  <2>1. req[r].order = o
    BY <1>3, <1>a DEF Persist, At, PlaceOf, Working
  <2>2. order' # [order EXCEPT ![o].status = "reserved"]
    BY <1>a DEF OrderRow
  <2>3. Goto(r, "await") /\ Send(r, o, "release")
    BY <1>3, <2>1, <2>2 DEF Persist
  <2>4. req'[r].pc = "await"
    BY <1>a, <2>3, GotoMoves
  <2>5. call'[c] = [op |-> "release", state |-> "sent", waiting |-> TRUE]
    BY <1>a, <2>3, SendMoves
  <2>6. call'[c].op = "release" /\ call'[c].state = "sent"
    BY <2>5
  <2> QED
    BY <2>4, <2>6 DEF Orphaned, Refused
<1>4. CASE Mark(r)
  <2>1. req[r].pc \in {"succeed", "fail"} /\ UNCHANGED call /\ \E a : Answer(r, a)
    BY <1>4 DEF Mark, At
  <2> QED
    BY <2>1 DEF Orphaned, Refused
<1>5. CASE Crash(r)
  BY <1>5, <1>c DEF Crash
<1> QED
  <2>1. req[r].pc \notin {"start", "validate", "load", "select", "update", "reload", "next"}
    BY <1>a, <1>b DEF PlaceOf, Early
  <2> QED
    BY <1>1, <1>2, <1>3, <1>4, <1>5, <2>1
       DEF RequestStep, Claim, Replay, Validate, LoadForCancel, LoadForPay, ListExpired,
           CloseNext, Select, Update, Reload, DbError, At

LEMMA OrphanStep ==
  ASSUME TypeInv, KnownOrders, LinkInv, InvP!SnapFinal, OrphanInv, [Next]_vars
  PROVE  OrphanInv'
<1> SUFFICES ASSUME NEW o \in Orders, order'[o].status = "none", "reserved" \in Rows(o)'
             PROVE  \E r \in Creates : Req[r].order = o /\ Orphaned(r, o)'
  BY DEF OrphanInv
<1>a. order[o].status = "none"
  BY OrderStep
\* Rows that a release wrote are not reserved.
<1>b. ASSUME NEW c \in Calls, c[2] = o, Serve(c), call'[c].state \in {"ok", "lost"},
             call[c].op # "reserve"
      PROVE  FALSE
  <2>1. /\ tx[c].order = o /\ tx[c].op \in InvP!OrderOps
        /\ InvP!Items(tx[c]) = DOMAIN Basket[o]
        /\ InvP!Release(c) \/ InvP!ConfirmDeduct(c)
    BY <1>b, Served
  <2>2. PICK s \in DOMAIN Basket[o] : resv'[o][s].status = "reserved"
    BY DEF Rows
  <2>3. s \in InvP!Items(tx[c]) /\ InvP!TypeOK
    BY <2>1, StockFacts
  <2>4. \/ resv'[o][s].status \in {"released", "confirmed"}
        \/ /\ tx[c].snap[s].status \in {"released", "confirmed"}
           /\ resv'[o][s] = resv[o][s]
    <3>1. CASE InvP!Release(c)
      BY <2>1, <2>3, <3>1, InventoryAssumptions, InvP!ReleasedRows
    <3>2. CASE InvP!ConfirmDeduct(c)
      BY <2>1, <2>3, <3>2, InventoryAssumptions, InvP!ConfirmedRows
    <3> QED
      BY <2>1, <3>1, <3>2
  <2>5. tx[c].snap[s].status \in InvP!Final => resv[o][s].status \in InvP!Final
    BY <2>1, <2>3 DEF InvP!SnapFinal
  <2> QED
    BY <2>2, <2>4, <2>5 DEF InvP!Final
<1>1. CASE "reserved" \in Rows(o)
  <2>1. PICK r \in Creates : Req[r].order = o /\ Orphaned(r, o)
    BY <1>1, <1>a DEF OrphanInv
  <2> DEFINE c == <<r, o>>
  <2>2. r \in Requests /\ c \in Calls /\ c[2] = o
    BY CreateFacts DEF Calls
  <2>3. CASE RequestStep(r) \/ Crash(r)
    BY <2>1, <2>3, OrphanMoves
  <2>4. ASSUME NEW q \in Requests, RequestStep(q) \/ Crash(q), q # r
        PROVE  Orphaned(r, o)'
    <3>1. req'[r] = req[r] /\ call'[c] = call[c]
      BY <2>2, <2>4, OthersKeep
    <3> QED
      BY <2>1, <3>1 DEF Orphaned, Refused
  <2>5. ASSUME NEW d \in Calls, Deliver(d) \/ Serve(d) \/ InventoryError(d)
        PROVE  Orphaned(r, o)'
    <3>1. req' = req /\ \E st : State(d, st)
      BY <2>5 DEF Deliver, Serve, InventoryError
    <3>2. CASE d # c
      <4>1. call'[c] = call[c]
        BY <2>2, <3>1, <3>2, StateMoves
      <4> QED
        BY <2>1, <3>1, <4>1 DEF Orphaned, Refused
    <3>3. CASE d = c
      <4>1. PICK st : State(c, st) /\ \/ st = "open"
                                      \/ st = "failed"
                                      \/ st \in {"ok", "lost"} /\ Serve(c)
        BY <2>5, <3>3 DEF Deliver, Serve, InventoryError
      <4>2. /\ call'[c].op = call[c].op /\ call'[c].waiting = call[c].waiting
            /\ call'[c].state = st /\ call[c].state \in {"sent", "open"}
        BY <2>2, <2>5, <3>3, <4>1, StateMoves DEF Deliver, Serve, InventoryError
      <4>3. call[c].op = "release"
        BY <2>1, <4>2 DEF Orphaned
      <4>4. st \notin {"ok", "lost"}
        BY <1>b, <2>2, <4>1, <4>2, <4>3
      <4> QED
        BY <2>1, <3>1, <4>1, <4>2, <4>3, <4>4 DEF Orphaned, Refused
    <3> QED
      BY <3>2, <3>3
  <2>6. CASE UNCHANGED vars \/ \E d \in Orders : Expire(d)
    BY <2>1, <2>6 DEF vars, Expire, Orphaned, Refused
  <2> QED
    BY <2>1, <2>3, <2>4, <2>5, <2>6, Steps
<1>2. CASE "reserved" \notin Rows(o)
  <2>1. resv'[o] # resv[o]
    BY <1>2 DEF Rows
  <2>2. PICK q \in Requests : Serve(<<q, o>>) /\ call'[<<q, o>>].state \in {"ok", "lost"}
    BY <2>1, RowsMove
  <2> DEFINE c == <<q, o>>
  <2>3. c \in Calls /\ c[2] = o /\ CallFits(q, o)
    BY DEF Calls, LinkInv, CallsFit
  <2>4. call[c].op = "reserve" /\ call[c].state = "open"
    BY <1>b, <2>2, <2>3 DEF Serve
  <2>5. req' = req /\ call'[c].op = call[c].op /\ call'[c].waiting = call[c].waiting
    <3>1. req' = req /\ \E st : State(c, st)
      BY <2>2 DEF Serve
    <3> QED
      BY <2>3, <3>1, StateMoves
  <2>6. q \in Creates /\ Req[q].order = o
    BY <2>3, <2>4, KeyedFacts DEF CallFits, OpsOf, Creates, Keyed
  <2>7. Orphaned(q, o)'
    BY <2>2, <2>3, <2>4, <2>5 DEF CallFits, Orphaned, Refused
  <2> QED
    BY <2>6, <2>7
<1> QED
  BY <1>1, <1>2

LEMMA OrphanInit == Init => OrphanInv
<1> SUFFICES ASSUME Init, NEW o \in Orders, order[o].status = "none" PROVE "reserved" \notin Rows(o)
  BY DEF OrphanInv
<1>1. o \notin Existing
  BY DEF Init
<1>2. \A s \in DOMAIN Basket[o] : resv[o][s].status = "none"
  BY <1>1, BasketFacts DEF Init, Inv!NoRow
<1> QED
  BY <1>2 DEF Rows

(* OrphansExplained: at rest, stock locked for an order that does not exist is the trace
   of a create that died, stopped waiting, was told of an error by a reservation that had
   committed, or had its compensating release refused. *)
THEOREM OrphansHaveCause == Spec => []OrphansExplained
<1> DEFINE OI == TypeInv /\ KeyInv /\ LinkInv /\ InvP!SnapFinal /\ OrphanInv
<1>1. Init => OI
  BY InitTyped, KeyInit, HoldInit, OrphanInit DEF HoldInv
<1>2. OI /\ [Next]_vars => OI'
  <2> SUFFICES ASSUME OI, [Next]_vars PROVE OI'
    OBVIOUS
  <2>1. TypeInv' /\ KeyInv' /\ LinkInv'
    BY TypeStep, KeyStep, LinkStep
  <2>2. InvP!SnapFinal'
    BY StockFacts, InventoryAssumptions, InvP!SnapFinalStep
  <2>3. OrphanInv'
    BY OrphanStep DEF KeyInv
  <2> QED
    BY <2>1, <2>2, <2>3
<1>3. OI => OrphansExplained
  <2> SUFFICES ASSUME OrphanInv, AtRest, NEW o \in Orders,
                      order[o].status = "none", "reserved" \in Rows(o)
               PROVE  \E r \in Keyed :
                        /\ Req[r].kind = "create" /\ Req[r].order = o
                        /\ \/ req[r].pc = "dead"
                           \/ ~call[<<r, o>>].waiting
                           \/ call[<<r, o>>].op = "reserve" /\ call[<<r, o>>].state = "lost"
                           \/ call[<<r, o>>].op = "release" /\ call[<<r, o>>].state = "failed"
    BY DEF OrphansExplained
  <2>1. PICK r \in Creates : Req[r].order = o /\ Orphaned(r, o)
    BY DEF OrphanInv
  <2>2. r \in Keyed /\ Req[r].kind = "create" /\ req[r].pc \in {"done", "dead"}
    BY DEF Creates, AtRest, Keyed
  <2> QED
    BY <2>1, <2>2 DEF Orphaned, Refused
<1> HIDE DEF OI
<1> QED
  BY <1>1, <1>2, <1>3, PTL DEF Spec

------------------------------------------------------------------------------
(* The order service implements the order book. *)

\* What the book shows of an orders row.
Shown(row) == [row EXCEPT !.status = IF @ \in Ended THEN "ended" ELSE @]

View == [o \in Orders |-> Shown(order[o])]

\* All the confirmations of one order name one payment.
OneBill ==
  \A r, q \in Keyed :
    Req[r].kind = "pay" /\ Req[q].kind = "pay" /\ Req[r].order = Req[q].order
      => Req[r].payment = Req[q].payment

\* A paid order names the payment of a request that confirmed it.
PaidBy ==
  \A o \in Orders : order[o].status = "paid" =>
    \E r \in Keyed : /\ Req[r].kind = "pay" /\ Req[r].order = o
                     /\ Req[r].payment = order[o].payment

LEMMA ShownFacts ==
  ASSUME NEW row \in OrderRow
  PROVE  /\ Shown(row).status = IF row.status \in Ended THEN "ended" ELSE row.status
         /\ Shown(row).payment = row.payment
         /\ Shown(row) = [status |-> IF row.status \in Ended THEN "ended" ELSE row.status,
                          payment |-> row.payment]
  BY DEF OrderRow, Shown

\* The UPDATE of a confirmation, and what it is about.
LEMMA PayWrites ==
  ASSUME TypeInv, NEW r \in Requests, Update(r), Req[r].kind = "pay"
  PROVE  /\ r \in Keyed /\ Req[r].order = req[r].order
         /\ Transition(r) = [status |-> "paid", payment |-> Req[r].payment]
<1>1. r \in Keyed
  BY DEF Keyed
<1>2. Req[r].order = req[r].order
  BY <1>1 DEF TypeInv, Places, PlaceOf, Update, At, Working
<1> QED
  BY <1>1, <1>2 DEF Transition

LEMMA PaidByStep == TypeInv /\ PaidBy /\ [Next]_vars => PaidBy'
<1> SUFFICES ASSUME TypeInv, PaidBy, [Next]_vars, NEW o \in Orders, order'[o].status = "paid"
             PROVE  \E r \in Keyed : /\ Req[r].kind = "pay" /\ Req[r].order = o
                                     /\ Req[r].payment = order'[o].payment
  BY DEF PaidBy
<1>a. order[o] \in OrderRow
  BY DEF TypeInv, TypeOK, OrderTypeOK
<1>1. CASE order'[o] = order[o]
  BY <1>1 DEF PaidBy
<1>2. CASE order'[o] = [order[o] EXCEPT !.status = "reserved"]
  <2>1. order'[o].status = "reserved"
    BY <1>2, <1>a DEF OrderRow
  <2> QED
    BY <2>1
<1>3. ASSUME NEW r \in Requests \ Creates, req[r].order = o, Update(r), order'[o] = Transition(r)
      PROVE  \E q \in Keyed : /\ Req[q].kind = "pay" /\ Req[q].order = o
                              /\ Req[q].payment = order'[o].payment
  <2>1. CASE Req[r].kind = "pay"
    <3>1. /\ r \in Keyed /\ Req[r].order = o
          /\ order'[o] = [status |-> "paid", payment |-> Req[r].payment]
      BY <1>3, <2>1, PayWrites
    <3>2. order'[o].payment = Req[r].payment
      BY <3>1
    <3> QED
      BY <2>1, <3>1, <3>2
  <2>2. CASE Req[r].kind # "pay"
    <3>1. Transition(r).status \in Ended
      BY <1>3, <1>a, <2>2, KeyedFacts DEF Transition, OrderRow, Ended, Kinds
    <3> QED
      BY <1>3, <3>1 DEF Ended
  <2> QED
    BY <2>1, <2>2
<1> QED
  BY <1>1, <1>2, <1>3, StatusStep

LEMMA BookStep ==
  ASSUME OneBill, StepInv, PaidBy, [Next]_vars
  PROVE  View' = View \/ Book!Next
<1>a. /\ TypeInv /\ SettledInv /\ KnownOrders
      /\ order \in [Orders -> OrderRow] /\ order' \in [Orders -> OrderRow]
  BY TypeStep DEF StepInv, KeyInv, TypeInv, TypeOK, OrderTypeOK, OrderRow, Ended
<1>1. CASE UNCHANGED order
  BY <1>1 DEF View
<1>2. ASSUME NEW r \in Requests, Persist(r), ~UNCHANGED order PROVE Book!Next
  <2>1. /\ r \in Creates /\ req[r].order = Req[r].order /\ Req[r].order \in Orders
    BY <1>2, <1>a, KeyedFacts
       DEF Persist, At, PlaceOf, Working, Creates, Keyed, TypeInv, Places
  <2> DEFINE o == Req[r].order
  <2>2. order[o].status = "none" /\ order' = [order EXCEPT ![o].status = "reserved"]
    BY <1>2, <1>a, <2>1, PersistFinds DEF Persist
  <2>3. order[o] \in OrderRow /\ order'[o] = [order[o] EXCEPT !.status = "reserved"]
    BY <1>a, <2>1, <2>2
  <2>4. Shown(order'[o]) = [Shown(order[o]) EXCEPT !.status = "reserved"]
    BY <2>3 DEF OrderRow, Shown, Ended
  <2>5. View[o].status = "none" /\ View' = [View EXCEPT ![o].status = "reserved"]
    <3>1. View[o].status = "none"
      BY <2>1, <2>2, <2>3, ShownFacts DEF View, Ended
    <3>2. \A p \in Orders : p # o => order'[p] = order[p]
      BY <1>a, <2>2
    <3> QED
      BY <2>1, <2>4, <3>1, <3>2 DEF View
  <2>6. Book!Place(o)
    BY <2>5 DEF Book!Place, View, Shown
  <2> QED
    BY <2>1, <2>6 DEF Book!Next
<1>3. ASSUME NEW r \in Requests, Update(r), NEW o \in Orders, o = req[r].order
      PROVE  View' = View \/ Book!Next
  <2>1. r \in Requests \ Creates /\ o \in Orders /\ At(r, "update")
    BY <1>3, <1>a DEF Update, At, TypeInv, Places, PlaceOf, Working, Creates
  <2>2. order' = [order EXCEPT ![o] = Transition(r)]
    BY <1>3 DEF Update
  <2>3. /\ order[o] \in OrderRow /\ order'[o] = Transition(r)
        /\ \A p \in Orders : p # o => order'[p] = order[p]
    BY <1>a, <2>1, <2>2
  <2>4. order[o].status # "none"
    BY <1>3, <1>a, <2>1 DEF KnownOrders, At
  <2>5. CASE Req[r].kind = "pay"
    <3>1. /\ r \in Keyed /\ Req[r].order = o
          /\ order'[o] = [status |-> "paid", payment |-> Req[r].payment]
      BY <1>3, <1>a, <2>3, <2>5, PayWrites
    <3>2. order[o].status \notin Ended
      <4>1. Rows(o) = {"confirmed"}
        BY <1>3, <1>a, <2>1, <2>5, UpdateFinds
      <4> QED
        BY <4>1, <1>a, <2>1 DEF SettledInv, Settled
    <3>3. CASE order[o].status = "paid"
      <4>1. order[o].payment = Req[r].payment
        BY <3>1, <3>3, <2>1, <2>5 DEF PaidBy, OneBill
      <4>2. order'[o] = order[o]
        BY <3>1, <3>3, <4>1, <2>3 DEF OrderRow
      <4> QED
        BY <2>3, <4>2 DEF View
    <3>4. CASE order[o].status = "reserved"
      <4>1. Shown(order'[o]) = [status |-> "paid", payment |-> Req[r].payment]
        BY <3>1 DEF Shown, Ended
      <4>2. View[o].status = "reserved"
        BY <2>1, <2>3, <3>4, ShownFacts DEF View, Ended
      <4>3. View' = [View EXCEPT ![o] = [status |-> "paid", payment |-> Req[r].payment]]
        BY <2>1, <2>3, <4>1 DEF View
      <4>4. Book!Pay(o, Req[r].payment)
        BY <4>2, <4>3 DEF Book!Pay, View, Shown
      <4> QED
        BY <2>1, <2>5, <3>1, <4>4 DEF Book!Next
    <3> QED
      BY <2>3, <2>4, <3>2, <3>3, <3>4 DEF OrderRow
  <2>6. CASE Req[r].kind # "pay"
    <3>1. PICK st \in Ended : order'[o] = [order[o] EXCEPT !.status = st]
      BY <1>3, <2>3, <2>6 DEF Transition, Ended
    <3>2. order[o].status # "paid"
      <4>1. Rows(o) = {"released"}
        BY <1>3, <1>a, <2>1, <2>6, UpdateFinds
      <4> QED
        BY <4>1, <1>a, <2>1 DEF SettledInv, Settled
    <3>3. Shown(order'[o]) = [status |-> "ended", payment |-> order[o].payment]
      <4>1. order'[o] \in OrderRow /\ order'[o].payment = order[o].payment
        BY <1>a, <2>1, <2>3, <3>1 DEF OrderRow
      <4>2. order'[o].status \in Ended
        BY <2>3, <3>1 DEF OrderRow
      <4> QED
        BY <4>1, <4>2, ShownFacts
    <3>4. CASE order[o].status \in Ended
      <4>1. Shown(order[o]) = Shown(order'[o])
        BY <2>3, <3>3, <3>4, ShownFacts
      <4> QED
        BY <2>3, <4>1 DEF View
    <3>5. CASE order[o].status = "reserved"
      <4>1. Shown(order'[o]) = [Shown(order[o]) EXCEPT !.status = "ended"]
        BY <2>3, <3>1, <3>5 DEF OrderRow, Shown, Ended
      <4>2. View[o].status = "reserved"
        BY <2>1, <2>3, <3>5, ShownFacts DEF View, Ended
      <4>3. View' = [View EXCEPT ![o].status = "ended"]
        BY <2>1, <2>3, <4>1 DEF View
      <4>4. Book!End(o)
        BY <4>2, <4>3 DEF Book!End, View, Shown
      <4> QED
        BY <2>1, <4>4 DEF Book!Next
    <3> QED
      BY <2>3, <2>4, <3>2, <3>4, <3>5 DEF OrderRow
  <2> QED
    BY <2>5, <2>6
<1> QED
  <2>1. \/ UNCHANGED order
        \/ \E r \in Requests : Persist(r) \/ Update(r)
    BY DEF Next, RequestStep, Claim, Replay, Mark, Validate, LoadForCancel, LoadForPay,
           ListExpired, CloseNext, Answered, TimedOut, Select, Reload, DbError, Crash,
           Expire, Deliver, Serve, InventoryError, vars
  <2>2. \A r \in Requests : Update(r) => req[r].order \in Orders
    BY <1>a DEF Update, At, TypeInv, Places, PlaceOf, Working
  <2> QED
    BY <1>1, <1>2, <1>3, <2>1, <2>2

(* BookSpec: the service implements the order book.  An order is placed once, then paid
   once, by the payment that its confirmations name, or ended once. *)
THEOREM OrderBookImplemented == ~SameOrderOverlap /\ OneBill => (Spec => BookSpec)
<1> SUFFICES ASSUME ~SameOrderOverlap, OneBill PROVE Spec => BookSpec
  OBVIOUS
<1>1. Init => Book!Init
  BY DEF Init, Book!Init, Ended
<1>2. Init => PaidBy
  BY DEF Init, PaidBy
<1>3. StepInv /\ PaidBy /\ [Next]_vars => PaidBy'
  BY PaidByStep DEF StepInv
<1>4. StepInv /\ PaidBy /\ [Next]_vars
        => [Book!Next]_([o \in Orders |->
                          [order[o] EXCEPT !.status = IF @ \in Ended THEN "ended" ELSE @]])
  BY BookStep DEF View, Shown
<1> QED
  BY <1>1, <1>2, <1>3, <1>4, StepInvHolds, PTL DEF Spec, BookSpec, Book!Spec
==============================================================================
