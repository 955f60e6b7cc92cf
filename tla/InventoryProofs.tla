--------------------------- MODULE InventoryProofs ---------------------------
(* Machine-checked facts about Inventory, for any SKUs, orders, item lists and
   number of concurrent transactions. *)
EXTENDS Inventory, FiniteSetTheorems, TLAPS

(* A worker that has an order operation open holds a well-formed call. *)
LEMMA OrderTxShape ==
  ASSUME TypeOK, NEW w \in Workers, tx[w].op \in OrderOps
  PROVE  /\ tx[w].order \in Orders
         /\ tx[w].snap \in [Skus -> ReservationRow]
         /\ Items(tx[w]) \subseteq Skus
         /\ \A s \in Items(tx[w]) : tx[w].basket[s] \in Nat \ {0}
<1>1. tx[w] \in [op : OrderOps, order : Orders,
                 basket : UNION {Baskets[o] : o \in Orders},
                 snap : [Skus -> ReservationRow]]
  BY DEF TypeOK, TxState, Idle, OrderOps
<1>2. PICK o \in Orders : tx[w].basket \in Baskets[o]
  BY <1>1
<1>3. /\ DOMAIN tx[w].basket \subseteq Skus
      /\ tx[w].basket \in [DOMAIN tx[w].basket -> Nat \ {0}]
  BY <1>2, BasketsAssumption
<1> QED
  BY <1>1, <1>3 DEF Items

(* A worker that has an adjustment open holds a SKU and a target. *)
LEMMA AdjustTxShape ==
  ASSUME TypeOK, NEW w \in Workers, tx[w].op = "adjust"
  PROVE  /\ tx[w].sku \in Skus
         /\ tx[w].target \in 0 .. MaxTotal
         /\ tx[w].seen \in Int
<1>1. tx[w] \in [op : {"adjust"}, sku : Skus, target : 0 .. MaxTotal, seen : Int]
  BY DEF TypeOK, TxState, Idle, OrderOps
<1> QED
  BY <1>1

LEMMA FinishTyped ==
  ASSUME TypeOK, NEW w \in Workers, Finish(w)
  PROVE  /\ tx' \in [Workers -> TxState]
         /\ tx' = [tx EXCEPT ![w] = Idle]
<1>1. Idle \in TxState
  BY DEF TxState
<1> QED
  BY <1>1 DEF TypeOK, Finish

(* Writing well-formed rows keeps the reservation table well formed. *)
LEMMA WriteRowsTyped ==
  ASSUME TypeOK, NEW w \in Workers, tx[w].op \in OrderOps,
         NEW S \in SUBSET Items(tx[w]), NEW st \in {"reserved", "released", "confirmed"}
  PROVE  WriteRows(tx[w].order, S, st, tx[w].basket) \in [Orders -> [Skus -> ReservationRow]]
<1> DEFINE o == tx[w].order
           row == [s \in Skus |-> IF s \in S THEN [status |-> st, qty |-> tx[w].basket[s]]
                                             ELSE resv[o][s]]
<1>1. o \in Orders /\ \A s \in S : tx[w].basket[s] \in Nat
  BY OrderTxShape
<1>2. \A s \in Skus : resv[o][s] \in ReservationRow
  BY <1>1 DEF TypeOK
<1>3. \A s \in S : [status |-> st, qty |-> tx[w].basket[s]] \in ReservationRow
  BY <1>1 DEF ReservationRow
<1>4. row \in [Skus -> ReservationRow]
  BY <1>2, <1>3
<1>5. WriteRows(o, S, st, tx[w].basket) = [resv EXCEPT ![o] = row]
  BY DEF WriteRows
<1> QED
  BY <1>1, <1>4, <1>5 DEF TypeOK

LEMMA CountersTyped ==
  ASSUME TypeOK, NEW w \in Workers, tx[w].op \in OrderOps,
         NEW S \in SUBSET Items(tx[w]), NEW f \in [Skus -> Int]
  PROVE  /\ Plus(f, tx[w].basket, S) \in [Skus -> Int]
         /\ Minus(f, tx[w].basket, S) \in [Skus -> Int]
<1>1. \A s \in S : tx[w].basket[s] \in Nat
  BY OrderTxShape
<1> QED
  BY <1>1 DEF Plus, Minus

------------------------------------------------------------------------------
(* Type correctness. *)

LEMMA TypeStep == TypeOK /\ [Next]_vars => TypeOK'
<1> SUFFICES ASSUME TypeOK, [Next]_vars PROVE TypeOK'
  OBVIOUS
<1>1. ASSUME NEW S \in SUBSET Skus, NEW n \in 0 .. MaxTotal, InitSkuStocks(S, n)
      PROVE  TypeOK'
  BY <1>1, BoundsAssumption DEF TypeOK, InitSkuStocks
<1>2. ASSUME NEW S \in SUBSET Skus, FreezeSkuStocks(S) PROVE TypeOK'
  BY <1>2 DEF TypeOK, FreezeSkuStocks
<1>3. ASSUME NEW w \in Workers, NEW op \in OrderOps, NEW o \in Orders,
             NEW b \in Baskets[o], Begin(w, op, o, b)
      PROVE  TypeOK'
  <2>1. Snapshot(o, b) \in [Skus -> ReservationRow]
    BY DEF TypeOK, Snapshot, NoRow, ReservationRow
  <2>2. [op |-> op, order |-> o, basket |-> b, snap |-> Snapshot(o, b)] \in TxState
    BY <2>1 DEF TxState
  <2> QED
    BY <1>3, <2>2 DEF TypeOK, Begin
<1>4. ASSUME NEW w \in Workers, Reserve(w) PROVE TypeOK'
  <2>1. tx[w].op \in OrderOps /\ Missing(tx[w]) \subseteq Items(tx[w])
    BY <1>4 DEF Reserve, OrderOps, Missing
  <2>2. /\ resv' \in [Orders -> [Skus -> ReservationRow]]
        /\ reserved' \in [Skus -> Int] /\ available' \in [Skus -> Int]
    BY <1>4, <2>1, WriteRowsTyped, CountersTyped DEF TypeOK, Reserve
  <2> QED
    BY <1>4, <2>2, FinishTyped DEF TypeOK, Reserve
<1>5. ASSUME NEW w \in Workers, Release(w) PROVE TypeOK'
  <2>1. /\ tx[w].op \in OrderOps
        /\ Held(tx[w]) \subseteq Items(tx[w])
        /\ Held(tx[w]) \cup Missing(tx[w]) \in SUBSET Items(tx[w])
    BY <1>5 DEF Release, OrderOps, Missing, Held
  <2>2. /\ resv' \in [Orders -> [Skus -> ReservationRow]]
        /\ reserved' \in [Skus -> Int] /\ available' \in [Skus -> Int]
    BY <1>5, <2>1, WriteRowsTyped, CountersTyped DEF TypeOK, Release
  <2> QED
    BY <1>5, <2>2, FinishTyped DEF TypeOK, Release
<1>6. ASSUME NEW w \in Workers, ConfirmDeduct(w) PROVE TypeOK'
  <2>1. tx[w].op \in OrderOps /\ Held(tx[w]) \subseteq Items(tx[w])
    BY <1>6 DEF ConfirmDeduct, OrderOps, Held
  <2>2. /\ resv' \in [Orders -> [Skus -> ReservationRow]]
        /\ reserved' \in [Skus -> Int] /\ total' \in [Skus -> Int]
    BY <1>6, <2>1, WriteRowsTyped, CountersTyped DEF TypeOK, ConfirmDeduct
  <2> QED
    BY <1>6, <2>2, FinishTyped DEF TypeOK, ConfirmDeduct
<1>7. ASSUME NEW w \in Workers, NEW s \in Skus, NEW n \in 0 .. MaxTotal, BeginAdjust(w, s, n)
      PROVE  TypeOK'
  <2>1. [op |-> "adjust", sku |-> s, target |-> n, seen |-> reserved[s]] \in TxState
    BY DEF TypeOK, TxState
  <2> QED
    BY <1>7, <2>1 DEF TypeOK, BeginAdjust
<1>8. ASSUME NEW w \in Workers, AdjustTotalStock(w) PROVE TypeOK'
  <2>1. tx[w].target \in Int /\ tx[w].seen \in Int
    BY <1>8, AdjustTxShape, BoundsAssumption DEF AdjustTotalStock
  <2>2. /\ total' = [total EXCEPT ![tx[w].sku] = tx[w].target]
        /\ available' = [available EXCEPT ![tx[w].sku] = tx[w].target - tx[w].seen]
        /\ UNCHANGED <<rowStatus, reserved, resv>>
        /\ Finish(w)
    BY <1>8 DEF AdjustTotalStock
  <2>3. /\ total \in [Skus -> Int] /\ available \in [Skus -> Int]
        /\ tx[w].target - tx[w].seen \in Int
    BY <2>1 DEF TypeOK
  <2>4. total' \in [Skus -> Int] /\ available' \in [Skus -> Int]
    BY <2>1, <2>2, <2>3, Zenon
  <2> QED
    BY <2>2, <2>4, FinishTyped DEF TypeOK
<1>9. ASSUME NEW w \in Workers, Reject(w) \/ Abort(w) PROVE TypeOK'
  BY <1>9, FinishTyped DEF TypeOK, Reject, Abort
<1>10. CASE UNCHANGED vars
  BY <1>10 DEF vars, TypeOK
<1> QED
  BY <1>1, <1>2, <1>3, <1>4, <1>5, <1>6, <1>7, <1>8, <1>9, <1>10 DEF Next

(* Every variable keeps its type in every behaviour of the service. *)
THEOREM TypeCorrect == Spec => []TypeOK
<1>1. Init => TypeOK
  BY DEF Init, TypeOK, NoRow, ReservationRow, TxState
<1> QED
  BY <1>1, TypeStep, PTL DEF Spec

------------------------------------------------------------------------------
(* No negative counter.  StockNonNegative alone is not inductive: an open
   adjustment must not have read more reserved stock than its target. *)

AdjustSane == \A w \in Workers : tx[w].op = "adjust" => tx[w].target >= tx[w].seen

NonNegInv == TypeOK /\ StockNonNegative /\ AdjustSane

LEMMA FinishSane ==
  ASSUME TypeOK, AdjustSane, NEW w \in Workers, Finish(w)
  PROVE  AdjustSane'
  BY DEF AdjustSane, Finish, TypeOK, Idle

LEMMA NonNegStep == NonNegInv /\ [Next]_vars => StockNonNegative' /\ AdjustSane'
<1> SUFFICES ASSUME TypeOK, StockNonNegative, AdjustSane, [Next]_vars
             PROVE  StockNonNegative' /\ AdjustSane'
  BY DEF NonNegInv
<1>1. ASSUME NEW S \in SUBSET Skus, NEW n \in 0 .. MaxTotal, InitSkuStocks(S, n)
      PROVE  StockNonNegative' /\ AdjustSane'
  BY <1>1, BoundsAssumption DEF TypeOK, StockNonNegative, AdjustSane, InitSkuStocks
<1>2. ASSUME NEW S \in SUBSET Skus, FreezeSkuStocks(S)
      PROVE  StockNonNegative' /\ AdjustSane'
  BY <1>2 DEF StockNonNegative, AdjustSane, FreezeSkuStocks
<1>3. ASSUME NEW w \in Workers, NEW op \in OrderOps, NEW o \in Orders,
             NEW b \in Baskets[o], Begin(w, op, o, b)
      PROVE  StockNonNegative' /\ AdjustSane'
  BY <1>3 DEF TypeOK, StockNonNegative, AdjustSane, Begin, OrderOps
<1>4. ASSUME NEW w \in Workers, Reserve(w) PROVE StockNonNegative' /\ AdjustSane'
  <2>1. /\ CanReserve(tx[w]) /\ Finish(w)
        /\ reserved' = Plus(reserved, tx[w].basket, Missing(tx[w]))
        /\ available' = Minus(available, tx[w].basket, Missing(tx[w]))
        /\ total' = total
        /\ tx[w].op \in OrderOps
    BY <1>4 DEF Reserve, OrderOps
  <2>2. \A s \in Missing(tx[w]) : /\ tx[w].basket[s] \in Nat
                                  /\ available[s] >= tx[w].basket[s]
    BY <2>1, OrderTxShape DEF CanReserve, Missing
  <2>3. StockNonNegative'
    BY <2>1, <2>2 DEF TypeOK, StockNonNegative, Plus, Minus
  <2> QED
    BY <2>1, <2>3, FinishSane
<1>5. ASSUME NEW w \in Workers, Release(w) PROVE StockNonNegative' /\ AdjustSane'
  <2>1. /\ CanRelease(tx[w]) /\ Finish(w)
        /\ reserved' = Minus(reserved, tx[w].basket, Held(tx[w]))
        /\ available' = Plus(available, tx[w].basket, Held(tx[w]))
        /\ total' = total
        /\ tx[w].op \in OrderOps
    BY <1>5 DEF Release, OrderOps
  <2>2. \A s \in Held(tx[w]) : /\ tx[w].basket[s] \in Nat
                               /\ reserved[s] >= tx[w].basket[s]
    BY <2>1, OrderTxShape DEF CanRelease, Held
  <2>3. StockNonNegative'
    BY <2>1, <2>2 DEF TypeOK, StockNonNegative, Plus, Minus
  <2> QED
    BY <2>1, <2>3, FinishSane
<1>6. ASSUME NEW w \in Workers, ConfirmDeduct(w) PROVE StockNonNegative' /\ AdjustSane'
  <2>1. /\ CanConfirm(tx[w]) /\ Finish(w)
        /\ total' = Minus(total, tx[w].basket, Held(tx[w]))
        /\ reserved' = Minus(reserved, tx[w].basket, Held(tx[w]))
        /\ available' = available
        /\ tx[w].op \in OrderOps
    BY <1>6 DEF ConfirmDeduct, OrderOps
  <2>2. \A s \in Held(tx[w]) : /\ tx[w].basket[s] \in Nat
                               /\ reserved[s] >= tx[w].basket[s]
                               /\ total[s] >= tx[w].basket[s]
    BY <2>1, OrderTxShape DEF CanConfirm, Held
  <2>3. StockNonNegative'
    BY <2>1, <2>2 DEF TypeOK, StockNonNegative, Minus
  <2> QED
    BY <2>1, <2>3, FinishSane
<1>7. ASSUME NEW w \in Workers, NEW s \in Skus, NEW n \in 0 .. MaxTotal, BeginAdjust(w, s, n)
      PROVE  StockNonNegative' /\ AdjustSane'
  BY <1>7 DEF TypeOK, StockNonNegative, AdjustSane, BeginAdjust
<1>8. ASSUME NEW w \in Workers, AdjustTotalStock(w)
      PROVE  StockNonNegative' /\ AdjustSane'
  <2>1. /\ tx[w].op = "adjust"
        /\ total' = [total EXCEPT ![tx[w].sku] = tx[w].target]
        /\ available' = [available EXCEPT ![tx[w].sku] = tx[w].target - tx[w].seen]
        /\ reserved' = reserved
        /\ Finish(w)
    BY <1>8 DEF AdjustTotalStock
  <2>2. /\ tx[w].target \in Nat /\ tx[w].seen \in Int
        /\ tx[w].target >= tx[w].seen
    BY <2>1, AdjustTxShape, BoundsAssumption DEF AdjustSane
  <2>3. StockNonNegative'
    BY <2>1, <2>2 DEF TypeOK, StockNonNegative
  <2> QED
    BY <2>1, <2>3, FinishSane
<1>9. ASSUME NEW w \in Workers, Reject(w) \/ Abort(w)
      PROVE  StockNonNegative' /\ AdjustSane'
  <2>1. Finish(w) /\ UNCHANGED stockVars
    BY <1>9 DEF Reject, Abort, stockVars
  <2> QED
    BY <2>1, FinishSane DEF StockNonNegative, stockVars
<1>10. CASE UNCHANGED vars
  BY <1>10 DEF vars, StockNonNegative, AdjustSane
<1> QED
  BY <1>1, <1>2, <1>3, <1>4, <1>5, <1>6, <1>7, <1>8, <1>9, <1>10 DEF Next

(* No stock counter ever becomes negative, however the transactions of the
   service interleave and whichever of them are rolled back. *)
THEOREM NonNegative == Spec => []StockNonNegative
<1>1. Init => StockNonNegative /\ AdjustSane
  BY DEF Init, StockNonNegative, AdjustSane, Idle
<1>2. TypeOK /\ StockNonNegative /\ AdjustSane /\ [Next]_vars
        => StockNonNegative' /\ AdjustSane'
  BY NonNegStep DEF NonNegInv
<1> QED
  BY <1>1, <1>2, TypeCorrect, PTL DEF Spec

------------------------------------------------------------------------------
(* Anti-hanging, and the drift of the counters. *)

\* What each commit writes to the reservation rows.
LEMMA ReserveWrites ==
  ASSUME TypeOK, NEW w \in Workers, Reserve(w)
  PROVE  /\ tx[w].order \in Orders /\ Missing(tx[w]) \subseteq Skus
         /\ \A s \in Missing(tx[w]) : resv[tx[w].order][s] = NoRow
         /\ \A o \in Orders, s \in Skus :
              resv'[o][s] = IF o = tx[w].order /\ s \in Missing(tx[w])
                            THEN [status |-> "reserved", qty |-> tx[w].basket[s]]
                            ELSE resv[o][s]
<1>1. /\ Missing(tx[w]) \in SUBSET Skus
      /\ tx[w].order \in Orders
      /\ \A r \in Missing(tx[w]) : resv[tx[w].order][r] = NoRow
      /\ resv' = WriteRows(tx[w].order, Missing(tx[w]), "reserved", tx[w].basket)
  BY OrderTxShape DEF Reserve, OrderOps, Missing, CanReserve, Insertable
<1> QED
  BY <1>1 DEF WriteRows, TypeOK

LEMMA ReleaseWrites ==
  ASSUME TypeOK, NEW w \in Workers, Release(w)
  PROVE  /\ tx[w].order \in Orders /\ Held(tx[w]) \cup Missing(tx[w]) \subseteq Skus
         /\ \A o \in Orders, s \in Skus :
              resv'[o][s] = IF o = tx[w].order /\ s \in Held(tx[w]) \cup Missing(tx[w])
                            THEN [status |-> "released", qty |-> tx[w].basket[s]]
                            ELSE resv[o][s]
<1>1. /\ Held(tx[w]) \cup Missing(tx[w]) \in SUBSET Skus
      /\ tx[w].order \in Orders
      /\ resv' = WriteRows(tx[w].order, Held(tx[w]) \cup Missing(tx[w]),
                           "released", tx[w].basket)
  BY OrderTxShape DEF Release, OrderOps, Missing, Held
<1> QED
  BY <1>1 DEF WriteRows, TypeOK

LEMMA ConfirmWrites ==
  ASSUME TypeOK, NEW w \in Workers, ConfirmDeduct(w)
  PROVE  /\ tx[w].order \in Orders /\ Held(tx[w]) \subseteq Skus
         /\ \A o \in Orders, s \in Skus :
              resv'[o][s] = IF o = tx[w].order /\ s \in Held(tx[w])
                            THEN [status |-> "confirmed", qty |-> tx[w].basket[s]]
                            ELSE resv[o][s]
<1>1. /\ Held(tx[w]) \in SUBSET Skus
      /\ tx[w].order \in Orders
      /\ resv' = WriteRows(tx[w].order, Held(tx[w]), "confirmed", tx[w].basket)
  BY OrderTxShape DEF ConfirmDeduct, OrderOps, Held
<1> QED
  BY <1>1 DEF WriteRows, TypeOK

Final == {"released", "confirmed"}

LEMMA FinalStep ==
  ASSUME TypeOK, [Next]_vars,
         NEW o \in Orders, NEW s \in Skus, resv[o][s].status \in Final
  PROVE  resv'[o][s].status \in Final
<1>1. ASSUME NEW w \in Workers, Reserve(w) PROVE resv'[o][s].status \in Final
  <2>1. resv'[o][s] = IF o = tx[w].order /\ s \in Missing(tx[w])
                      THEN [status |-> "reserved", qty |-> tx[w].basket[s]]
                      ELSE resv[o][s]
    BY <1>1, ReserveWrites
  <2>2. s \in Missing(tx[w]) => resv[tx[w].order][s] = NoRow
    BY <1>1, ReserveWrites
  <2> QED
    BY <2>1, <2>2 DEF Final, NoRow
<1>2. ASSUME NEW w \in Workers, Release(w) PROVE resv'[o][s].status \in Final
  <2>1. resv'[o][s] = IF o = tx[w].order /\ s \in Held(tx[w]) \cup Missing(tx[w])
                      THEN [status |-> "released", qty |-> tx[w].basket[s]]
                      ELSE resv[o][s]
    BY <1>2, ReleaseWrites
  <2> QED
    BY <2>1 DEF Final
<1>3. ASSUME NEW w \in Workers, ConfirmDeduct(w) PROVE resv'[o][s].status \in Final
  <2>1. resv'[o][s] = IF o = tx[w].order /\ s \in Held(tx[w])
                      THEN [status |-> "confirmed", qty |-> tx[w].basket[s]]
                      ELSE resv[o][s]
    BY <1>3, ConfirmWrites
  <2> QED
    BY <2>1 DEF Final
<1>4. CASE UNCHANGED resv
  BY <1>4
<1> QED
  BY <1>1, <1>2, <1>3, <1>4
     DEF Next, vars, InitSkuStocks, FreezeSkuStocks, Begin, BeginAdjust,
         AdjustTotalStock, Reject, Abort

(* A reservation row that was released or confirmed is never reserved again. *)
THEOREM AntiHanging == Spec => NeverReservedAgain
<1> DEFINE Kept == \A o \in Orders, s \in Skus :
                     resv[o][s].status \in Final => resv'[o][s].status \in Final
<1>1. TypeOK /\ [Next]_vars => [Kept]_vars
  BY FinalStep
<1> QED
  BY <1>1, TypeCorrect, PTL DEF Spec, NeverReservedAgain, Final

(* Only an adjustment that committed over a reserved stock it had not read can
   take the counters of a row out of balance. *)
THEOREM DriftNeedsStaleAdjust == Spec => OnlyStaleAdjustDrifts
<1> DEFINE Stale(s) == \E w \in Workers : /\ tx[w].op = "adjust"
                                          /\ tx[w].sku = s
                                          /\ tx[w].seen # reserved[s]
                                          /\ tx'[w] = Idle
           Steady == \A s \in Skus : Drift(s)' \notin {0, Drift(s)} => Stale(s)
<1>1. TypeOK /\ [Next]_vars => Steady
  <2> SUFFICES ASSUME TypeOK, [Next]_vars, NEW s \in Skus, Drift(s)' \notin {0, Drift(s)}
               PROVE  Stale(s)
    OBVIOUS
  <2>1. /\ total[s] \in Int /\ reserved[s] \in Int /\ available[s] \in Int
    BY DEF TypeOK
  <2>2. ASSUME NEW S \in SUBSET Skus, NEW n \in 0 .. MaxTotal, InitSkuStocks(S, n)
        PROVE  Drift(s)' \in {0, Drift(s)}
    BY <2>1, <2>2, BoundsAssumption DEF InitSkuStocks, Drift
  <2>3. ASSUME NEW w \in Workers, Reserve(w) PROVE Drift(s)' = Drift(s)
    <3>1. /\ \A r \in Missing(tx[w]) : tx[w].basket[r] \in Nat
          /\ reserved' = Plus(reserved, tx[w].basket, Missing(tx[w]))
          /\ available' = Minus(available, tx[w].basket, Missing(tx[w]))
          /\ total' = total
      BY <2>3, OrderTxShape DEF Reserve, OrderOps, Missing
    <3> QED
      BY <2>1, <3>1 DEF Plus, Minus, Drift
  <2>4. ASSUME NEW w \in Workers, Release(w) PROVE Drift(s)' = Drift(s)
    <3>1. /\ \A r \in Held(tx[w]) : tx[w].basket[r] \in Nat
          /\ reserved' = Minus(reserved, tx[w].basket, Held(tx[w]))
          /\ available' = Plus(available, tx[w].basket, Held(tx[w]))
          /\ total' = total
      BY <2>4, OrderTxShape DEF Release, OrderOps, Held
    <3> QED
      BY <2>1, <3>1 DEF Plus, Minus, Drift
  <2>5. ASSUME NEW w \in Workers, ConfirmDeduct(w) PROVE Drift(s)' = Drift(s)
    <3>1. /\ \A r \in Held(tx[w]) : tx[w].basket[r] \in Nat
          /\ total' = Minus(total, tx[w].basket, Held(tx[w]))
          /\ reserved' = Minus(reserved, tx[w].basket, Held(tx[w]))
          /\ available' = available
      BY <2>5, OrderTxShape DEF ConfirmDeduct, OrderOps, Held
    <3> QED
      BY <2>1, <3>1 DEF Minus, Drift
  <2>6. ASSUME NEW w \in Workers, AdjustTotalStock(w) PROVE Stale(s)
    <3>1. /\ tx[w].op = "adjust"
          /\ total' = [total EXCEPT ![tx[w].sku] = tx[w].target]
          /\ available' = [available EXCEPT ![tx[w].sku] = tx[w].target - tx[w].seen]
          /\ reserved' = reserved
          /\ tx'[w] = Idle
      BY <2>6 DEF AdjustTotalStock, Finish, TypeOK
    <3>2. tx[w].target \in Int /\ tx[w].seen \in Int /\ tx[w].sku \in Skus
      BY <3>1, AdjustTxShape, BoundsAssumption
    <3>3. tx[w].sku = s
      BY <3>1 DEF TypeOK, Drift
    <3>4. Drift(s)' = tx[w].seen - reserved[s]
      BY <2>1, <3>1, <3>2, <3>3 DEF TypeOK, Drift
    <3>5. tx[w].seen # reserved[s]
      BY <2>1, <3>2, <3>4
    <3> QED
      BY <3>1, <3>3, <3>5
  <2>7. CASE UNCHANGED <<total, reserved, available>>
    BY <2>7 DEF Drift
  <2> QED
    BY <2>2, <2>3, <2>4, <2>5, <2>6, <2>7
    DEF Next, vars, FreezeSkuStocks, Begin, BeginAdjust, Reject, Abort
<1>2. TypeOK /\ [Next]_vars => [Steady]_vars
  BY <1>1
<1> QED
  BY <1>2, TypeCorrect, PTL DEF Spec, OnlyStaleAdjustDrifts

------------------------------------------------------------------------------
(* Balance of the counters when adjustments run alone on their SKU.  The
   strengthening says what running alone gives: what an open adjustment read is
   still the row's reserved stock when it commits. *)

AdjustAlone ==
  \A w, v \in Workers :
    w # v /\ tx[w].op = "adjust" => ~Touches(tx[v], tx[w].sku)

AdjustFresh ==
  \A w \in Workers :
    tx[w].op = "adjust" => /\ rowStatus[tx[w].sku] # "absent"
                           /\ tx[w].seen = reserved[tx[w].sku]

BalanceInv == Balanced /\ AdjustAlone /\ AdjustFresh

LEMMA FinishAlone ==
  ASSUME TypeOK, AdjustAlone, NEW w \in Workers, Finish(w)
  PROVE  AdjustAlone'
  BY DEF AdjustAlone, Finish, TypeOK, Idle, Touches, OrderOps, Items

(* A transaction that changes reserved stock only of SKUs it touches leaves what
   the other workers' adjustments read as it was. *)
LEMMA FinishFresh ==
  ASSUME TypeOK, AdjustAlone, AdjustFresh, NEW w \in Workers, Finish(w),
         UNCHANGED rowStatus,
         \A s \in Skus : ~Touches(tx[w], s) => reserved'[s] = reserved[s]
  PROVE  AdjustFresh'
<1> SUFFICES ASSUME NEW v \in Workers, tx'[v].op = "adjust"
             PROVE  /\ rowStatus[tx'[v].sku] # "absent"
                    /\ tx'[v].seen = reserved'[tx'[v].sku]
  BY DEF AdjustFresh
<1>1. v # w /\ tx'[v] = tx[v]
  BY DEF Finish, TypeOK, Idle
<1>2. tx[v].sku \in Skus /\ ~Touches(tx[w], tx[v].sku)
  BY <1>1, AdjustTxShape DEF AdjustAlone
<1> QED
  BY <1>1, <1>2 DEF AdjustFresh

LEMMA BalanceStep ==
  ASSUME TypeOK, BalanceInv, [Next]_vars, ~AdjustOverlap
  PROVE  BalanceInv'
<1> USE DEF BalanceInv
<1>1. ASSUME NEW S \in SUBSET Skus, NEW n \in 0 .. MaxTotal, InitSkuStocks(S, n)
      PROVE  BalanceInv'
  <2>1. Balanced'
    BY <1>1, BoundsAssumption DEF InitSkuStocks, Balanced
  <2>2. AdjustAlone'
    BY <1>1 DEF InitSkuStocks, AdjustAlone
  <2>3. AdjustFresh'
    BY <1>1, AdjustTxShape DEF InitSkuStocks, AdjustFresh
  <2> QED
    BY <2>1, <2>2, <2>3
<1>2. ASSUME NEW S \in SUBSET Skus, FreezeSkuStocks(S) PROVE BalanceInv'
  <2>1. Balanced' /\ AdjustAlone'
    BY <1>2 DEF FreezeSkuStocks, Balanced, AdjustAlone
  <2>2. AdjustFresh'
    BY <1>2, AdjustTxShape DEF FreezeSkuStocks, AdjustFresh
  <2> QED
    BY <2>1, <2>2
<1>3. ASSUME NEW w \in Workers, NEW op \in OrderOps, NEW o \in Orders,
             NEW b \in Baskets[o], Begin(w, op, o, b)
      PROVE  BalanceInv'
  <2>1. Balanced' /\ AdjustFresh'
    BY <1>3 DEF Begin, Balanced, AdjustFresh, TypeOK, OrderOps
  <2>2. AdjustAlone'
    <3> SUFFICES ASSUME NEW v \in Workers, NEW u \in Workers,
                        v # u, tx'[v].op = "adjust"
                 PROVE  ~Touches(tx'[u], tx'[v].sku)
      BY DEF AdjustAlone
    <3>1. v # w /\ tx'[v] = tx[v]
      BY <1>3 DEF Begin, TypeOK, OrderOps
    <3>2. CASE u = w
      <4>1. tx'[u].op # "adjust" /\ Items(tx'[u]) = DOMAIN b
        BY <1>3, <3>2 DEF Begin, TypeOK, Items, OrderOps
      <4>2. tx[v].sku \notin DOMAIN b
        BY <1>3, <3>1 DEF Begin, MayOverlapOrder
      <4> QED
        BY <3>1, <4>1, <4>2 DEF Touches
    <3>3. CASE u # w
      <4>1. tx'[u] = tx[u]
        BY <1>3, <3>3 DEF Begin, TypeOK
      <4> QED
        BY <3>1, <4>1 DEF AdjustAlone
    <3> QED
      BY <3>2, <3>3
  <2> QED
    BY <2>1, <2>2
<1>4. ASSUME NEW w \in Workers, Reserve(w) PROVE BalanceInv'
  <2>1. /\ Finish(w) /\ UNCHANGED rowStatus /\ total' = total
        /\ reserved' = Plus(reserved, tx[w].basket, Missing(tx[w]))
        /\ available' = Minus(available, tx[w].basket, Missing(tx[w]))
        /\ tx[w].op \in OrderOps
    BY <1>4 DEF Reserve, OrderOps
  <2>2. \A s \in Missing(tx[w]) : tx[w].basket[s] \in Nat
    BY <2>1, OrderTxShape DEF Missing
  <2>3. Balanced'
    BY <2>1, <2>2 DEF Balanced, Plus, Minus, TypeOK
  <2>4. \A s \in Skus : ~Touches(tx[w], s) => reserved'[s] = reserved[s]
    BY <2>1 DEF Touches, Plus, Missing
  <2> QED
    BY <2>1, <2>3, <2>4, FinishAlone, FinishFresh
<1>5. ASSUME NEW w \in Workers, Release(w) PROVE BalanceInv'
  <2>1. /\ Finish(w) /\ UNCHANGED rowStatus /\ total' = total
        /\ reserved' = Minus(reserved, tx[w].basket, Held(tx[w]))
        /\ available' = Plus(available, tx[w].basket, Held(tx[w]))
        /\ tx[w].op \in OrderOps
    BY <1>5 DEF Release, OrderOps
  <2>2. \A s \in Held(tx[w]) : tx[w].basket[s] \in Nat
    BY <2>1, OrderTxShape DEF Held
  <2>3. Balanced'
    BY <2>1, <2>2 DEF Balanced, Plus, Minus, TypeOK
  <2>4. \A s \in Skus : ~Touches(tx[w], s) => reserved'[s] = reserved[s]
    BY <2>1 DEF Touches, Minus, Held
  <2> QED
    BY <2>1, <2>3, <2>4, FinishAlone, FinishFresh
<1>6. ASSUME NEW w \in Workers, ConfirmDeduct(w) PROVE BalanceInv'
  <2>1. /\ Finish(w) /\ UNCHANGED rowStatus /\ available' = available
        /\ total' = Minus(total, tx[w].basket, Held(tx[w]))
        /\ reserved' = Minus(reserved, tx[w].basket, Held(tx[w]))
        /\ tx[w].op \in OrderOps
    BY <1>6 DEF ConfirmDeduct, OrderOps
  <2>2. \A s \in Held(tx[w]) : tx[w].basket[s] \in Nat
    BY <2>1, OrderTxShape DEF Held
  <2>3. Balanced'
    BY <2>1, <2>2 DEF Balanced, Minus, TypeOK
  <2>4. \A s \in Skus : ~Touches(tx[w], s) => reserved'[s] = reserved[s]
    BY <2>1 DEF Touches, Minus, Held
  <2> QED
    BY <2>1, <2>3, <2>4, FinishAlone, FinishFresh
<1>7. ASSUME NEW w \in Workers, NEW s \in Skus, NEW n \in 0 .. MaxTotal, BeginAdjust(w, s, n)
      PROVE  BalanceInv'
  <2>1. Balanced'
    BY <1>7 DEF BeginAdjust, Balanced
  <2>2. AdjustFresh'
    BY <1>7 DEF BeginAdjust, AdjustFresh, TypeOK
  <2>3. AdjustAlone'
    <3> SUFFICES ASSUME NEW v \in Workers, NEW u \in Workers,
                        v # u, tx'[v].op = "adjust"
                 PROVE  ~Touches(tx'[u], tx'[v].sku)
      BY DEF AdjustAlone
    <3>1. /\ tx'[w].op = "adjust" /\ tx'[w].sku = s
          /\ \A x \in Workers : x # w => tx'[x] = tx[x]
          /\ \A x \in Workers : ~Touches(tx[x], s)
      BY <1>7 DEF BeginAdjust, TypeOK, MayOverlapAdjust
    <3>2. CASE v = w
      BY <3>1, <3>2
    <3>3. CASE u = w
      <4>1. tx[v].op = "adjust" /\ tx[v].sku # s
        BY <3>1, <3>3 DEF Touches
      <4> QED
        BY <3>1, <3>3, <4>1 DEF Touches, OrderOps
    <3>4. CASE v # w /\ u # w
      BY <3>1, <3>4 DEF AdjustAlone
    <3> QED
      BY <3>2, <3>3, <3>4
  <2> QED
    BY <2>1, <2>2, <2>3
<1>8. ASSUME NEW w \in Workers, AdjustTotalStock(w) PROVE BalanceInv'
  <2>1. /\ tx[w].op = "adjust"
        /\ total' = [total EXCEPT ![tx[w].sku] = tx[w].target]
        /\ available' = [available EXCEPT ![tx[w].sku] = tx[w].target - tx[w].seen]
        /\ UNCHANGED <<rowStatus, reserved>>
        /\ Finish(w)
    BY <1>8 DEF AdjustTotalStock
  <2>2. tx[w].sku \in Skus /\ tx[w].seen = reserved[tx[w].sku]
    BY <2>1, AdjustTxShape DEF AdjustFresh
  <2>3. Balanced'
    BY <2>1, <2>2 DEF Balanced, TypeOK
  <2> QED
    BY <2>1, <2>3, FinishAlone, FinishFresh
<1>9. ASSUME NEW w \in Workers, Reject(w) \/ Abort(w) PROVE BalanceInv'
  <2>1. Finish(w) /\ UNCHANGED <<rowStatus, total, reserved, available>>
    BY <1>9 DEF Reject, Abort
  <2> QED
    BY <2>1, FinishAlone, FinishFresh DEF Balanced
<1>10. CASE UNCHANGED vars
  BY <1>10 DEF vars, Balanced, AdjustAlone, AdjustFresh, Touches, Items
<1> QED
  BY <1>1, <1>2, <1>3, <1>4, <1>5, <1>6, <1>7, <1>8, <1>9, <1>10 DEF Next

(* When no adjustment overlaps a transaction on its SKU, available = total -
   reserved holds for every stock row at all times, even if transactions of one
   order overlap. *)
THEOREM BalancedWithoutOverlap == ~AdjustOverlap => (Spec => []Balanced)
<1> SUFFICES ASSUME ~AdjustOverlap PROVE Spec => []Balanced
  OBVIOUS
<1>1. Init => BalanceInv
  BY DEF Init, BalanceInv, Balanced, AdjustAlone, AdjustFresh, Idle
<1>2. TypeOK /\ BalanceInv /\ [Next]_vars => BalanceInv'
  BY BalanceStep
<1>3. BalanceInv => Balanced
  BY DEF BalanceInv
<1> QED
  BY <1>1, <1>2, <1>3, TypeCorrect, PTL DEF Spec

------------------------------------------------------------------------------
(* A multi-SKU order is handled as a whole.  The strengthening says that a snapshot
   shows the rows of an order in one state, so that Missing and Held are each all of
   the items or none of them, even when the snapshot is stale. *)

SameItems(o) == \A b, c \in Baskets[o] : DOMAIN b = DOMAIN c

SnapWhole ==
  \A w \in Workers : tx[w].op \in OrderOps =>
    /\ tx[w].basket \in Baskets[tx[w].order]
    /\ SameItems(tx[w].order) =>
         \A r, s \in Items(tx[w]) : tx[w].snap[r].status = tx[w].snap[s].status

WholeInv == AllOrNothing /\ SnapWhole

LEMMA FinishWhole ==
  ASSUME TypeOK, SnapWhole, NEW w \in Workers, Finish(w)
  PROVE  SnapWhole'
  BY DEF SnapWhole, Finish, Idle, OrderOps, Items, TypeOK

LEMMA AllOrNone ==
  ASSUME SnapWhole, NEW w \in Workers, tx[w].op \in OrderOps, SameItems(tx[w].order)
  PROVE  /\ Missing(tx[w]) \in {{}, Items(tx[w])}
         /\ Held(tx[w]) \in {{}, Items(tx[w])}
  BY DEF SnapWhole, Missing, Held

(* Writing all of an order's rows, or none, keeps its rows in one state. *)
LEMMA WriteWhole ==
  ASSUME TypeOK, WholeInv, NEW w \in Workers, tx[w].op \in OrderOps,
         NEW S, NEW st,
         SameItems(tx[w].order) => S \in {{}, Items(tx[w])},
         resv' = WriteRows(tx[w].order, S, st, tx[w].basket)
  PROVE  AllOrNothing'
<1> SUFFICES ASSUME NEW o \in Orders, NEW b \in Baskets[o],
                    \A c \in Baskets[o] : DOMAIN c = DOMAIN b,
                    NEW r \in DOMAIN b, NEW s \in DOMAIN b
             PROVE  resv'[o][r].status = resv'[o][s].status
  BY DEF AllOrNothing
<1>1. r \in Skus /\ s \in Skus /\ resv[o][r].status = resv[o][s].status
  BY BasketsAssumption DEF WholeInv, AllOrNothing
<1>2. tx[w].order \in Orders /\ tx[w].basket \in Baskets[tx[w].order]
  BY OrderTxShape DEF WholeInv, SnapWhole
<1>3. CASE o # tx[w].order
  BY <1>1, <1>2, <1>3 DEF WriteRows, TypeOK
<1>4. CASE o = tx[w].order
  <2>1. SameItems(o) /\ Items(tx[w]) = DOMAIN b
    BY <1>2, <1>4 DEF SameItems, Items
  <2>2. resv'[o] = [x \in Skus |-> IF x \in S THEN [status |-> st, qty |-> tx[w].basket[x]]
                                   ELSE resv[o][x]]
    BY <1>2, <1>4 DEF WriteRows, TypeOK
  <2> QED
    BY <1>1, <1>4, <2>1, <2>2
<1> QED
  BY <1>3, <1>4

LEMMA WholeStep == TypeOK /\ WholeInv /\ [Next]_vars => WholeInv'
<1> SUFFICES ASSUME TypeOK, WholeInv, [Next]_vars PROVE WholeInv'
  OBVIOUS
<1>1. ASSUME NEW w \in Workers, NEW op \in OrderOps, NEW o \in Orders, NEW b \in Baskets[o],
             Begin(w, op, o, b)
      PROVE  WholeInv'
  <2> DEFINE t == [op |-> op, order |-> o, basket |-> b, snap |-> Snapshot(o, b)]
  <2>1. resv' = resv /\ tx' = [tx EXCEPT ![w] = t]
    BY <1>1 DEF Begin
  <2>2. tx'[w] = t /\ \A v \in Workers : v # w => tx'[v] = tx[v]
    BY <2>1 DEF TypeOK
  <2>3. SameItems(o) => \A r, s \in DOMAIN b : Snapshot(o, b)[r].status = Snapshot(o, b)[s].status
    BY BasketsAssumption DEF WholeInv, AllOrNothing, SameItems, Snapshot
  <2>4. AllOrNothing'
    BY <2>1 DEF WholeInv, AllOrNothing
  <2>5. SnapWhole'
    <3> SUFFICES ASSUME NEW v \in Workers, tx'[v].op \in OrderOps
                 PROVE  /\ tx'[v].basket \in Baskets[tx'[v].order]
                        /\ SameItems(tx'[v].order) =>
                             \A r, s \in Items(tx'[v]) :
                               tx'[v].snap[r].status = tx'[v].snap[s].status
      BY DEF SnapWhole, Items, SameItems
    <3>1. CASE v = w
      BY <2>2, <2>3, <3>1 DEF Items
    <3>2. CASE v # w
      BY <2>2, <3>2 DEF WholeInv, SnapWhole, Items
    <3> QED
      BY <3>1, <3>2
  <2> QED
    BY <2>4, <2>5 DEF WholeInv
<1>2. ASSUME NEW w \in Workers, Reserve(w) PROVE WholeInv'
  <2>1. /\ tx[w].op \in OrderOps /\ Finish(w)
        /\ resv' = WriteRows(tx[w].order, Missing(tx[w]), "reserved", tx[w].basket)
    BY <1>2 DEF Reserve, OrderOps
  <2> QED
    BY <2>1, AllOrNone, WriteWhole, FinishWhole DEF WholeInv
<1>3. ASSUME NEW w \in Workers, Release(w) PROVE WholeInv'
  <2>1. /\ tx[w].op \in OrderOps /\ Finish(w)
        /\ resv' = WriteRows(tx[w].order, Held(tx[w]) \cup Missing(tx[w]), "released",
                             tx[w].basket)
    BY <1>3 DEF Release, OrderOps
  <2>2. SameItems(tx[w].order) => Held(tx[w]) \cup Missing(tx[w]) \in {{}, Items(tx[w])}
    BY <2>1, AllOrNone DEF WholeInv
  <2> QED
    BY <2>1, <2>2, WriteWhole, FinishWhole DEF WholeInv
<1>4. ASSUME NEW w \in Workers, ConfirmDeduct(w) PROVE WholeInv'
  <2>1. /\ tx[w].op \in OrderOps /\ Finish(w)
        /\ resv' = WriteRows(tx[w].order, Held(tx[w]), "confirmed", tx[w].basket)
    BY <1>4 DEF ConfirmDeduct, OrderOps
  <2> QED
    BY <2>1, AllOrNone, WriteWhole, FinishWhole DEF WholeInv
<1>5. ASSUME NEW w \in Workers, NEW s \in Skus, NEW n \in 0 .. MaxTotal, BeginAdjust(w, s, n)
      PROVE  WholeInv'
  <2>1. /\ resv' = resv
        /\ tx' = [tx EXCEPT ![w] =
                    [op |-> "adjust", sku |-> s, target |-> n, seen |-> reserved[s]]]
    BY <1>5 DEF BeginAdjust
  <2> QED
    BY <2>1 DEF WholeInv, AllOrNothing, SnapWhole, OrderOps, Items, TypeOK
<1>6. ASSUME NEW w \in Workers, AdjustTotalStock(w) \/ Reject(w) \/ Abort(w) PROVE WholeInv'
  <2>1. resv' = resv /\ Finish(w)
    BY <1>6 DEF AdjustTotalStock, Reject, Abort
  <2> QED
    BY <2>1, FinishWhole DEF WholeInv, AllOrNothing
<1>7. CASE UNCHANGED <<resv, tx>>
  BY <1>7 DEF WholeInv, AllOrNothing, SnapWhole, Items
<1> QED
  BY <1>1, <1>2, <1>3, <1>4, <1>5, <1>6, <1>7
     DEF Next, vars, InitSkuStocks, FreezeSkuStocks

(* AllOrNothing: no order is ever half reserved, half released or half confirmed,
   whatever transactions overlap. *)
THEOREM WholeOrders == Spec => []AllOrNothing
<1>1. Init => WholeInv
  BY BasketsAssumption DEF Init, WholeInv, AllOrNothing, SnapWhole, NoRow, Idle, OrderOps
<1>2. TypeOK /\ WholeInv /\ [Next]_vars => WholeInv'
  BY WholeStep
<1>3. WholeInv => AllOrNothing
  BY DEF WholeInv
<1> QED
  BY <1>1, <1>2, <1>3, TypeCorrect, PTL DEF Spec

------------------------------------------------------------------------------
(* reserved_stock is what the reserved rows add up to, when no two transactions of an
   order are open together.  The strengthening: a snapshot is still true when its
   transaction commits, and stock is reserved only of SKUs that have a row. *)

OrderAlone ==
  \A w, v \in Workers :
    w # v /\ tx[w].op \in OrderOps /\ tx[v].op \in OrderOps => tx[w].order # tx[v].order

SnapFresh ==
  \A w \in Workers : tx[w].op \in OrderOps =>
    \A s \in Items(tx[w]) : tx[w].snap[s] = resv[tx[w].order][s]

HeldIsStocked ==
  \A o \in Orders, s \in Skus : resv[o][s].status = "reserved" => rowStatus[s] # "absent"

HeldFinite == \A s \in Skus : IsFiniteSet(HeldUnits(s))

BackedInv == ReservedBacked /\ HeldFinite /\ HeldIsStocked /\ OrderAlone /\ SnapFresh

\* What a reservation row keeps.
Kept(r) == IF r.status = "reserved" THEN r.qty ELSE 0
UnitsOf(o, r) == {o} \X (1 .. Kept(r))

(* A row keeps finitely many units, as many as its quantity while it is reserved. *)
LEMMA UnitsCounted ==
  ASSUME NEW o, NEW r \in ReservationRow
  PROVE  IsFiniteSet(UnitsOf(o, r)) /\ Cardinality(UnitsOf(o, r)) = Kept(r) /\ Kept(r) \in Nat
<1>1. Kept(r) \in Nat
  BY DEF Kept, ReservationRow
<1>2. IsFiniteSet(1 .. Kept(r)) /\ Cardinality(1 .. Kept(r)) = Kept(r)
  BY <1>1, FS_Interval
<1>3. IsFiniteSet({o}) /\ Cardinality({o}) = 1
  BY FS_Singleton
<1>4. /\ IsFiniteSet({o} \X (1 .. Kept(r)))
      /\ Cardinality({o} \X (1 .. Kept(r))) = Cardinality({o}) * Cardinality(1 .. Kept(r))
  BY <1>2, <1>3, FS_Product
<1> QED
  BY <1>1, <1>2, <1>3, <1>4 DEF UnitsOf

(* When one order's row of a SKU changes, what is held of the SKU changes by what that
   row keeps. *)
LEMMA HeldMoves ==
  ASSUME TypeOK, NEW s \in Skus, NEW o \in Orders, IsFiniteSet(HeldUnits(s)),
         resv' \in [Orders -> [Skus -> ReservationRow]],
         \A p \in Orders : p # o => resv'[p][s] = resv[p][s]
  PROVE  /\ IsFiniteSet(HeldUnits(s)')
         /\ Cardinality(HeldUnits(s)') + Kept(resv[o][s])
              = Cardinality(HeldUnits(s)) + Kept(resv'[o][s])
<1> DEFINE others == UNION {UnitsOf(p, resv[p][s]) : p \in Orders \ {o}}
           old == UnitsOf(o, resv[o][s])
           new == UnitsOf(o, resv'[o][s])
<1>1. resv[o][s] \in ReservationRow /\ resv'[o][s] \in ReservationRow
  BY DEF TypeOK
<1>2. HeldUnits(s) = others \cup old
  BY DEF HeldUnits, UnitsOf, Kept, TypeOK, ReservationRow
<1>3. HeldUnits(s)' = others \cup new
  BY DEF HeldUnits, UnitsOf, Kept, TypeOK, ReservationRow
<1>4. others \cap old = {} /\ others \cap new = {}
  BY DEF UnitsOf
<1>5. IsFiniteSet(others)
  BY <1>2, FS_Subset
<1>6. /\ IsFiniteSet(old) /\ Cardinality(old) = Kept(resv[o][s]) /\ Kept(resv[o][s]) \in Nat
      /\ IsFiniteSet(new) /\ Cardinality(new) = Kept(resv'[o][s]) /\ Kept(resv'[o][s]) \in Nat
  BY <1>1, UnitsCounted
<1>7. Cardinality({}) = 0 /\ Cardinality(others) \in Nat
  BY <1>5, FS_EmptySet, FS_CardinalityType
<1>8. Cardinality(HeldUnits(s)) = Cardinality(others) + Cardinality(old)
  <2>1. Cardinality(others \cup old)
          = Cardinality(others) + Cardinality(old) - Cardinality(others \cap old)
    BY <1>5, <1>6, FS_Union
  <2>2. Cardinality(others \cap old) = 0
    BY <1>4, <1>7
  <2> HIDE DEF others, old
  <2>3. Cardinality(others \cup old) = Cardinality(others) + Cardinality(old)
    BY <1>6, <1>7, <2>1, <2>2
  <2> QED
    BY <1>2, <2>3
<1>9. /\ IsFiniteSet(HeldUnits(s)')
      /\ Cardinality(HeldUnits(s)') = Cardinality(others) + Cardinality(new)
  <2>1. /\ IsFiniteSet(others \cup new)
        /\ Cardinality(others \cup new)
             = Cardinality(others) + Cardinality(new) - Cardinality(others \cap new)
    BY <1>5, <1>6, FS_Union
  <2>2. Cardinality(others \cap new) = 0
    BY <1>4, <1>7
  <2> HIDE DEF others, new
  <2>3. Cardinality(others \cup new) = Cardinality(others) + Cardinality(new)
    BY <1>6, <1>7, <2>1, <2>2
  <2> QED
    BY <1>3, <2>1, <2>3
<1> HIDE DEF others, old, new
<1> QED
  BY <1>6, <1>7, <1>8, <1>9

(* A transaction that ends and writes rows of its own order only leaves every other
   snapshot true. *)
LEMMA FinishBacked ==
  ASSUME TypeOK, OrderAlone, SnapFresh, NEW w \in Workers, Finish(w),
         \A o \in Orders : (tx[w].op \in OrderOps /\ o = tx[w].order) \/ resv'[o] = resv[o]
  PROVE  OrderAlone' /\ SnapFresh'
<1>1. tx'[w] = Idle /\ \A v \in Workers : v # w => tx'[v] = tx[v]
  BY DEF Finish, TypeOK
<1>2. OrderAlone'
  BY <1>1 DEF OrderAlone, Idle, OrderOps
<1>3. SnapFresh'
  <2> SUFFICES ASSUME NEW v \in Workers, tx'[v].op \in OrderOps, NEW s \in Items(tx'[v])
               PROVE  tx'[v].snap[s] = resv'[tx'[v].order][s]
    BY DEF SnapFresh, Items
  <2>1. v # w /\ tx'[v] = tx[v]
    BY <1>1 DEF Idle, OrderOps
  <2>2. tx[v].order \in Orders
    BY <2>1, OrderTxShape
  <2>3. resv'[tx[v].order] = resv[tx[v].order]
    BY <2>1, <2>2 DEF OrderAlone
  <2> QED
    BY <2>1, <2>3 DEF SnapFresh
<1> QED
  BY <1>2, <1>3

(* A commit that writes rows of its order and moves reserved_stock by what they keep. *)
LEMMA CommitBacked ==
  ASSUME TypeOK, TypeOK', BackedInv, NEW w \in Workers, Finish(w), tx[w].op \in OrderOps,
         UNCHANGED rowStatus,
         NEW S \in SUBSET Skus, NEW st \in {"reserved", "released", "confirmed"},
         resv' = WriteRows(tx[w].order, S, st, tx[w].basket),
         st = "reserved" => \A s \in S : rowStatus[s] # "absent",
         \A s \in Skus : reserved'[s] + Kept(resv[tx[w].order][s])
                           = reserved[s] + Kept(resv'[tx[w].order][s])
  PROVE  BackedInv'
<1> DEFINE o == tx[w].order
<1>1. o \in Orders
  BY OrderTxShape
<1>2. resv'[o] = [s \in Skus |-> IF s \in S THEN [status |-> st, qty |-> tx[w].basket[s]]
                                 ELSE resv[o][s]]
  BY <1>1 DEF WriteRows, TypeOK
<1>3. \A p \in Orders : p # o => resv'[p] = resv[p]
  BY <1>1 DEF WriteRows, TypeOK
<1>4. OrderAlone' /\ SnapFresh'
  BY <1>3, FinishBacked DEF BackedInv
<1>5. HeldIsStocked'
  BY <1>1, <1>2, <1>3 DEF BackedInv, HeldIsStocked
<1>6. ASSUME NEW s \in Skus
      PROVE  IsFiniteSet(HeldUnits(s)') /\ reserved'[s] = Cardinality(HeldUnits(s)')
  <2>1. /\ IsFiniteSet(HeldUnits(s)')
        /\ Cardinality(HeldUnits(s)') + Kept(resv[o][s])
             = Cardinality(HeldUnits(s)) + Kept(resv'[o][s])
    BY <1>1, <1>3, HeldMoves DEF TypeOK, BackedInv, HeldFinite
  <2>2. /\ Kept(resv[o][s]) \in Nat /\ Kept(resv'[o][s]) \in Nat
        /\ reserved[s] \in Int /\ reserved'[s] \in Int
    BY <1>1, UnitsCounted, ZenonT(60) DEF TypeOK
  <2>3. Cardinality(HeldUnits(s)') \in Nat /\ reserved[s] = Cardinality(HeldUnits(s))
    BY <2>1, FS_CardinalityType DEF BackedInv, ReservedBacked
  <2> QED
    BY <2>1, <2>2, <2>3
<1>7. ReservedBacked' /\ HeldFinite'
  BY <1>6 DEF ReservedBacked, HeldFinite
<1> QED
  BY <1>4, <1>5, <1>7 DEF BackedInv

(* Every step keeps the strengthening when no two transactions of an order overlap. *)
LEMMA BackedStep ==
  ASSUME TypeOK, TypeOK', BackedInv, [Next]_vars, ~SameOrderOverlap
  PROVE  BackedInv'
<1>1. ASSUME NEW S \in SUBSET Skus, NEW n \in 0 .. MaxTotal, InitSkuStocks(S, n)
      PROVE  BackedInv'
  <2>1. \A s \in Skus : HeldUnits(s)' = HeldUnits(s)
    BY <1>1 DEF InitSkuStocks, HeldUnits
  <2>2. \A s \in S : HeldUnits(s) = {}
    BY <1>1 DEF InitSkuStocks, HeldUnits, BackedInv, HeldIsStocked
  <2>3. Cardinality({}) = 0
    BY FS_EmptySet
  <2>4. ReservedBacked' /\ HeldFinite'
    BY <1>1, <2>1, <2>2, <2>3 DEF InitSkuStocks, BackedInv, ReservedBacked, HeldFinite
  <2>5. HeldIsStocked'
    BY <1>1 DEF InitSkuStocks, BackedInv, HeldIsStocked, TypeOK
  <2>6. OrderAlone' /\ SnapFresh'
    BY <1>1 DEF InitSkuStocks, BackedInv, OrderAlone, SnapFresh, Items
  <2> QED
    BY <2>4, <2>5, <2>6 DEF BackedInv
<1>2. ASSUME NEW S \in SUBSET Skus, FreezeSkuStocks(S) PROVE BackedInv'
  <2>1. /\ UNCHANGED <<reserved, resv, tx>>
        /\ \A s \in Skus : rowStatus[s] # "absent" => rowStatus'[s] # "absent"
    BY <1>2 DEF FreezeSkuStocks, TypeOK
  <2> QED
    BY <2>1 DEF BackedInv, ReservedBacked, HeldFinite, HeldUnits, HeldIsStocked, OrderAlone,
                SnapFresh, Items
<1>3. ASSUME NEW w \in Workers, NEW op \in OrderOps, NEW o \in Orders, NEW b \in Baskets[o],
             Begin(w, op, o, b)
      PROVE  BackedInv'
  <2> DEFINE t == [op |-> op, order |-> o, basket |-> b, snap |-> Snapshot(o, b)]
  <2>1. UNCHANGED <<rowStatus, reserved, resv>> /\ tx' = [tx EXCEPT ![w] = t]
    BY <1>3 DEF Begin
  <2>2. tx'[w] = t /\ \A v \in Workers : v # w => tx'[v] = tx[v]
    BY <2>1 DEF TypeOK
  <2>3. \A v \in Workers : tx[v].op \in OrderOps => tx[v].order # o
    BY <1>3 DEF Begin, MayOverlapOrder
  <2>4. OrderAlone'
    BY <2>2, <2>3 DEF BackedInv, OrderAlone
  <2>5. SnapFresh'
    <3> SUFFICES ASSUME NEW v \in Workers, tx'[v].op \in OrderOps, NEW s \in Items(tx'[v])
                 PROVE  tx'[v].snap[s] = resv[tx'[v].order][s]
      BY <2>1 DEF SnapFresh, Items
    <3>1. CASE v = w
      BY <2>2, <3>1, BasketsAssumption DEF Items, Snapshot
    <3>2. CASE v # w
      BY <2>2, <3>2 DEF BackedInv, SnapFresh
    <3> QED
      BY <3>1, <3>2
  <2>6. ReservedBacked' /\ HeldFinite' /\ HeldIsStocked'
    BY <2>1 DEF BackedInv, ReservedBacked, HeldFinite, HeldUnits, HeldIsStocked
  <2> QED
    BY <2>4, <2>5, <2>6 DEF BackedInv
<1>4. ASSUME NEW w \in Workers,
             NEW S \in {Missing(tx[w]), Held(tx[w]), Held(tx[w]) \cup Missing(tx[w])},
             tx[w].op \in OrderOps
      PROVE  S \in SUBSET Skus
  BY <1>4, OrderTxShape DEF Missing, Held
<1>5. ASSUME NEW w \in Workers, tx[w].op \in OrderOps, SameQuantities(tx[w]), NEW s \in Skus
      PROVE  /\ s \in Missing(tx[w]) => Kept(resv[tx[w].order][s]) = 0
             /\ s \in Held(tx[w]) => Kept(resv[tx[w].order][s]) = tx[w].basket[s]
             /\ s \in Missing(tx[w]) \cup Held(tx[w]) => tx[w].basket[s] \in Nat
             /\ tx[w].order \in Orders /\ reserved[s] \in Int
             /\ Kept(resv[tx[w].order][s]) \in Nat
  <2>1. /\ tx[w].order \in Orders /\ reserved[s] \in Int
        /\ \A r \in Items(tx[w]) : tx[w].basket[r] \in Nat
    BY <1>5, OrderTxShape DEF TypeOK
  <2>2. s \in Items(tx[w]) => tx[w].snap[s] = resv[tx[w].order][s]
    BY <1>5 DEF BackedInv, SnapFresh
  <2>3. Kept(resv[tx[w].order][s]) \in Nat
    BY <2>1, UnitsCounted DEF TypeOK
  <2> QED
    BY <1>5, <2>1, <2>2, <2>3 DEF Missing, Held, Kept, SameQuantities
<1>6. ASSUME NEW w \in Workers, Reserve(w) PROVE BackedInv'
  <2> DEFINE t == tx[w]
  <2>1. /\ t.op \in OrderOps /\ Finish(w) /\ rowStatus' = rowStatus /\ SameQuantities(t)
        /\ \A s \in Missing(t) : rowStatus[s] = "active"
        /\ reserved' = Plus(reserved, t.basket, Missing(t))
        /\ resv' = WriteRows(t.order, Missing(t), "reserved", t.basket)
    BY <1>6 DEF Reserve, CanReserve, OrderOps
  <2>2. ASSUME NEW s \in Skus
        PROVE  reserved'[s] + Kept(resv[t.order][s]) = reserved[s] + Kept(resv'[t.order][s])
    BY <1>5, <2>1 DEF Plus, Kept, WriteRows, TypeOK
  <2> QED
    BY <1>4, <2>1, <2>2, CommitBacked
<1>7. ASSUME NEW w \in Workers, Release(w) PROVE BackedInv'
  <2> DEFINE t == tx[w]
  <2>1. /\ t.op \in OrderOps /\ Finish(w) /\ rowStatus' = rowStatus /\ SameQuantities(t)
        /\ reserved' = Minus(reserved, t.basket, Held(t))
        /\ resv' = WriteRows(t.order, Held(t) \cup Missing(t), "released", t.basket)
    BY <1>7 DEF Release, CanRelease, OrderOps
  <2>2. ASSUME NEW s \in Skus
        PROVE  reserved'[s] + Kept(resv[t.order][s]) = reserved[s] + Kept(resv'[t.order][s])
    <3>1. CASE s \in Held(t)
      BY <1>5, <2>1, <3>1 DEF Minus, Kept, WriteRows, TypeOK
    <3>2. CASE s \notin Held(t)
      BY <1>5, <2>1, <3>2 DEF Minus, Kept, WriteRows, TypeOK
    <3> QED
      BY <3>1, <3>2
  <2> QED
    BY <1>4, <2>1, <2>2, CommitBacked
<1>8. ASSUME NEW w \in Workers, ConfirmDeduct(w) PROVE BackedInv'
  <2> DEFINE t == tx[w]
  <2>1. /\ t.op \in OrderOps /\ Finish(w) /\ rowStatus' = rowStatus /\ SameQuantities(t)
        /\ reserved' = Minus(reserved, t.basket, Held(t))
        /\ resv' = WriteRows(t.order, Held(t), "confirmed", t.basket)
    BY <1>8 DEF ConfirmDeduct, CanConfirm, OrderOps
  <2>2. ASSUME NEW s \in Skus
        PROVE  reserved'[s] + Kept(resv[t.order][s]) = reserved[s] + Kept(resv'[t.order][s])
    <3>1. CASE s \in Held(t)
      BY <1>5, <2>1, <3>1 DEF Minus, Kept, WriteRows, TypeOK
    <3>2. CASE s \notin Held(t)
      BY <1>5, <2>1, <3>2 DEF Minus, Kept, WriteRows, TypeOK
    <3> QED
      BY <3>1, <3>2
  <2> QED
    BY <1>4, <2>1, <2>2, CommitBacked
<1>9. ASSUME NEW w \in Workers, NEW s \in Skus, NEW n \in 0 .. MaxTotal, BeginAdjust(w, s, n)
      PROVE  BackedInv'
  <2>1. /\ UNCHANGED <<rowStatus, reserved, resv>>
        /\ tx' = [tx EXCEPT ![w] =
                    [op |-> "adjust", sku |-> s, target |-> n, seen |-> reserved[s]]]
    BY <1>9 DEF BeginAdjust
  <2>2. ReservedBacked' /\ HeldFinite' /\ HeldIsStocked'
    BY <2>1 DEF BackedInv, ReservedBacked, HeldFinite, HeldUnits, HeldIsStocked
  <2>3. OrderAlone' /\ SnapFresh'
    BY <2>1 DEF BackedInv, OrderAlone, SnapFresh, OrderOps, Items, TypeOK
  <2> QED
    BY <2>2, <2>3 DEF BackedInv
<1>10. ASSUME NEW w \in Workers, AdjustTotalStock(w) \/ Reject(w) \/ Abort(w) PROVE BackedInv'
  <2>1. UNCHANGED <<rowStatus, reserved, resv>> /\ Finish(w)
    BY <1>10 DEF AdjustTotalStock, Reject, Abort
  <2>2. OrderAlone' /\ SnapFresh'
    BY <2>1, FinishBacked DEF BackedInv
  <2> QED
    BY <2>1, <2>2 DEF BackedInv, ReservedBacked, HeldFinite, HeldUnits, HeldIsStocked
<1>11. CASE UNCHANGED vars
  BY <1>11 DEF vars, BackedInv, ReservedBacked, HeldFinite, HeldUnits, HeldIsStocked,
               OrderAlone, SnapFresh, Items
<1> QED
  BY <1>1, <1>2, <1>3, <1>6, <1>7, <1>8, <1>9, <1>10, <1>11 DEF Next

LEMMA BackedInit == Init => BackedInv
<1> SUFFICES ASSUME Init PROVE BackedInv
  OBVIOUS
<1>1. \A s \in Skus : HeldUnits(s) = {}
  BY DEF Init, HeldUnits, NoRow
<1>2. IsFiniteSet({}) /\ Cardinality({}) = 0
  BY FS_EmptySet
<1> QED
  BY <1>1, <1>2 DEF Init, BackedInv, ReservedBacked, HeldFinite, HeldIsStocked, OrderAlone,
                    SnapFresh, NoRow, Idle, OrderOps

(* ReservedBacked: while no two transactions of an order are open together, reserved_stock
   is exactly what the order's reserved rows add up to, even if adjustments overlap. *)
THEOREM BackedWithoutOverlap == ~SameOrderOverlap => (Spec => []ReservedBacked)
<1> SUFFICES ASSUME ~SameOrderOverlap PROVE Spec => []ReservedBacked
  OBVIOUS
<1>1. Init => BackedInv
  BY BackedInit
<1>2. TypeOK /\ TypeOK' /\ BackedInv /\ [Next]_vars => BackedInv'
  BY BackedStep
<1>3. BackedInv => ReservedBacked
  BY DEF BackedInv
<1> QED
  BY <1>1, <1>2, <1>3, TypeCorrect, PTL DEF Spec
------------------------------------------------------------------------------
(* What callers rely on.  A release or a confirmation that commits leaves all rows of its
   item list released or confirmed, even when it branched on a stale snapshot: what a
   snapshot shows as final is still final.  With fresh snapshots it leaves them all
   released, or all confirmed, and nothing changes them any more. *)

SnapFinal ==
  \A w \in Workers : tx[w].op \in OrderOps =>
    \A s \in Items(tx[w]) :
      tx[w].snap[s].status \in Final => resv[tx[w].order][s].status \in Final

LEMMA SnapFinalStep == TypeOK /\ SnapFinal /\ [Next]_vars => SnapFinal'
<1> SUFFICES ASSUME TypeOK, SnapFinal, [Next]_vars,
                    NEW w \in Workers, tx'[w].op \in OrderOps, NEW s \in Items(tx'[w]),
                    tx'[w].snap[s].status \in Final
             PROVE  resv'[tx'[w].order][s].status \in Final
  BY DEF SnapFinal, Items
<1>1. CASE tx'[w] = tx[w]
  <2>1. tx[w].order \in Orders /\ s \in Skus /\ s \in Items(tx[w])
    BY <1>1, OrderTxShape
  <2>2. resv[tx[w].order][s].status \in Final
    BY <1>1, <2>1 DEF SnapFinal
  <2> QED
    BY <1>1, <2>1, <2>2, FinalStep
<1>2. CASE tx'[w] # tx[w]
  <2>1. PICK op \in OrderOps, o \in Orders : \E b \in Baskets[o] : Begin(w, op, o, b)
    <3>1. \A v \in Workers : Finish(v) => tx'[w] \in {tx[w], Idle}
      BY DEF Finish, TypeOK
    <3>2. \A v \in Workers, op \in OrderOps, o \in Orders : \A b \in Baskets[o] :
            Begin(v, op, o, b) /\ v # w => tx'[w] = tx[w]
      BY DEF Begin, TypeOK
    <3>3. \A v \in Workers, r \in Skus, n \in 0 .. MaxTotal :
            BeginAdjust(v, r, n) => tx'[w] = tx[w] \/ tx'[w].op = "adjust"
      BY DEF BeginAdjust, TypeOK
    <3>4. tx'[w] # Idle /\ tx'[w].op # "adjust"
      BY DEF Idle, OrderOps
    <3> QED
      BY <1>2, <3>1, <3>2, <3>3, <3>4
         DEF Next, vars, InitSkuStocks, FreezeSkuStocks, Reserve, Release, ConfirmDeduct,
             AdjustTotalStock, Reject, Abort
  <2>2. PICK b \in Baskets[o] : Begin(w, op, o, b)
    BY <2>1
  <2>3. /\ tx'[w] = [op |-> op, order |-> o, basket |-> b, snap |-> Snapshot(o, b)]
        /\ resv' = resv
    BY <2>2 DEF Begin, TypeOK
  <2>4. s \in DOMAIN b /\ s \in Skus
    BY <2>3, BasketsAssumption DEF Items
  <2>5. tx'[w].snap[s] = resv[o][s]
    BY <2>3, <2>4 DEF Snapshot
  <2> QED
    BY <2>3, <2>5
<1> QED
  BY <1>1, <1>2

LEMMA ReleasedRows ==
  ASSUME TypeOK, NEW w \in Workers, Release(w), NEW s \in Items(tx[w])
  PROVE  \/ resv'[tx[w].order][s].status = "released"
         \/ /\ tx[w].snap[s].status = "released"
            /\ resv'[tx[w].order][s] = resv[tx[w].order][s]
<1>1. /\ tx[w].order \in Orders /\ s \in Skus
      /\ tx[w].snap[s] \in ReservationRow
  BY OrderTxShape DEF Release, OrderOps
<1>2. resv'[tx[w].order][s] = IF s \in Held(tx[w]) \cup Missing(tx[w])
                              THEN [status |-> "released", qty |-> tx[w].basket[s]]
                              ELSE resv[tx[w].order][s]
  BY <1>1, ReleaseWrites
<1>3. CASE s \in Held(tx[w]) \cup Missing(tx[w])
  BY <1>2, <1>3
<1>4. CASE s \notin Held(tx[w]) \cup Missing(tx[w])
  <2>1. tx[w].snap[s].status \notin {"none", "reserved", "confirmed"}
    BY <1>4 DEF Release, CanRelease, Held, Missing
  <2> QED
    BY <1>1, <1>2, <1>4, <2>1 DEF ReservationRow
<1> QED
  BY <1>3, <1>4

LEMMA ConfirmedRows ==
  ASSUME TypeOK, NEW w \in Workers, ConfirmDeduct(w), NEW s \in Items(tx[w])
  PROVE  \/ resv'[tx[w].order][s].status = "confirmed"
         \/ /\ tx[w].snap[s].status = "confirmed"
            /\ resv'[tx[w].order][s] = resv[tx[w].order][s]
<1>1. /\ tx[w].order \in Orders /\ s \in Skus
      /\ tx[w].snap[s] \in ReservationRow
  BY OrderTxShape DEF ConfirmDeduct, OrderOps
<1>2. resv'[tx[w].order][s] = IF s \in Held(tx[w])
                              THEN [status |-> "confirmed", qty |-> tx[w].basket[s]]
                              ELSE resv[tx[w].order][s]
  BY <1>1, ConfirmWrites
<1>3. CASE s \in Held(tx[w])
  BY <1>2, <1>3
<1>4. CASE s \notin Held(tx[w])
  <2>1. tx[w].snap[s].status \notin {"none", "reserved", "released"}
    BY <1>4 DEF ConfirmDeduct, CanConfirm, Held, Missing
  <2> QED
    BY <1>1, <1>2, <1>4, <2>1 DEF ReservationRow
<1> QED
  BY <1>3, <1>4

LEMMA FinalFixed ==
  ASSUME TypeOK, SnapFresh, [Next]_vars,
         NEW o \in Orders, NEW s \in Skus, resv[o][s].status \in Final
  PROVE  resv'[o][s] = resv[o][s]
<1>a. ASSUME NEW w \in Workers, tx[w].op \in OrderOps, tx[w].order = o, s \in Items(tx[w])
      PROVE  tx[w].snap[s].status \in Final
  BY <1>a DEF SnapFresh
<1>1. ASSUME NEW w \in Workers, Reserve(w) PROVE resv'[o][s] = resv[o][s]
  <2>1. ~(o = tx[w].order /\ s \in Missing(tx[w]))
    BY <1>1, ReserveWrites DEF Final, NoRow
  <2> QED
    BY <1>1, <2>1, ReserveWrites
<1>2. ASSUME NEW w \in Workers, Release(w) PROVE resv'[o][s] = resv[o][s]
  <2>1. ~(o = tx[w].order /\ s \in Held(tx[w]) \cup Missing(tx[w]))
    BY <1>2, <1>a DEF Release, OrderOps, Held, Missing, Final
  <2>2. resv'[o][s] = IF o = tx[w].order /\ s \in Held(tx[w]) \cup Missing(tx[w])
                      THEN [status |-> "released", qty |-> tx[w].basket[s]]
                      ELSE resv[o][s]
    BY <1>2, ReleaseWrites
  <2> QED
    BY <2>1, <2>2
<1>3. ASSUME NEW w \in Workers, ConfirmDeduct(w) PROVE resv'[o][s] = resv[o][s]
  <2>1. ~(o = tx[w].order /\ s \in Held(tx[w]))
    BY <1>3, <1>a DEF ConfirmDeduct, OrderOps, Held, Final
  <2> QED
    BY <1>3, <2>1, ConfirmWrites
<1> QED
  BY <1>1, <1>2, <1>3
     DEF Next, vars, InitSkuStocks, FreezeSkuStocks, Begin, BeginAdjust,
         AdjustTotalStock, Reject, Abort

------------------------------------------------------------------------------
(* The service implements StockLedger: without overlap a snapshot shows the rows as they
   are at the commit, available_stock is what the ledger computes from the rows, and a
   transaction is its commit. *)

LedgerInv == TypeOK /\ NonNegInv /\ BalanceInv /\ WholeInv /\ BackedInv

(* The ledger counts with a copy of the same Cardinality. *)
LEMMA SameCardinality == \A S : Ledger!Cardinality(S) = Cardinality(S)
BY DEF Ledger!Cardinality, Cardinality

(* What the ledger has for sale is what the row has in available_stock. *)
LEMMA ForSaleIsAvailable ==
  ASSUME LedgerInv, NEW s \in Skus
  PROVE  /\ Ledger!ForSale(s) = available[s]
         /\ Cardinality(Ledger!HeldUnits(s)) = reserved[s]
<1>1. Ledger!HeldUnits(s) = HeldUnits(s)
  BY DEF Ledger!HeldUnits, HeldUnits
<1>2. reserved[s] = Cardinality(HeldUnits(s)) /\ available[s] = total[s] - reserved[s]
  BY DEF LedgerInv, BackedInv, ReservedBacked, BalanceInv, Balanced
<1> QED
  BY <1>1, <1>2, SameCardinality DEF Ledger!ForSale

(* A transaction's snapshot shows what the ledger's rows say at its commit. *)
LEMMA SnapIsLedger ==
  ASSUME LedgerInv, NEW w \in Workers, tx[w].op \in OrderOps
  PROVE  LET t == tx[w] IN
         /\ t.order \in Orders /\ t.basket \in Baskets[t.order]
         /\ Items(t) \subseteq Skus
         /\ \A s \in Items(t) : /\ t.snap[s] = resv[t.order][s]
                                /\ resv[t.order][s] \in ReservationRow
         /\ Missing(t) = Ledger!RowsIn(t.order, t.basket, "none")
         /\ Held(t) = Ledger!RowsIn(t.order, t.basket, "reserved")
<1>1. /\ tx[w].order \in Orders /\ tx[w].basket \in Baskets[tx[w].order]
      /\ Items(tx[w]) \subseteq Skus
  BY OrderTxShape DEF LedgerInv, WholeInv, SnapWhole
<1>2. \A s \in Items(tx[w]) : /\ tx[w].snap[s] = resv[tx[w].order][s]
                              /\ resv[tx[w].order][s] \in ReservationRow
  BY <1>1 DEF LedgerInv, BackedInv, SnapFresh, TypeOK
<1>3. /\ Missing(tx[w]) = Ledger!RowsIn(tx[w].order, tx[w].basket, "none")
      /\ Held(tx[w]) = Ledger!RowsIn(tx[w].order, tx[w].basket, "reserved")
  BY <1>2 DEF Missing, Held, Ledger!RowsIn, Items
<1> QED
  BY <1>1, <1>2, <1>3

(* Quantities that agree with the snapshot agree with the ledger's rows. *)
LEMMA QuantitiesAgree ==
  ASSUME LedgerInv, NEW w \in Workers, tx[w].op \in OrderOps, SameQuantities(tx[w]),
         \A s \in Missing(tx[w]) : resv[tx[w].order][s] = NoRow
  PROVE  Ledger!Agrees(tx[w].order, tx[w].basket)
<1> SUFFICES ASSUME NEW s \in Items(tx[w]), resv[tx[w].order][s] # NoRow
             PROVE  resv[tx[w].order][s].qty = tx[w].basket[s]
  BY DEF Ledger!Agrees, Ledger!NoRow, NoRow, Items
<1>1. s \notin Missing(tx[w])
  OBVIOUS
<1> QED
  BY <1>1, SnapIsLedger DEF SameQuantities

LEMMA ReserveIsPromise ==
  ASSUME LedgerInv, NEW w \in Workers, Reserve(w)
  PROVE  Ledger!Promise(tx[w].order, tx[w].basket)
<1> DEFINE o == tx[w].order
           b == tx[w].basket
<1>1. tx[w].op \in OrderOps /\ CanReserve(tx[w])
  BY DEF Reserve, OrderOps
<1>2. /\ Missing(tx[w]) = Ledger!RowsIn(o, b, "none")
      /\ Held(tx[w]) = Ledger!RowsIn(o, b, "reserved")
      /\ Items(tx[w]) \subseteq Skus
  BY <1>1, SnapIsLedger
<1>3. Ledger!Agrees(o, b)
  BY <1>1, QuantitiesAgree DEF CanReserve, Insertable
<1>4. \A s \in Missing(tx[w]) : rowStatus[s] = "active" /\ Ledger!ForSale(s) >= b[s]
  BY <1>1, <1>2, ForSaleIsAvailable DEF CanReserve, Missing
<1>5. Items(tx[w]) = DOMAIN b
  BY DEF Items
<1>6. Ledger!Rewrite(o, Missing(tx[w]), "reserved", b)
  BY DEF Reserve, WriteRows, Ledger!Rewrite
<1> QED
  BY <1>1, <1>2, <1>3, <1>4, <1>5, <1>6 DEF Ledger!Promise, CanReserve, Reserve

LEMMA ReleaseIsGiveBack ==
  ASSUME LedgerInv, NEW w \in Workers, Release(w)
  PROVE  Ledger!GiveBack(tx[w].order, tx[w].basket)
<1> DEFINE o == tx[w].order
           b == tx[w].basket
           S == Held(tx[w]) \cup Missing(tx[w])
<1>1. tx[w].op \in OrderOps /\ CanRelease(tx[w])
  BY DEF Release, OrderOps
<1>2. /\ o \in Orders
      /\ \A s \in Items(tx[w]) : /\ tx[w].snap[s] = resv[o][s]
                                 /\ resv[o][s] \in ReservationRow
      /\ Items(tx[w]) = DOMAIN b
  BY <1>1, SnapIsLedger DEF Items
<1>3. Ledger!Agrees(o, b)
  BY <1>1, QuantitiesAgree DEF CanRelease, Insertable
<1>4. Ledger!RowsIn(o, b, "confirmed") = {}
  BY <1>1, <1>2 DEF CanRelease, Ledger!RowsIn
<1>5. \A s \in DOMAIN b \ S : resv[o][s] = [status |-> "released", qty |-> b[s]]
  <2> SUFFICES ASSUME NEW s \in DOMAIN b \ S
               PROVE  resv[o][s] = [status |-> "released", qty |-> b[s]]
    OBVIOUS
  <2>1. s \in Items(tx[w]) \ Missing(tx[w]) /\ s \notin Held(tx[w])
    BY <1>2
  <2>2. resv[o][s].status = "released"
    BY <1>1, <1>2, <2>1 DEF CanRelease, Missing, Held, ReservationRow
  <2>3. resv[o][s].qty = b[s]
    BY <1>1, <1>2, <2>1 DEF CanRelease, SameQuantities
  <2> QED
    BY <1>2, <2>1, <2>2, <2>3 DEF ReservationRow
<1>6. S \subseteq DOMAIN b
  BY <1>2 DEF Held, Missing
<1>7. [s \in Skus |-> IF s \in S THEN [status |-> "released", qty |-> b[s]] ELSE resv[o][s]]
        = [s \in Skus |-> IF s \in DOMAIN b THEN [status |-> "released", qty |-> b[s]]
                                            ELSE resv[o][s]]
  BY <1>5, <1>6
<1>8. Ledger!Rewrite(o, DOMAIN b, "released", b)
  BY <1>7 DEF Release, WriteRows, Ledger!Rewrite
<1> QED
  BY <1>3, <1>4, <1>8 DEF Ledger!GiveBack, Release

LEMMA ConfirmIsHandOver ==
  ASSUME LedgerInv, NEW w \in Workers, ConfirmDeduct(w)
  PROVE  Ledger!HandOver(tx[w].order, tx[w].basket)
<1> DEFINE o == tx[w].order
           b == tx[w].basket
<1>1. tx[w].op \in OrderOps /\ CanConfirm(tx[w])
  BY DEF ConfirmDeduct, OrderOps
<1>2. /\ Held(tx[w]) = Ledger!RowsIn(o, b, "reserved")
      /\ \A s \in Items(tx[w]) : /\ tx[w].snap[s] = resv[o][s]
                                 /\ resv[o][s] \in ReservationRow
      /\ Items(tx[w]) = DOMAIN b
  BY <1>1, SnapIsLedger DEF Items
<1>3. Ledger!Agrees(o, b)
  BY <1>1, QuantitiesAgree DEF CanConfirm
<1>4. \A s \in DOMAIN b : resv[o][s].status \in {"reserved", "confirmed"}
  BY <1>1, <1>2 DEF CanConfirm, Missing, ReservationRow
<1>5. DOMAIN b = Held(tx[w]) \cup Ledger!RowsIn(o, b, "confirmed")
  BY <1>2, <1>4 DEF Ledger!RowsIn
<1>6. Ledger!Rewrite(o, Held(tx[w]), "confirmed", b)
  BY DEF ConfirmDeduct, WriteRows, Ledger!Rewrite
<1>7. total' = [s \in Skus |-> IF s \in Held(tx[w]) THEN total[s] - b[s] ELSE total[s]]
  BY DEF ConfirmDeduct, Minus
<1> QED
  BY <1>2, <1>3, <1>5, <1>6, <1>7 DEF Ledger!HandOver, ConfirmDeduct

LEMMA AdjustIsSetTotal ==
  ASSUME LedgerInv, NEW w \in Workers, AdjustTotalStock(w)
  PROVE  /\ tx[w].sku \in Skus /\ tx[w].target \in 0 .. MaxTotal
         /\ Ledger!SetTotal(tx[w].sku, tx[w].target)
<1>1. tx[w].op = "adjust"
  BY DEF AdjustTotalStock
<1>2. tx[w].sku \in Skus /\ tx[w].target \in 0 .. MaxTotal /\ tx[w].seen \in Int
  BY <1>1, AdjustTxShape DEF LedgerInv
<1>3. /\ rowStatus[tx[w].sku] # "absent"
      /\ tx[w].target >= reserved[tx[w].sku]
  BY <1>1, <1>2 DEF LedgerInv, NonNegInv, AdjustSane, BalanceInv, AdjustFresh
<1>4. tx[w].target >= Ledger!Cardinality(Ledger!HeldUnits(tx[w].sku))
  BY <1>2, <1>3, ForSaleIsAvailable, SameCardinality
<1> QED
  BY <1>2, <1>3, <1>4 DEF Ledger!SetTotal, AdjustTotalStock

(* Every step of the service is a step of the ledger or changes nothing in it. *)
LEMMA LedgerStep ==
  ASSUME LedgerInv, [Next]_vars
  PROVE  [Ledger!Next]_(Ledger!vars)
<1>1. ASSUME NEW S \in SUBSET Skus, NEW n \in 0 .. MaxTotal, InitSkuStocks(S, n)
      PROVE  Ledger!Next
  BY <1>1 DEF InitSkuStocks, Ledger!Next, Ledger!PutOnSale
<1>2. ASSUME NEW S \in SUBSET Skus, FreezeSkuStocks(S) PROVE Ledger!Next
  BY <1>2 DEF FreezeSkuStocks, Ledger!Next, Ledger!Freeze
<1>3. ASSUME NEW w \in Workers, tx[w].op \in OrderOps
      PROVE  tx[w].order \in Orders /\ tx[w].basket \in Baskets[tx[w].order]
  BY <1>3, SnapIsLedger
<1>4. ASSUME NEW w \in Workers, Reserve(w) PROVE Ledger!Next
  BY <1>3, <1>4, ReserveIsPromise DEF Ledger!Next, Reserve, OrderOps
<1>5. ASSUME NEW w \in Workers, Release(w) PROVE Ledger!Next
  BY <1>3, <1>5, ReleaseIsGiveBack DEF Ledger!Next, Release, OrderOps
<1>6. ASSUME NEW w \in Workers, ConfirmDeduct(w) PROVE Ledger!Next
  BY <1>3, <1>6, ConfirmIsHandOver DEF Ledger!Next, ConfirmDeduct, OrderOps
<1>7. ASSUME NEW w \in Workers, AdjustTotalStock(w) PROVE Ledger!Next
  BY <1>7, AdjustIsSetTotal DEF Ledger!Next
<1> QED
  BY <1>1, <1>2, <1>4, <1>5, <1>6, <1>7
     DEF Next, vars, Ledger!vars, Begin, BeginAdjust, Reject, Abort

(* LedgerSpec: while neither transactions of one order nor an adjustment and a transaction
   on its SKU overlap, the service implements the atomic ledger. *)
THEOREM LedgerImplemented == ~SameOrderOverlap /\ ~AdjustOverlap => (Spec => LedgerSpec)
<1> SUFFICES ASSUME ~SameOrderOverlap, ~AdjustOverlap PROVE Spec => LedgerSpec
  OBVIOUS
<1>1. Init => Ledger!Init
  BY DEF Init, Ledger!Init, NoRow, Ledger!NoRow
<1>2. Spec => []LedgerInv
  <2>1. Init => LedgerInv
    <3>1. Init => TypeOK
      BY DEF Init, TypeOK, NoRow, ReservationRow, TxState
    <3>2. Init => StockNonNegative /\ AdjustSane /\ BalanceInv
      BY DEF Init, StockNonNegative, AdjustSane, BalanceInv, Balanced, AdjustAlone,
             AdjustFresh, Idle
    <3>3. Init => WholeInv
      BY BasketsAssumption
         DEF Init, WholeInv, AllOrNothing, SnapWhole, NoRow, Idle, OrderOps
    <3> QED
      BY <3>1, <3>2, <3>3, BackedInit DEF LedgerInv, NonNegInv
  <2>2. LedgerInv /\ [Next]_vars => LedgerInv'
    <3> SUFFICES ASSUME LedgerInv, [Next]_vars PROVE LedgerInv'
      OBVIOUS
    <3>1. TypeOK' /\ StockNonNegative' /\ AdjustSane'
      BY TypeStep, NonNegStep DEF LedgerInv
    <3>2. BalanceInv' /\ WholeInv' /\ BackedInv'
      BY <3>1, BalanceStep, WholeStep, BackedStep DEF LedgerInv
    <3> QED
      BY <3>1, <3>2 DEF LedgerInv, NonNegInv
  <2> QED
    BY <2>1, <2>2, PTL DEF Spec
<1>3. LedgerInv /\ [Next]_vars => [Ledger!Next]_(Ledger!vars)
  BY LedgerStep
<1> QED
  BY <1>1, <1>2, <1>3, PTL DEF Spec, LedgerSpec, Ledger!Spec
==============================================================================
