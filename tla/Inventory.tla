------------------------------ MODULE Inventory ------------------------------
(***************************************************************************)
(* The inventory service: one stock row per SKU (inventory_stocks) and one *)
(* reservation row per business order and SKU (inventory_reservations).    *)
(* Reserve, Release, ConfirmDeduct and AdjustTotalStock each run in one    *)
(* MySQL transaction whose first statement is an ordinary SELECT.  Such a  *)
(* SELECT takes no lock: it fixes the snapshot the Go code then branches   *)
(* on, while every UPDATE reads the row as last committed, under an        *)
(* exclusive lock held to the commit.  A transaction is therefore two      *)
(* steps here: Begin takes the snapshot; the second one evaluates the      *)
(* conditions of the UPDATEs and INSERTs on the current rows, the branches *)
(* on the snapshot, and applies all of the writes (or Reject / Abort rolls *)
(* all of them back).                                                      *)
(*                                                                         *)
(* The row's version column is written but never read, so it is left out.  *)
(***************************************************************************)
EXTENDS Integers, FiniteSets

CONSTANTS
  Skus,             \* SKU ids
  Orders,           \* business orders (biz_type, biz_id)
  Workers,          \* transactions that may be open at the same time
  Baskets,          \* Baskets[o]: the item lists callers may send for order o
  MaxTotal,         \* bound on the totals that Init and Adjust write
  SameOrderOverlap, \* may two transactions of one order be open together?
  AdjustOverlap     \* may an adjustment overlap a transaction on its SKU?

(* An item list maps some SKUs to positive quantities (validateReservationItems
   and parseReservationItems refuse anything else). *)
ASSUME BasketsAssumption ==
  \A o \in Orders : \A b \in Baskets[o] :
    /\ DOMAIN b \subseteq Skus
    /\ DOMAIN b # {}
    /\ b \in [DOMAIN b -> Nat \ {0}]

ASSUME BoundsAssumption ==
  /\ MaxTotal \in Nat
  /\ SameOrderOverlap \in BOOLEAN
  /\ AdjustOverlap \in BOOLEAN

VARIABLES
  rowStatus,  \* inventory_stocks.status; "absent" when there is no row
  total,      \* inventory_stocks.total_stock
  reserved,   \* inventory_stocks.reserved_stock
  available,  \* inventory_stocks.available_stock
  resv,       \* resv[o][s]: the reservation row of order o and SKU s
  tx          \* tx[w]: the transaction worker w has open

stockVars == <<rowStatus, total, reserved, available>>
vars == <<rowStatus, total, reserved, available, resv, tx>>

NoRow == [status |-> "none", qty |-> 0]
Idle  == [op |-> "idle"]

ReservationRow == [status : {"none", "reserved", "released", "confirmed"}, qty : Nat]

------------------------------------------------------------------------------
(* What a transaction's snapshot says of its item list. *)

Items(t) == DOMAIN t.basket
Missing(t) == {s \in Items(t) : t.snap[s].status = "none"}
\* Mutant: a row that already gave its stock back is taken for a reserved one.
HeldOrReleased(t) == {s \in Items(t) : t.snap[s].status \in {"reserved", "released"}}

Held(t) == {s \in Items(t) : t.snap[s].status = "reserved"}

\* No item asks for another quantity than the row the snapshot shows.
SameQuantities(t) ==
  \A s \in Items(t) \ Missing(t) : t.snap[s].qty = t.basket[s]

\* Mutant: no unique key, or an upsert in place of the INSERT.
InsertableAlways(t) == TRUE

\* The unique key (biz_type, biz_id, sku_id) lets the missing rows be inserted.
Insertable(t) == \A s \in Missing(t) : resv[t.order][s] = NoRow

\* Mutant: UPDATE without AND status = active.
CanReserveFrozen(t) ==
  /\ SameQuantities(t)
  /\ Items(t) = Missing(t) \cup Held(t)
  /\ \A s \in Missing(t) : available[s] >= t.basket[s]
  /\ Insertable(t)

\* Mutant: UPDATE without AND reserved_stock >= ?.
CanReleaseUnchecked(t) ==
  /\ SameQuantities(t)
  /\ \A s \in Items(t) : t.snap[s].status # "confirmed"
  /\ Insertable(t)

(* The item-list loops of the three operations: each is TRUE when no item makes
   the operation return an error. *)
CanReserve(t) ==
  /\ SameQuantities(t)
  /\ Items(t) = Missing(t) \cup Held(t)
  /\ \A s \in Missing(t) :
       /\ rowStatus[s] = "active"
       /\ available[s] >= t.basket[s]
  /\ Insertable(t)

CanRelease(t) ==
  /\ SameQuantities(t)
  /\ \A s \in Items(t) : t.snap[s].status # "confirmed"
  /\ \A s \in Held(t) : reserved[s] >= t.basket[s]
  /\ Insertable(t)

CanConfirm(t) ==
  /\ Missing(t) = {}
  /\ SameQuantities(t)
  /\ \A s \in Items(t) : t.snap[s].status # "released"
  /\ \A s \in Held(t) : /\ reserved[s] >= t.basket[s]
                        /\ total[s] >= t.basket[s]

CanCommit(t) ==
  CASE t.op = "reserve" -> CanReserve(t)
    [] t.op = "release" -> CanRelease(t)
    [] t.op = "confirm" -> CanConfirm(t)
    [] OTHER            -> TRUE

------------------------------------------------------------------------------
(* Counter and row updates over the SKUs in S. *)

Plus(f, b, S)  == [s \in Skus |-> IF s \in S THEN f[s] + b[s] ELSE f[s]]
Minus(f, b, S) == [s \in Skus |-> IF s \in S THEN f[s] - b[s] ELSE f[s]]

\* Mutant: a released row is written as a negative booking.
WriteRowsSigned(o, S, st, b) ==
  [resv EXCEPT ![o] = [s \in Skus |->
     IF s \in S THEN [status |-> st, qty |-> IF st = "released" THEN -b[s] ELSE b[s]]
     ELSE resv[o][s]]]

\* INSERT or UPDATE ... WHERE id = ?: the row's current status is not looked at.
WriteRows(o, S, st, b) ==
  [resv EXCEPT ![o] =
     [s \in Skus |-> IF s \in S THEN [status |-> st, qty |-> b[s]] ELSE resv[o][s]]]

Finish(w) == tx' = [tx EXCEPT ![w] = Idle]

OrderOps == {"reserve", "release", "confirm"}

Touches(t, s) ==
  \/ t.op \in OrderOps /\ s \in Items(t)
  \/ t.op = "adjust" /\ s = t.sku

\* What the caller is allowed to overlap, by the two overlap constants.
MayOverlapOrder(o, b) ==
  \A w \in Workers :
    /\ tx[w].op \in OrderOps => SameOrderOverlap \/ tx[w].order # o
    /\ tx[w].op = "adjust" => AdjustOverlap \/ tx[w].sku \notin DOMAIN b

MayOverlapAdjust(s) ==
  \A w \in Workers : AdjustOverlap \/ ~Touches(tx[w], s)

------------------------------------------------------------------------------
Init ==
  /\ rowStatus = [s \in Skus |-> "absent"]
  /\ total     = [s \in Skus |-> 0]
  /\ reserved  = [s \in Skus |-> 0]
  /\ available = [s \in Skus |-> 0]
  /\ resv      = [o \in Orders |-> [s \in Skus |-> NoRow]]
  /\ tx        = [w \in Workers |-> Idle]

\* InitSkuStocks / CreateBatch: all rows are inserted, or none on a duplicate.
InitSkuStocks(S, n) ==
  /\ S # {}
  /\ \A s \in S : rowStatus[s] = "absent"
  /\ rowStatus' = [s \in Skus |-> IF s \in S THEN "active" ELSE rowStatus[s]]
  /\ total'     = [s \in Skus |-> IF s \in S THEN n ELSE total[s]]
  /\ reserved'  = [s \in Skus |-> IF s \in S THEN 0 ELSE reserved[s]]
  /\ available' = [s \in Skus |-> IF s \in S THEN n ELSE available[s]]
  /\ UNCHANGED <<resv, tx>>

\* FreezeSkuStocks / FreezeBySKUIDs: the rows that exist stop selling.
FreezeSkuStocks(S) ==
  /\ \E s \in S : rowStatus[s] # "absent"
  /\ rowStatus' = [s \in Skus |->
       IF s \in S /\ rowStatus[s] # "absent" THEN "frozen" ELSE rowStatus[s]]
  /\ UNCHANGED <<total, reserved, available, resv, tx>>

\* loadReservations: the rows of the items, as last committed.
Snapshot(o, b) == [s \in Skus |-> IF s \in DOMAIN b THEN resv[o][s] ELSE NoRow]

\* Reserve, Release or ConfirmDeduct opens its transaction.
Begin(w, op, o, b) ==
  /\ tx[w] = Idle
  /\ MayOverlapOrder(o, b)
  /\ tx' = [tx EXCEPT ![w] =
              [op |-> op, order |-> o, basket |-> b, snap |-> Snapshot(o, b)]]
  /\ UNCHANGED <<rowStatus, total, reserved, available, resv>>

\* Mutant: items that cannot be locked are skipped, the others are committed.
ReserveWhatFits(w) ==
  LET t == tx[w]
      fits == {s \in Missing(t) : rowStatus[s] = "active" /\ available[s] >= t.basket[s]}
  IN
  /\ t.op = "reserve"
  /\ Insertable(t)
  /\ reserved'  = Plus(reserved, t.basket, fits)
  /\ available' = Minus(available, t.basket, fits)
  /\ resv'      = WriteRows(t.order, fits, "reserved", t.basket)
  /\ Finish(w)
  /\ UNCHANGED <<rowStatus, total>>

\* Reserve: the missing rows are reserved, those reserved before are skipped.
Reserve(w) ==
  LET t == tx[w] IN
  /\ t.op = "reserve"
  /\ CanReserve(t)
  /\ reserved'  = Plus(reserved, t.basket, Missing(t))
  /\ available' = Minus(available, t.basket, Missing(t))
  /\ resv'      = WriteRows(t.order, Missing(t), "reserved", t.basket)
  /\ Finish(w)
  /\ UNCHANGED <<rowStatus, total>>

\* Mutant: a placeholder also returns stock for sale.
ReleaseMissingToo(w) ==
  LET t == tx[w] IN
  /\ t.op = "release"
  /\ CanRelease(t)
  /\ reserved'  = Minus(reserved, t.basket, Held(t))
  /\ available' = Plus(available, t.basket, Held(t) \cup Missing(t))
  /\ resv'      = WriteRows(t.order, Held(t) \cup Missing(t), "released", t.basket)
  /\ Finish(w)
  /\ UNCHANGED <<rowStatus, total>>

\* Release: reserved rows give their stock back, missing rows get a placeholder.
Release(w) ==
  LET t == tx[w] IN
  /\ t.op = "release"
  /\ CanRelease(t)
  /\ reserved'  = Minus(reserved, t.basket, Held(t))
  /\ available' = Plus(available, t.basket, Held(t))
  /\ resv'      = WriteRows(t.order, Held(t) \cup Missing(t), "released", t.basket)
  /\ Finish(w)
  /\ UNCHANGED <<rowStatus, total>>

\* Mutant: total_stock is forgotten.
ConfirmDeductKeepsTotal(w) ==
  LET t == tx[w] IN
  /\ t.op = "confirm"
  /\ CanConfirm(t)
  /\ reserved' = Minus(reserved, t.basket, Held(t))
  /\ resv'     = WriteRows(t.order, Held(t), "confirmed", t.basket)
  /\ Finish(w)
  /\ UNCHANGED <<rowStatus, total, available>>

\* ConfirmDeduct: reserved stock leaves the warehouse.
ConfirmDeduct(w) ==
  LET t == tx[w] IN
  /\ t.op = "confirm"
  /\ CanConfirm(t)
  /\ total'    = Minus(total, t.basket, Held(t))
  /\ reserved' = Minus(reserved, t.basket, Held(t))
  /\ resv'     = WriteRows(t.order, Held(t), "confirmed", t.basket)
  /\ Finish(w)
  /\ UNCHANGED <<rowStatus, available>>

\* AdjustTotalStock reads the row and refuses a target below its reserved_stock.
BeginAdjust(w, s, n) ==
  /\ tx[w] = Idle
  /\ MayOverlapAdjust(s)
  /\ rowStatus[s] # "absent"
  /\ n >= reserved[s]
  /\ tx' = [tx EXCEPT ![w] =
              [op |-> "adjust", sku |-> s, target |-> n, seen |-> reserved[s]]]
  /\ UNCHANGED <<rowStatus, total, reserved, available, resv>>

\* ... and writes total and available from what it read (WHERE id = ?).
AdjustTotalStock(w) ==
  LET t == tx[w] IN
  /\ t.op = "adjust"
  /\ total'     = [total EXCEPT ![t.sku] = t.target]
  /\ available' = [available EXCEPT ![t.sku] = t.target - t.seen]
  /\ Finish(w)
  /\ UNCHANGED <<rowStatus, reserved, resv>>

\* An item made the operation return an error: everything is rolled back.
Reject(w) ==
  /\ tx[w] # Idle
  /\ ~CanCommit(tx[w])
  /\ Finish(w)
  /\ UNCHANGED <<rowStatus, total, reserved, available, resv>>

\* Query timeout, lock wait timeout, deadlock victim, lost connection, crash.
Abort(w) ==
  /\ tx[w] # Idle
  /\ Finish(w)
  /\ UNCHANGED <<rowStatus, total, reserved, available, resv>>

Next ==
  \/ \E S \in SUBSET Skus, n \in 0 .. MaxTotal : InitSkuStocks(S, n)
  \/ \E S \in SUBSET Skus : FreezeSkuStocks(S)
  \/ \E w \in Workers, op \in OrderOps, o \in Orders : \E b \in Baskets[o] : Begin(w, op, o, b)
  \/ \E w \in Workers : Reserve(w)
  \/ \E w \in Workers : Release(w)
  \/ \E w \in Workers : ConfirmDeduct(w)
  \/ \E w \in Workers, s \in Skus, n \in 0 .. MaxTotal : BeginAdjust(w, s, n)
  \/ \E w \in Workers : AdjustTotalStock(w)
  \/ \E w \in Workers : Reject(w)
  \/ \E w \in Workers : Abort(w)

Spec == Init /\ [][Next]_vars

------------------------------------------------------------------------------
(* Properties. *)

\* Every variable keeps its type; the counters may be any integer.
TxState ==
  {Idle}
  \cup [op : OrderOps, order : Orders, basket : UNION {Baskets[o] : o \in Orders},
        snap : [Skus -> ReservationRow]]
  \cup [op : {"adjust"}, sku : Skus, target : 0 .. MaxTotal, seen : Int]

TypeOK ==
  /\ rowStatus \in [Skus -> {"absent", "active", "frozen"}]
  /\ total \in [Skus -> Int]
  /\ reserved \in [Skus -> Int]
  /\ available \in [Skus -> Int]
  /\ resv \in [Orders -> [Skus -> ReservationRow]]
  /\ tx \in [Workers -> TxState]

(* No stock counter is ever negative, whatever overlaps: the WHERE clauses of the
   UPDATEs and AdjustTotalStock's check against the reserved_stock it read are
   enough, although the branches were taken on a stale snapshot. *)
StockNonNegative ==
  \A s \in Skus : total[s] >= 0 /\ reserved[s] >= 0 /\ available[s] >= 0

(* available_stock = total_stock - reserved_stock, the relation the design states
   for every row.  It holds as long as no adjustment overlaps a reservation
   operation (or another adjustment) on its SKU. *)
Balanced == \A s \in Skus : available[s] = total[s] - reserved[s]

\* The units of SKU s that reservation rows say are being kept for orders.
HeldUnits(s) ==
  UNION {{o} \X (1 .. resv[o][s].qty) : o \in {p \in Orders : resv[p][s].status = "reserved"}}

(* reserved_stock is exactly what the reserved rows add up to: a release or a
   confirmation moves only stock that its own order locked.  It holds as long as
   the transactions of one order do not overlap. *)
ReservedBacked == \A s \in Skus : reserved[s] = Cardinality(HeldUnits(s))

(* A multi-SKU order is never half reserved, half released or half confirmed:
   the transaction applies all of its items or none, and a retry of a later
   operation finds all rows in the same state.  Whatever overlaps. *)
AllOrNothing ==
  \A o \in Orders : \A b \in Baskets[o] :
    (\A c \in Baskets[o] : DOMAIN c = DOMAIN b)
      => \A r, s \in DOMAIN b : resv[o][r].status = resv[o][s].status

Drift(s) == total[s] - reserved[s] - available[s]

(* Only an adjustment that committed over a reserved_stock it had not seen can put
   the three counters of a row out of balance; reservation traffic never does,
   however its transactions interleave. *)
OnlyStaleAdjustDrifts ==
  [][\A s \in Skus : Drift(s)' \notin {0, Drift(s)} =>
       \E w \in Workers :
         /\ tx[w].op = "adjust"
         /\ tx[w].sku = s
         /\ tx[w].seen # reserved[s]
         /\ tx'[w] = Idle]_vars

(* Anti-hanging: once a reservation row exists and is no longer reserved (it was
   released, confirmed, or written as a placeholder by a release that came first)
   no late or retried Reserve locks stock for it again.  Whatever overlaps. *)
NeverReservedAgain ==
  [][\A o \in Orders, s \in Skus :
       resv[o][s].status \in {"released", "confirmed"}
         => resv'[o][s].status \in {"released", "confirmed"}]_vars

Ledger == INSTANCE StockLedger

(* The service implements the atomic ledger of StockLedger, in which operations have no
   inside and the stock for sale is computed from the rows: each commit is one step of it
   and nothing else is.  It takes that neither transactions of one order nor an adjustment
   and a transaction on its SKU overlap. *)
LedgerSpec == Ledger!Spec
==============================================================================
