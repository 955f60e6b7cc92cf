----------------------------- MODULE StockLedger -----------------------------
(***************************************************************************)
(* What the inventory service promises its callers: a ledger in which each *)
(* operation on an order is one atomic step, the stock still for sale is   *)
(* the total minus what reserved rows hold, and a row is reserved at most  *)
(* once and then either released or confirmed, for good.  There are no     *)
(* transactions, no snapshots and no counters to keep in step.             *)
(***************************************************************************)
EXTENDS Integers, FiniteSets

CONSTANTS Skus, Orders, Baskets, MaxTotal

VARIABLES rowStatus, total, resv

vars == <<rowStatus, total, resv>>

NoRow == [status |-> "none", qty |-> 0]

RowsIn(o, b, st) == {s \in DOMAIN b : resv[o][s].status = st}

Agrees(o, b) == \A s \in DOMAIN b : resv[o][s] # NoRow => resv[o][s].qty = b[s]

HeldUnits(s) ==
  UNION {{o} \X (1 .. resv[o][s].qty) : o \in {p \in Orders : resv[p][s].status = "reserved"}}

ForSale(s) == total[s] - Cardinality(HeldUnits(s))

Rewrite(o, S, st, b) ==
  resv' = [resv EXCEPT ![o] =
    [s \in Skus |-> IF s \in S THEN [status |-> st, qty |-> b[s]] ELSE resv[o][s]]]

Init ==
  /\ rowStatus = [s \in Skus |-> "absent"]
  /\ total = [s \in Skus |-> 0]
  /\ resv = [o \in Orders |-> [s \in Skus |-> NoRow]]

PutOnSale(S, n) ==
  /\ \A s \in S : rowStatus[s] = "absent"
  /\ rowStatus' = [s \in Skus |-> IF s \in S THEN "active" ELSE rowStatus[s]]
  /\ total' = [s \in Skus |-> IF s \in S THEN n ELSE total[s]]
  /\ UNCHANGED resv

Freeze(S) ==
  /\ rowStatus' = [s \in Skus |->
       IF s \in S /\ rowStatus[s] # "absent" THEN "frozen" ELSE rowStatus[s]]
  /\ UNCHANGED <<total, resv>>

\* Promise a whole basket, out of what is for sale.
Promise(o, b) ==
  LET new == RowsIn(o, b, "none") IN
  /\ Agrees(o, b)
  /\ DOMAIN b = new \cup RowsIn(o, b, "reserved")
  /\ \A s \in new : rowStatus[s] = "active" /\ ForSale(s) >= b[s]
  /\ Rewrite(o, new, "reserved", b)
  /\ UNCHANGED <<rowStatus, total>>

\* Give a basket back, or note that it must never be promised.
GiveBack(o, b) ==
  /\ Agrees(o, b)
  /\ RowsIn(o, b, "confirmed") = {}
  /\ Rewrite(o, DOMAIN b, "released", b)
  /\ UNCHANGED <<rowStatus, total>>

\* Hand a promised basket over.
HandOver(o, b) ==
  LET held == RowsIn(o, b, "reserved") IN
  /\ Agrees(o, b)
  /\ DOMAIN b = held \cup RowsIn(o, b, "confirmed")
  /\ total' = [s \in Skus |-> IF s \in held THEN total[s] - b[s] ELSE total[s]]
  /\ Rewrite(o, held, "confirmed", b)
  /\ UNCHANGED rowStatus

\* Restock or write off, but never below what is promised.
SetTotal(s, n) ==
  /\ rowStatus[s] # "absent"
  /\ n >= Cardinality(HeldUnits(s))
  /\ total' = [total EXCEPT ![s] = n]
  /\ UNCHANGED <<rowStatus, resv>>

Next ==
  \/ \E S \in SUBSET Skus, n \in 0 .. MaxTotal : PutOnSale(S, n)
  \/ \E S \in SUBSET Skus : Freeze(S)
  \/ \E o \in Orders : \E b \in Baskets[o] : Promise(o, b) \/ GiveBack(o, b) \/ HandOver(o, b)
  \/ \E s \in Skus, n \in 0 .. MaxTotal : SetTotal(s, n)

Spec == Init /\ [][Next]_vars
==============================================================================
