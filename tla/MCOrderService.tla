---------------------------- MODULE MCOrderService ----------------------------
(* Small instances of OrderService: one SKU, orders of one unit each.  In order_create
   o2 competes for the SKU with o1; in order_paid_cancelled o3, there from the start, does. *)
EXTENDS OrderService, TLC

CONSTANTS s1, o1, o2, o3, create1, create2, cancel, pay, payAgain, payOther, close

MCSkus == {s1}
MCOrders == {o1, o2, o3}
MCBasket == [o \in MCOrders |-> s1 :> 1]
MCStock == s1 :> 2

(* create2 repeats create1 under its request_id; payAgain repeats pay; payOther
   confirms another payment of the order. *)
MCReq ==
     create1  :> [kind |-> "create", order |-> o1, key |-> "k", payment |-> NoPayment]
  @@ create2  :> [kind |-> "create", order |-> o2, key |-> "k", payment |-> NoPayment]
  @@ cancel   :> [kind |-> "cancel", order |-> o1, key |-> "k", payment |-> NoPayment]
  @@ pay      :> [kind |-> "pay", order |-> o1, key |-> "p", payment |-> "p1"]
  @@ payAgain :> [kind |-> "pay", order |-> o1, key |-> "p", payment |-> "p1"]
  @@ payOther :> [kind |-> "pay", order |-> o1, key |-> "q", payment |-> "p2"]
  @@ close    :> [kind |-> "close"]
==============================================================================
