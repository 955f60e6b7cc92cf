------------------------------- MODULE OrderBook -------------------------------
(***************************************************************************)
(* What the order service promises to those who call it: an order that is  *)
(* reserved is paid once, by one bill, or ended once; a paid order keeps   *)
(* the bill it was paid with.  Module OrderService implements it under the *)
(* conditions its BookSpec names, and module Payment calls it.             *)
(***************************************************************************)
CONSTANTS
  Orders,
  Bills,    \* what an order can be paid with: a payment and its trade number
  NoBill

VARIABLE book

Place(o) ==
  /\ book[o].status = "none"
  /\ book' = [book EXCEPT ![o].status = "reserved"]

Pay(o, b) ==
  /\ book[o].status = "reserved"
  /\ book' = [book EXCEPT ![o] = [status |-> "paid", payment |-> b]]

(* Cancelled by its user or closed by the expiry sweep. *)
End(o) ==
  /\ book[o].status = "reserved"
  /\ book' = [book EXCEPT ![o].status = "ended"]

Entry == [status : {"none", "reserved", "paid", "ended"}, payment : Bills \cup {NoBill}]

Init == book \in [Orders -> [status : {"none", "reserved"}, payment : {NoBill}]]

Next == \E o \in Orders : Place(o) \/ End(o) \/ \E b \in Bills : Pay(o, b)

Spec == Init /\ [][Next]_book
==============================================================================
