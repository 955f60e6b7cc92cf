-------------------------------- MODULE CartBook --------------------------------
(* What a cart promises: it holds a quantity of each SKU, and every request changes it in one
   step, as it asked to, or not at all.  What is answered as done was done; what is answered
   with an error may have been. *)
EXTENDS Integers

CONSTANTS Skus, Requests, Quantities, None

VARIABLES
  quantity,   \* quantity[k]: how many of SKU k, 0 for none
  served      \* served[r]: what request r has done

cartBookVars == <<quantity, served>>

CartBookInit ==
  /\ quantity = [k \in Skus |-> 0]
  /\ served = [r \in Requests |-> None]

Serve(r, kind, k, q) ==
  /\ served[r] = None
  /\ served' = [served EXCEPT ![r] = <<kind, k, q>>]

Put(r, k, q) ==
  Serve(r, "add", k, q) /\ quantity' = [quantity EXCEPT ![k] = @ + q]

Change(r, k, q) ==
  Serve(r, "set", k, q) /\ quantity[k] > 0 /\ quantity' = [quantity EXCEPT ![k] = q]

TakeOut(r, k) ==
  Serve(r, "remove", k, 0) /\ quantity[k] > 0 /\ quantity' = [quantity EXCEPT ![k] = 0]

Empty(r) ==
  Serve(r, "clear", None, 0) /\ quantity' = [k \in Skus |-> 0]

CartBookNext ==
  \E r \in Requests :
    \/ \E k \in Skus : TakeOut(r, k) \/ \E q \in Quantities : Put(r, k, q) \/ Change(r, k, q)
    \/ Empty(r)

CartBookSpec == CartBookInit /\ [][CartBookNext]_cartBookVars
==============================================================================
