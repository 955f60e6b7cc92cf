----------------------------- MODULE MCInventory -----------------------------
(* Small instances of Inventory: two SKUs and two orders, one of which wants
   both SKUs (and is also called with another quantity, as a mismatched retry),
   the other one competing for the first SKU. *)
EXTENDS Inventory, TLC

CONSTANTS s1, s2, o1, o2

MCSkus == {s1, s2}

MCOrders == {o1, o2}

MCBaskets == (o1 :> {(s1 :> 1) @@ (s2 :> 1), (s1 :> 2) @@ (s2 :> 1)})
          @@ (o2 :> {s1 :> 1})

WorkerSymmetry == Permutations(Workers)
==============================================================================
