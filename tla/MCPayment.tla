------------------------------- MODULE MCPayment -------------------------------
(* Small instances of Payment: one order, payment p0 that is there from the start and p1,
   which is created. *)
EXTENDS Payment, TLC

CONSTANTS o1, p0, p1, create1, confirm0, confirm0Again, confirm0Anew, confirm0Other, close0

MCOrderOf == [p \in {p0, p1} |-> o1]

R(k, p, key, t) == [kind |-> k, order |-> o1, payment |-> p, key |-> key, trade |-> t]

(* confirm0Again repeats confirm0 under its request_id, confirm0Anew under another one;
   confirm0Other confirms p0 with another trade number. *)
MCReq ==
     create1       :> R("create", p1, "k1", NoTrade)
  @@ confirm0      :> R("confirm", p0, "k1", "t1")
  @@ confirm0Again :> R("confirm", p0, "k1", "t1")
  @@ confirm0Anew  :> R("confirm", p0, "k2", "t1")
  @@ confirm0Other :> R("confirm", p0, "k2", "t2")
  @@ close0        :> R("close", p0, "p0", NoTrade)
==============================================================================
