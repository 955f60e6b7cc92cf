------------------------------- MODULE MCGateway -------------------------------
(***************************************************************************)
(* What happens at the gateway, and in the product service behind it, in   *)
(* small instances: the sessions, the rate limiter, the saga that creates  *)
(* a product, the product's cache, and updates of a product.  These parts  *)
(* share no state.  A behaviour is about one of them, `part`, and leaves   *)
(* the variables of the others alone; updates run on the variables of the  *)
(* catalogue, with requests of their own.                                  *)
(***************************************************************************)
EXTENDS Sessions, TLC

CONSTANTS
  LimitKeys, Goroutines,              \* of the rate limiter
  Cost, Burst, EntryTTL, CleanupInterval, MaxClock, MaxLag,
  TargetOnline, SagaFaults, SagaCrashIn, SagaRuns,    \* of the creation of a product
  ShopSkus, FirstSkus, ShopWriters, ShopFresh, ShopOffSale, ShopReaders, ShopReadKeys, ShopFaults,
  TurnSkus, FirstTurnSkus, TurnWriters, TurnFresh, TurnOffSale     \* of updates in turn

VARIABLES part

------------------------------------------------------------------------------
VARIABLES clock, entry, bucket, lastCleanup, limited, since, admitted, lastIn

Limiter == INSTANCE RateLimiter WITH Keys <- LimitKeys, Workers <- Goroutines, call <- limited

ASSUME LimiterAssumption == Limiter!RuleAssumption

limitVars == <<clock, entry, bucket, lastCleanup, limited, since, admitted, lastIn>>

------------------------------------------------------------------------------
VARIABLES product, stocked, branch, calls, recorded, outcome, run, runs, causes

\* In gateway.cfg: every call may be refused, lose its answer, or be late.
MCSagaFaults ==
  [op \in {"create", "init", "publish", "uncreate", "uninit", "unpublish"} |->
     {"refused", "lost", "late"}]

Saga == INSTANCE ProductCreateSaga WITH
  Faults <- SagaFaults, CrashIn <- SagaCrashIn, MaxRuns <- SagaRuns, stock <- stocked

ASSUME CreationAssumption == Saga!SagaAssumption

sagaVars == <<product, stocked, branch, calls, recorded, outcome, run, runs, causes>>

------------------------------------------------------------------------------
VARIABLES row, sku, cache, read, write, cause, gw, stock

Shop == INSTANCE Catalog WITH
  Skus <- ShopSkus, Initial <- FirstSkus, Writers <- ShopWriters, Fresh <- ShopFresh,
  OffSale <- ShopOffSale,
  Readers <- ShopReaders, ReadKeys <- ShopReadKeys, MayOverlap <- TRUE, Faults <- ShopFaults

\* In gateway.cfg: a writer that adds a SKU, one that adds none and may take s1 off sale.
MCFresh == [w1 |-> {"s2"}, w2 |-> {}]
MCOffSale == [w1 |-> {}, w2 |-> {"s1"}]

\* The writers as updates through the gateway, which overlap; calls may be late and
\* deletes fail too.
Race == INSTANCE ProductUpdate WITH
  Skus <- ShopSkus, Initial <- FirstSkus, Writers <- ShopWriters, Fresh <- ShopFresh,
  OffSale <- ShopOffSale,
  Readers <- ShopWriters, ReadKeys <- {"detail"},
  MayOverlap <- TRUE, Faults <- {"crash", "lost", "late", "redis_error"}

\* Updates one after another.  Calls fail but none is late.
Update == INSTANCE ProductUpdate WITH
  Skus <- TurnSkus, Initial <- FirstTurnSkus, Writers <- TurnWriters, Fresh <- TurnFresh,
  OffSale <- TurnOffSale,
  Readers <- TurnWriters, ReadKeys <- {"detail"},
  MayOverlap <- FALSE, Faults <- {"crash", "lost"}

\* In gateway.cfg: the first two of three updates add a SKU, one of them off sale, and the
\* second takes s1 off sale if it names it, the third s3.
MCTurnFresh == [u1 |-> {"s2"}, u2 |-> {"s3"}, u3 |-> {}]
MCTurnOffSale == [u1 |-> {"s2"}, u2 |-> {"s1"}, u3 |-> {"s3"}]

ASSUME ShopAssumption ==
  Shop!CatalogAssumption /\ Update!UpdateAssumption /\ Race!UpdateAssumption

shopVars == <<row, sku, cache, read, write, cause>>
updateVars == <<gw, stock>>

------------------------------------------------------------------------------
gatewayVars == <<part, vars, limitVars, sagaVars, shopVars, updateVars>>

GatewayInit ==
  /\ part \in {"sessions", "limiter", "saga", "catalog", "update", "race"}
  /\ Init /\ Limiter!Init /\ Saga!Init
  /\ part # "limiter" => since = 0
  /\ CASE part = "update" -> Update!UpdateInit
       [] part = "race"   -> Race!UpdateInit
       [] OTHER           -> Shop!Init /\ gw = << >> /\ stock = << >>

GatewayNext ==
  \/ part = "sessions" /\ Next /\ UNCHANGED <<part, limitVars, sagaVars, shopVars, updateVars>>
  \/ part = "limiter" /\ Limiter!Next /\ UNCHANGED <<part, vars, sagaVars, shopVars, updateVars>>
  \/ part = "saga" /\ Saga!Next /\ UNCHANGED <<part, vars, limitVars, shopVars, updateVars>>
  \/ part = "catalog" /\ Shop!Next /\ UNCHANGED <<part, vars, limitVars, sagaVars, updateVars>>
  \/ part = "update" /\ Update!UpdateNext /\ UNCHANGED <<part, vars, limitVars, sagaVars>>
  \/ part = "race" /\ Race!UpdateNext /\ UNCHANGED <<part, vars, limitVars, sagaVars>>

GatewaySpec == GatewayInit /\ [][GatewayNext]_gatewayVars

\* Tokens are interchangeable.
TokenSymmetry == Permutations(Tokens)

------------------------------------------------------------------------------
(* Properties.  LogoutLasts and ActsAsBook are those of Sessions. *)

(* Whatever fails and however often DTM runs the workflow again, what a decided saga
   leaves behind has a named cause: stock remains after a failure only if the answer of
   its initialisation did not arrive, a product only if its creation was overtaken by the
   compensation, and a success is complete unless the workflow was run again after a
   rollback had begun. *)
OutcomeExplained == part = "saga" => Saga!TypeOK /\ Saga!OutcomeExplained

(* An old cache entry has one of four reasons: a writer is about to delete it, a delete
   failed, a reader stored it after the row had changed, or it is a SKU an update took
   out. *)
StaleExplained == part = "catalog" => Shop!TypeOK /\ Shop!StaleExplained

(* When the requests are over, an update that succeeded last has also made good what
   earlier ones left undone: no SKU that it does not name has stock to sell, and on sale are
   the SKUs it gave that status, as long as updates come one after another; and, also when
   they overlap, a SKU on sale lacks stock only if another request took it out before, or the
   one that added it failed. *)
UpdateRepairs ==
  /\ part = "update" => Update!SuccessRepairs /\ Update!UpdateReplaces /\ Update!OnSaleHasStock
  /\ part = "race" => Race!OnSaleHasStock

(* In no window of time are more requests of a key let in than a full bucket and the time
   pay for, although requests overlap, clocks are read out of order and entries are
   forgotten; and whoever is turned away came less than one request's price after another
   was let in. *)
LimitKept ==
  /\ [](part = "limiter" => Limiter!TypeOK /\ Limiter!Allowance)
  /\ Limiter!RefusedForCause
==============================================================================
