------------------------------ MODULE UpdateProofs ------------------------------
(***************************************************************************)
(* Theorems about ProductUpdate: about the stock of a SKU on sale whatever *)
(* overlaps and fails, and about what an update makes good as long as      *)
(* updates come one after another, for any SKUs and any number of updates. *)
(***************************************************************************)
EXTENDS ProductUpdate, TLAPS

GatewayPcs == {"new", "detail", "update", "updating", "init", "init late", "freeze",
               "freeze late", "done", "failed"}

WriteState == [pc : {"new", "commit", "detail", "skus", "lists", "ended"},
               keep : SUBSET Skus, found : SUBSET Skus]
GatewayState == [pc : GatewayPcs, keep : SUBSET Skus, gone : SUBSET Skus]

Views == {None} \cup SkuRow \cup ProductView
ReadState == [pc : {"idle", "lookup", "row", "skus", "store"}, key : Keys,
              row : Writers \cup {None}, got : Views]

CacheTypes ==
  /\ row \in Writers \cup {None}
  /\ cache \in [Keys -> Views]
  /\ read \in [Readers -> ReadState]

(* The types that matter here. *)
UpdateTypes ==
  /\ gw \in [Writers -> GatewayState]
  /\ stock \in [Skus -> {"none", "active", "frozen"}]
  /\ sku \in [Skus -> SkuRow]
  /\ write \in [Writers -> WriteState]
  /\ CacheTypes

Exists(s) == sku[s].status # "none"
Active(s) == stock[s] = "active"

------------------------------------------------------------------------------
(* Updates that overlap. *)

\* Why a SKU that is there may have no stock to sell, while requests run.
Excused(s) ==
  \E u \in Writers :
    \/ s \in gw[u].gone \ gw[u].keep
    \/ s \in Fresh[u] /\ gw[u].pc \in {"updating", "init", "init late", "failed"}

(* The inductive invariant behind OnSaleHasStock.  Only a call that the product service
   has not finished commits, and only SKUs that are there, or that it adds. *)
StockInv ==
  /\ UpdateTypes
  /\ \A u \in Writers :
       /\ gw[u].pc \in {"new", "detail"} => gw[u].gone = {}
       /\ gw[u].gone \cap gw[u].keep = {}
       /\ write[u].pc = "commit" =>
            /\ gw[u].pc \in {"updating", "failed"}
            /\ \A s \in write[u].found : Exists(s)
  /\ \A s \in Skus : Exists(s) => Active(s) \/ Excused(s)

------------------------------------------------------------------------------
(* Updates in turn. *)

InTurn == ~MayOverlap /\ Faults \cap {"late", "redis_error"} = {}

\* A detail from which no SKU with stock to sell is missing.
Knows(detail) == \A s \in Skus : Active(s) => detail.skus[s].status # "none"

\* Update u has its turn in the product service, which looks for the SKUs while nobody writes.
HasTurn(u) ==
  /\ gw[u].pc \notin {"init late", "freeze late"}
  /\ write[u].pc \notin {"new", "ended"} => gw[u].pc = "updating"
  /\ gw[u].pc \in {"updating", "init", "freeze"} => write[u].keep = gw[u].keep
  /\ write[u].pc = "commit" => write[u].found = {s \in Skus : Exists(s)}
  /\ read[u].pc # "idle" => gw[u].pc = "detail" /\ read[u].key = "detail"

\* Update u is through in the product service, and what it names is there.
Committed(u) ==
  \/ gw[u].pc = "updating" /\ write[u].pc \in {"detail", "skus", "lists"}
  \/ gw[u].pc \in {"init", "freeze"}

CommitsLast(u) ==
  Committed(u) => row = u /\ \A s \in gw[u].keep \cup Fresh[u] : Exists(s)

\* The detail that u reads knows every SKU with stock, and when u adds stock none is cached.
ReadsAll(u) ==
  /\ read[u].pc = "store" => Knows(read[u].got)
  /\ gw[u].pc = "init" \/ (gw[u].pc = "updating" /\ write[u].pc \in {"skus", "lists"})
       => cache["detail"] = None

\* So what u keeps, adds and found gone is all that has stock.
FindsAll(u) ==
  \A s \in Skus : Active(s) =>
    /\ gw[u].pc \in {"update", "updating", "init"} => s \in gw[u].gone \cup gw[u].keep
    /\ gw[u].pc = "freeze" => s \in gw[u].gone \cup gw[u].keep \cup Fresh[u]

Own(u) == HasTurn(u) /\ CommitsLast(u) /\ ReadsAll(u) /\ FindsAll(u)

LastReplaces ==
  row # None =>
    /\ row \in Writers /\ write[row].pc # "new"
    /\ \A s \in Skus : sku[s].status = "on" <=> s \in Wanted(row) \ OffSale[row]

LastRepairs ==
  row # None /\ gw[row].pc = "done" => OthersFrozen

Shared ==
  /\ LastReplaces /\ LastRepairs
  /\ cache["detail"] # None => Knows(cache["detail"])
  /\ \A s \in Skus : Active(s) => Exists(s)

(* The inductive invariant behind SuccessRepairs and UpdateReplaces. *)
TurnInv ==
  /\ UpdateTypes
  /\ \A u, v \in Running : u = v
  /\ \A u \in Writers : Own(u)
  /\ Shared

------------------------------------------------------------------------------
(* Types. *)

LEMMA TypesStart ==
  ASSUME UpdateAssumption, UpdateInit
  PROVE  UpdateTypes
<1>1. sku \in [Skus -> SkuRow]
  BY DEF UpdateInit, Init, SkuRow, NoSku
<1>2. write \in [Writers -> WriteState]
  BY DEF UpdateInit, Init, WriteState
<1>3. CacheTypes
  BY DEF UpdateInit, Init, CacheTypes, Views, ReadState, NotReading, Keys
<1> QED
  BY <1>1, <1>2, <1>3 DEF UpdateInit, UpdateTypes, GatewayState, GatewayPcs

LEMMA CommitTyped ==
  ASSUME UpdateAssumption, UpdateTypes, NEW u \in Writers, CommitUpdate(u)
  PROVE  sku' \in [Skus -> SkuRow]
<1>1. \A s \in Skus : sku[s] \in SkuRow
  BY DEF UpdateTypes
<1>2. \A s \in Skus : [sku[s] EXCEPT !.status = "off"] \in SkuRow
  BY <1>1 DEF SkuRow, NoSku
<1>3. \A s \in Skus : [status |-> StatusOf(u, s), by |-> u] \in SkuRow
  BY DEF SkuRow, StatusOf
<1>4. CASE write[u].keep \subseteq write[u].found
  <2>1. sku' = [s \in Skus |->
          CASE s \in Wanted(u) -> [status |-> StatusOf(u, s), by |-> u]
            [] s \in Removed(u) -> [sku[s] EXCEPT !.status = "off"]
            [] OTHER -> sku[s]]
    BY <1>4 DEF CommitUpdate
  <2>2. \A s \in Skus : sku'[s] \in SkuRow
    BY <1>1, <1>2, <1>3, <2>1
  <2> QED
    BY <2>1, <2>2
<1> QED
  BY <1>4 DEF CommitUpdate, UpdateTypes

\* Where a writer, or a request of the gateway, goes when it changes its place alone.
LEMMA WriteGoes ==
  ASSUME UpdateTypes, NEW u \in Writers,
         NEW pc \in {"new", "commit", "detail", "skus", "lists", "ended"},
         write' = [write EXCEPT ![u].pc = pc]
  PROVE  write' \in [Writers -> WriteState]
<1>1. write \in [Writers -> WriteState]
  BY DEF UpdateTypes, WriteState
<1>2. [write[u] EXCEPT !.pc = pc] \in WriteState
  BY <1>1 DEF WriteState
<1> QED
  BY <1>1, <1>2

LEMMA GatewayGoes ==
  ASSUME UpdateTypes, NEW u \in Writers, NEW pc \in GatewayPcs,
         gw' = [gw EXCEPT ![u].pc = pc]
  PROVE  gw' \in [Writers -> GatewayState]
<1>1. gw \in [Writers -> GatewayState]
  BY DEF UpdateTypes
<1>2. [gw[u] EXCEPT !.pc = pc] \in GatewayState
  BY <1>1 DEF GatewayState
<1> QED
  BY <1>1, <1>2

LEMMA WritesTyped ==
  ASSUME UpdateAssumption, UpdateTypes, NEW u \in Writers,
         WriteStep(u) \/ WriterCrash(u) \/ \E keep \in SUBSET Skus : BeginUpdate(u, keep)
  PROVE  write' \in [Writers -> WriteState]
<1>1. CASE CommitUpdate(u)
  <2>1. PICK pc \in {"detail", "ended"} : write' = [write EXCEPT ![u].pc = pc]
    BY <1>1 DEF CommitUpdate
  <2> QED
    BY <2>1, WriteGoes
<1>2. CASE Drop(u)
  <2>1. PICK pc \in {"skus", "lists", "ended"} : write' = [write EXCEPT ![u].pc = pc]
    BY <1>2 DEF Drop, After
  <2> QED
    BY <2>1, WriteGoes
<1>3. CASE WriterCrash(u)
  BY <1>3, WriteGoes DEF WriterCrash
<1>4. ASSUME NEW keep \in SUBSET Skus, BeginUpdate(u, keep)
      PROVE  write' \in [Writers -> WriteState]
  BY <1>4 DEF BeginUpdate, UpdateTypes, WriteState
<1> QED
  BY <1>1, <1>2, <1>3, <1>4 DEF WriteStep

LEMMA ReadsTyped ==
  ASSUME UpdateTypes, NEW r \in Readers,
         ReadStep(r) \/ \E k \in Keys : StartRead(r, k)
  PROVE  CacheTypes' /\ UNCHANGED <<sku, write>>
<1> USE DEF UpdateTypes, CacheTypes
<1>1. "detail" \in Keys /\ None \in Views /\ NotReading \in ReadState
  BY DEF Keys, Views, ReadState, NotReading
<1>2. CASE Lookup(r)
  <2>1. [read[r] EXCEPT !.pc = "skus"] \in ReadState /\ [read[r] EXCEPT !.pc = "row"] \in ReadState
    BY DEF ReadState
  <2>2. read' \in {[read EXCEPT ![r] = NotReading],
                   [read EXCEPT ![r] = [read[r] EXCEPT !.pc = "skus"]],
                   [read EXCEPT ![r] = [read[r] EXCEPT !.pc = "row"]]}
    BY <1>2 DEF Lookup
  <2>3. read' \in [Readers -> ReadState]
    BY <1>1, <2>1, <2>2
  <2> QED
    BY <1>2, <2>3 DEF Lookup
<1>3. CASE LoadRow(r)
  <2>1. [read[r] EXCEPT !.pc = "skus", !.row = row] \in ReadState
    BY DEF ReadState
  <2>2. read' = [read EXCEPT ![r] = [read[r] EXCEPT !.pc = "skus", !.row = row]]
    BY <1>3 DEF LoadRow, ReadState
  <2>3. read' \in [Readers -> ReadState]
    BY <2>1, <2>2
  <2> QED
    BY <1>3, <2>3 DEF LoadRow
<1>4. CASE LoadSkus(r)
  <2> DEFINE seen == IF read[r].key \in Skus THEN sku[read[r].key]
                     ELSE [row |-> read[r].row, skus |-> sku]
             loaded == [read[r] EXCEPT !.pc = "store", !.row = None, !.got = seen]
  <2>1. seen \in Views
    BY DEF ReadState, Views, ProductView
  <2>2. read' \in {[read EXCEPT ![r] = NotReading], [read EXCEPT ![r] = loaded]}
    BY <1>4 DEF LoadSkus
  <2> HIDE DEF seen
  <2>3. loaded \in ReadState
    BY <2>1 DEF ReadState
  <2> HIDE DEF loaded
  <2>4. read' \in [Readers -> ReadState]
    BY <1>1, <2>2, <2>3
  <2> QED
    BY <1>4, <2>4 DEF LoadSkus
<1>5. CASE Store(r)
  <2>1. read[r].key \in Keys /\ read[r].got \in Views
    BY DEF ReadState
  <2>2. cache' \in {cache, [cache EXCEPT ![read[r].key] = read[r].got]}
        /\ read' = [read EXCEPT ![r] = NotReading] /\ UNCHANGED <<row, sku, write>>
    BY <1>5 DEF Store
  <2> QED
    BY <1>1, <2>1, <2>2
<1>6. ASSUME NEW k \in Keys, StartRead(r, k) PROVE CacheTypes' /\ UNCHANGED <<sku, write>>
  <2>1. [pc |-> "lookup", key |-> k, row |-> None, got |-> None] \in ReadState
    BY <1>1 DEF ReadState
  <2> QED
    BY <1>6, <2>1 DEF StartRead
<1> QED
  BY <1>2, <1>3, <1>4, <1>5, <1>6 DEF ReadStep

LEMMA CacheTyped ==
  ASSUME UpdateTypes, NEW u \in Writers,
         \/ WriteStep(u) \/ WriterCrash(u)
         \/ \E keep \in SUBSET Skus : BeginUpdate(u, keep)
  PROVE  CacheTypes'
<1>1. None \in Views
  BY DEF Views
<1> QED
  BY <1>1 DEF UpdateTypes, CacheTypes, WriteStep, CommitUpdate, Drop, WriterCrash,
              BeginUpdate

LEMMA TypesStay ==
  ASSUME UpdateAssumption, UpdateTypes, [UpdateNext]_updateVars
  PROVE  UpdateTypes'
<1> USE DEF GatewayPcs
<1>1. ASSUME NEW u \in Writers, NEW keep \in SUBSET Skus, Update(u, keep) PROVE UpdateTypes'
  <2>1. [gw[u] EXCEPT !.pc = "detail", !.keep = keep] \in GatewayState
    BY DEF UpdateTypes, GatewayState
  <2>2. gw' = [gw EXCEPT ![u] = [gw[u] EXCEPT !.pc = "detail", !.keep = keep]]
    BY <1>1 DEF Update, UpdateTypes, GatewayState
  <2>3. gw' \in [Writers -> GatewayState]
    BY <2>1, <2>2 DEF UpdateTypes
  <2>4. CacheTypes' /\ UNCHANGED <<sku, write, stock>>
    BY <1>1, ReadsTyped DEF Update, Keys, UpdateAssumption
  <2> QED
    BY <2>3, <2>4 DEF UpdateTypes
<1>2. ASSUME NEW u \in Writers, ReadDetail(u) PROVE UpdateTypes'
  <2>1. CacheTypes' /\ UNCHANGED <<sku, write, stock>>
    BY <1>2, ReadsTyped DEF ReadDetail, UpdateAssumption
  <2>2. Gone(u) \in SUBSET Skus
    BY DEF Gone
  <2>3. gw' \in [Writers -> GatewayState]
    <3>1. [gw[u] EXCEPT !.pc = "update", !.gone = Gone(u)] \in GatewayState
      BY <2>2 DEF UpdateTypes, GatewayState
    <3>2. gw' \in {gw, [gw EXCEPT ![u] = [gw[u] EXCEPT !.pc = "update", !.gone = Gone(u)]]}
      BY <1>2 DEF ReadDetail, UpdateTypes, GatewayState
    <3> QED
      BY <3>1, <3>2 DEF UpdateTypes
  <2> QED
    BY <2>1, <2>3 DEF UpdateTypes
<1>3. ASSUME NEW u \in Writers, CallUpdate(u) PROVE UpdateTypes'
  <2>1. gw[u].keep \in SUBSET Skus
    BY DEF UpdateTypes, GatewayState
  <2>2. UNCHANGED <<sku, stock>> /\ gw' = [gw EXCEPT ![u].pc = "updating"]
    BY <1>3 DEF CallUpdate, BeginUpdate
  <2> QED
    BY <1>3, <2>1, <2>2, WritesTyped, GatewayGoes, CacheTyped DEF CallUpdate, UpdateTypes
<1>4. ASSUME NEW u \in Writers, Updating(u) PROVE UpdateTypes'
  <2>1. sku' \in [Skus -> SkuRow]
    BY <1>4, CommitTyped DEF Updating, WriteStep, Drop, UpdateTypes
  <2>2. gw' \in [Writers -> GatewayState]
    <3>1. \/ gw' = [gw EXCEPT ![u].pc = "failed"] \/ gw' = [gw EXCEPT ![u].pc = "init"] \/ gw' = gw
      BY <1>4 DEF Updating, Answered
    <3> QED
      BY <3>1, GatewayGoes DEF UpdateTypes
  <2> QED
    BY <1>4, <2>1, <2>2, WritesTyped, CacheTyped DEF Updating, UpdateTypes
<1>5. ASSUME NEW u \in Writers, UpdateDies(u) PROVE UpdateTypes'
  <2>1. UNCHANGED <<sku, stock>> /\ gw' \in {[gw EXCEPT ![u].pc = "failed"], gw}
    BY <1>5 DEF UpdateDies, WriterCrash
  <2> QED
    BY <1>5, <2>1, WritesTyped, GatewayGoes, CacheTyped DEF UpdateDies, UpdateTypes
<1>6. ASSUME NEW u \in Writers, InitStocks(u) \/ FreezeStocks(u) PROVE UpdateTypes'
  <2>1. PICK pc \in {"freeze", "failed", "done"} : gw' = [gw EXCEPT ![u].pc = pc]
    BY <1>6 DEF InitStocks, FreezeStocks, Answered
  <2>2. stock' \in [Skus -> {"none", "active", "frozen"}]
    BY <1>6 DEF InitStocks, FreezeStocks, UpdateTypes
  <2> QED
    BY <1>6, <2>1, <2>2, GatewayGoes DEF InitStocks, FreezeStocks, vars, UpdateTypes, CacheTypes
<1>7. ASSUME NEW u \in Writers, CallLost(u) \/ CallLate(u) PROVE UpdateTypes'
  <2>1. PICK pc \in {"failed", "init late", "freeze late"} : gw' = [gw EXCEPT ![u].pc = pc]
    BY <1>7 DEF CallLost, CallLate, UpdateTypes
  <2> QED
    BY <1>7, <2>1, GatewayGoes DEF CallLost, CallLate, vars, UpdateTypes, CacheTypes
<1>8. CASE UpdateExpire \/ UNCHANGED updateVars
  BY <1>8 DEF UpdateExpire, Expire, updateVars, vars, UpdateTypes, CacheTypes, Views
<1> QED
  BY <1>1, <1>2, <1>3, <1>4, <1>5, <1>6, <1>7, <1>8 DEF UpdateNext

------------------------------------------------------------------------------
(* A SKU on sale has stock, or an excuse. *)

LEMMA StockStart ==
  ASSUME UpdateAssumption, UpdateInit
  PROVE  StockInv
<1>1. \A u \in Writers : gw[u].pc = "new" /\ gw[u].gone = {} /\ write[u].pc = "new"
  BY DEF UpdateInit, Init
<1>2. \A s \in Skus : Exists(s) => Active(s)
  BY DEF UpdateInit, Init, Exists, Active, NoSku
<1> QED
  BY <1>1, <1>2, TypesStart DEF StockInv

(* What one request does to the invariant: the others are as they were, a SKU that appears
   is one that the request adds, and stock is lost only to a freeze. *)
LEMMA StockKeeps ==
  ASSUME StockInv, UpdateTypes', NEW u \in Writers,
         \A v \in Writers \ {u} : gw'[v] = gw[v] /\ write'[v] = write[v],
         gw'[u].pc \in {"new", "detail"} => gw'[u].gone = {},
         gw'[u].gone \cap gw'[u].keep = {},
         gw[u].gone # {} => gw'[u].gone = gw[u].gone,
         gw'[u].pc \in {"updating", "init", "init late", "failed"}
           \/ gw[u].pc \notin {"updating", "init", "init late", "failed"}
           \/ \A s \in Fresh[u] : Active(s)',
         write'[u].pc = "commit" =>
           gw'[u].pc \in {"updating", "failed"} /\ \A s \in write'[u].found : Exists(s)',
         \A s \in Skus : /\ Exists(s) => Exists(s)'
                         /\ Exists(s)' => Exists(s) \/ Active(s)' \/ Excused(s)'
                         /\ Active(s) => Active(s)' \/ s \in gw[u].gone
  PROVE  StockInv'
<1> USE DEF UpdateTypes, WriteState, GatewayState
<1>1. ASSUME NEW v \in Writers
      PROVE  /\ gw'[v].pc \in {"new", "detail"} => gw'[v].gone = {}
             /\ gw'[v].gone \cap gw'[v].keep = {}
             /\ write'[v].pc = "commit" =>
                  /\ gw'[v].pc \in {"updating", "failed"}
                  /\ \A s \in write'[v].found : Exists(s)'
  BY DEF StockInv
<1>2. ASSUME NEW s \in Skus, Excused(s) PROVE Excused(s)' \/ Active(s)'
  <2>1. PICK v \in Writers : \/ s \in gw[v].gone \ gw[v].keep
                             \/ /\ s \in Fresh[v]
                                /\ gw[v].pc \in {"updating", "init", "init late", "failed"}
    BY <1>2 DEF Excused
  <2>2. CASE v # u
    BY <2>1, <2>2 DEF Excused
  <2>3. CASE v = u /\ s \in gw[u].gone
    <3>1. s \in gw'[u].gone \ gw'[u].keep
      BY <2>3
    <3> QED
      BY <3>1 DEF Excused
  <2>4. CASE v = u /\ s \notin gw[u].gone
    BY <2>1, <2>4 DEF Excused
  <2> QED
    BY <2>2, <2>3, <2>4
<1>3. ASSUME NEW s \in Skus, Exists(s)' PROVE Active(s)' \/ Excused(s)'
  <2>1. CASE Active(s) /\ s \in gw[u].gone
    <3>1. s \in gw'[u].gone \ gw'[u].keep
      BY <2>1
    <3> QED
      BY <3>1 DEF Excused
  <2> QED
    BY <1>2, <1>3, <2>1 DEF StockInv
<1> QED
  BY <1>1, <1>3 DEF StockInv

LEMMA StockStays ==
  ASSUME UpdateAssumption
  PROVE  StockInv /\ [UpdateNext]_updateVars => StockInv'
<1> SUFFICES ASSUME StockInv, [UpdateNext]_updateVars PROVE StockInv'
  OBVIOUS
<1> USE DEF UpdateTypes, WriteState, GatewayState
<1>0. UpdateTypes /\ UpdateTypes'
  BY TypesStay DEF StockInv
<1>a. ASSUME UNCHANGED <<sku, stock>>
      PROVE  \A s \in Skus : Exists(s)' = Exists(s) /\ Active(s)' = Active(s)
  BY <1>a DEF Exists, Active
<1>1. ASSUME NEW u \in Writers, NEW keep \in SUBSET Skus, Update(u, keep) PROVE StockInv'
  <2>1. UNCHANGED <<sku, stock, write>> /\ gw[u].pc = "new" /\ gw'[u].pc = "detail"
        /\ gw'[u].gone = gw[u].gone /\ \A v \in Writers \ {u} : gw'[v] = gw[v]
    BY <1>0, <1>1 DEF Update, StartRead
  <2> QED
    BY <1>0, <1>a, <2>1, StockKeeps DEF StockInv
<1>2. ASSUME NEW u \in Writers, ReadDetail(u) PROVE StockInv'
  <2>1. UNCHANGED <<sku, stock, write>> /\ gw[u].pc = "detail" /\ gw'[u].keep = gw[u].keep
        /\ \A v \in Writers \ {u} : gw'[v] = gw[v]
    BY <1>0, <1>2 DEF ReadDetail, ReadStep, Lookup, LoadRow, LoadSkus, Store
  <2>2. gw'[u] = gw[u] \/ (gw'[u].pc = "update" /\ gw'[u].gone = Gone(u))
    <3>1. \/ gw' = gw
          \/ gw' = [gw EXCEPT ![u].pc = "update", ![u].gone = Gone(u)]
      BY <1>2 DEF ReadDetail
    <3> HIDE DEF Gone
    <3> QED
      BY <1>0, <3>1
  <2>3. Gone(u) \cap gw[u].keep = {}
    BY DEF Gone
  <2> QED
    BY <1>0, <1>a, <2>1, <2>2, <2>3, StockKeeps DEF StockInv
<1>3. ASSUME NEW u \in Writers, CallUpdate(u) PROVE StockInv'
  <2>1. UNCHANGED <<sku, stock>> /\ gw[u].pc = "update" /\ gw'[u].pc = "updating"
        /\ gw'[u].gone = gw[u].gone /\ gw'[u].keep = gw[u].keep
        /\ \A v \in Writers \ {u} : gw'[v] = gw[v]
    BY <1>0, <1>3 DEF CallUpdate, BeginUpdate
  <2>2. write'[u].found = {s \in Skus : Exists(s)} /\ \A v \in Writers \ {u} : write'[v] = write[v]
    BY <1>0, <1>3 DEF CallUpdate, BeginUpdate, Exists
  <2> QED
    BY <1>0, <1>a, <2>1, <2>2, StockKeeps, ZenonT(60) DEF StockInv
<1>4. ASSUME NEW u \in Writers, Updating(u) PROVE StockInv'
  <2>1. /\ \A v \in Writers \ {u} : gw'[v] = gw[v] /\ write'[v] = write[v]
        /\ gw'[u].gone = gw[u].gone /\ gw'[u].keep = gw[u].keep
        /\ write'[u].pc # "commit" /\ UNCHANGED stock
    BY <1>0, <1>4 DEF Updating, WriteStep, CommitUpdate, Drop, After
  <2>2. gw'[u].pc = gw[u].pc \/ (gw[u].pc = "updating" /\ gw'[u].pc \in {"init", "failed"})
    <3>1. \/ gw' = gw
          \/ /\ gw[u].pc = "updating"
             /\ \E pc \in {"init", "failed"} : gw' = [gw EXCEPT ![u].pc = pc]
      BY <1>4 DEF Updating, Answered
    <3> QED
      BY <1>0, <3>1
  <2>3. ASSUME NEW s \in Skus
        PROVE  /\ Exists(s) => Exists(s)'
               /\ Exists(s)' => Exists(s) \/ Excused(s)'
    <3>1. CASE CommitUpdate(u) /\ write[u].keep \subseteq write[u].found
      <4>1. sku'[s] = CASE s \in Wanted(u) -> [status |-> StatusOf(u, s), by |-> u]
                        [] s \in Removed(u) -> [sku[s] EXCEPT !.status = "off"]
                        [] OTHER -> sku[s]
        BY <3>1 DEF CommitUpdate
      <4>2. Exists(s) => Exists(s)'
        BY <1>0, <4>1 DEF Exists, SkuRow, NoSku, StatusOf
      <4>3. s \in write[u].keep => Exists(s)
        BY <3>1 DEF StockInv, CommitUpdate
      <4>4. s \in Removed(u) => Exists(s)
        BY <3>1 DEF StockInv, CommitUpdate, Removed
      <4>5. Exists(s)' => Exists(s) \/ s \in Fresh[u]
        BY <4>1, <4>3, <4>4 DEF Exists, Wanted
      <4>6. gw'[u].pc \in {"updating", "failed"}
        <5>1. write'[u].pc = "detail" /\ write[u].pc = "commit"
          BY <1>0, <3>1 DEF CommitUpdate
        <5> QED
          BY <1>0, <1>4, <5>1 DEF Updating, StockInv
      <4> QED
        BY <4>2, <4>5, <4>6 DEF Excused
    <3>2. CASE UNCHANGED sku
      BY <3>2 DEF Exists
    <3> QED
      BY <1>4, <3>1, <3>2 DEF Updating, WriteStep, CommitUpdate, Drop
  <2>4. \A s \in Skus : Active(s) => Active(s)'
    BY <2>1 DEF Active
  <2>5. gw[u].pc \in {"new", "detail"} => gw[u].gone = {}
    BY DEF StockInv
  <2>6. gw[u].gone \cap gw[u].keep = {}
    BY DEF StockInv
  <2> QED
    BY <1>0, <2>1, <2>2, <2>3, <2>4, <2>5, <2>6, StockKeeps
<1>5. ASSUME NEW u \in Writers, UpdateDies(u) PROVE StockInv'
  <2>1. UNCHANGED <<sku, stock>> /\ write'[u].pc = "ended"
        /\ gw'[u].gone = gw[u].gone /\ gw'[u].keep = gw[u].keep
        /\ \A v \in Writers \ {u} : gw'[v] = gw[v] /\ write'[v] = write[v]
    BY <1>0, <1>5 DEF UpdateDies, WriterCrash
  <2>2. gw'[u].pc = gw[u].pc \/ (gw[u].pc = "updating" /\ gw'[u].pc = "failed")
    BY <1>0, <1>5 DEF UpdateDies
  <2> QED
    BY <1>0, <1>a, <2>1, <2>2, StockKeeps DEF StockInv
<1>6. ASSUME NEW u \in Writers, InitStocks(u) PROVE StockInv'
  <2>1. UNCHANGED <<sku, write>> /\ gw[u].pc \in {"init", "init late"}
    BY <1>6 DEF InitStocks, vars
  <2>2. PICK pc \in {"freeze", "failed"} :
          /\ gw' = [gw EXCEPT ![u].pc = pc]
          /\ pc = "freeze" => \A s \in Skus : s \in Fresh[u] => Active(s)'
    BY <1>0, <1>6 DEF InitStocks, Active, Answered
  <2>3. /\ gw'[u].gone = gw[u].gone /\ gw'[u].keep = gw[u].keep /\ gw'[u].pc = pc
        /\ \A v \in Writers \ {u} : gw'[v] = gw[v]
    BY <1>0, <2>2
  <2>4. Fresh[u] \subseteq Skus
    BY DEF UpdateAssumption, CatalogAssumption
  <2>5. stock' = [s \in Skus |-> IF s \in Fresh[u] THEN "active" ELSE stock[s]] \/ stock' = stock
    BY <1>6 DEF InitStocks
  <2>6. \A s \in Skus : (Active(s) => Active(s)') /\ Exists(s)' = Exists(s)
    BY <2>1, <2>5 DEF Active, Exists
  <2>7. write[u].pc # "commit" /\ gw[u].gone \cap gw[u].keep = {}
    BY <2>1 DEF StockInv
  <2>8. \/ gw'[u].pc \in {"updating", "init", "init late", "failed"}
        \/ \A s \in Fresh[u] : Active(s)'
    BY <2>2, <2>3, <2>4
  <2> QED
    BY <1>0, <2>1, <2>2, <2>3, <2>6, <2>7, <2>8, StockKeeps
<1>7. ASSUME NEW u \in Writers, FreezeStocks(u) PROVE StockInv'
  <2>1. UNCHANGED <<sku, write>> /\ gw[u].pc \in {"freeze", "freeze late"}
    BY <1>7 DEF FreezeStocks, vars
  <2>2. PICK pc \in {"done", "failed"} : gw' = [gw EXCEPT ![u].pc = pc]
    BY <1>0, <1>7 DEF FreezeStocks, Answered
  <2>3. /\ gw'[u].gone = gw[u].gone /\ gw'[u].keep = gw[u].keep /\ gw'[u].pc = pc
        /\ \A v \in Writers \ {u} : gw'[v] = gw[v]
    BY <1>0, <2>2
  <2>4. \A s \in Skus : (Active(s) => Active(s)' \/ s \in gw[u].gone) /\ Exists(s)' = Exists(s)
    BY <1>7, <2>1 DEF FreezeStocks, Active, Exists
  <2> QED
    BY <1>0, <2>1, <2>2, <2>3, <2>4, StockKeeps DEF StockInv
<1>8. ASSUME NEW u \in Writers, CallLost(u) \/ CallLate(u) PROVE StockInv'
  <2>1. UNCHANGED <<sku, stock, write>>
    BY <1>8 DEF CallLost, CallLate, vars
  <2>2. PICK pc \in {"failed", "init late", "freeze late"} :
          /\ gw' = [gw EXCEPT ![u].pc = pc]
          /\ gw[u].pc \in {"update", "updating", "init", "freeze"}
          /\ pc = "freeze late" => gw[u].pc = "freeze"
          /\ pc = "init late" => gw[u].pc = "init"
    BY <1>0, <1>8 DEF CallLost, CallLate
  <2>3. /\ gw'[u].gone = gw[u].gone /\ gw'[u].keep = gw[u].keep /\ gw'[u].pc = pc
        /\ \A v \in Writers \ {u} : gw'[v] = gw[v]
    BY <1>0, <2>2
  <2>4. /\ write[u].pc = "commit" =>
             gw[u].pc = "updating" /\ \A s \in write[u].found : Exists(s)
        /\ gw[u].gone \cap gw[u].keep = {} /\ write[u].found \subseteq Skus
    BY <1>0, <2>2 DEF StockInv
  <2>5. gw[u].pc = "updating" => pc = "failed"
    BY <2>2
  <2> QED
    BY <1>0, <1>a, <2>1, <2>2, <2>3, <2>4, <2>5, StockKeeps
<1>9. CASE UpdateExpire \/ UNCHANGED updateVars
  <2>1. UNCHANGED <<sku, stock, write, gw>>
    BY <1>9 DEF UpdateExpire, Expire, updateVars, vars
  <2>2. \A s \in Skus : Exists(s)' = Exists(s) /\ Active(s)' = Active(s) /\ Excused(s)' = Excused(s)
    BY <2>1 DEF Exists, Active, Excused
  <2> QED
    BY <1>0, <2>1, <2>2 DEF StockInv
<1> QED
  BY <1>1, <1>2, <1>3, <1>4, <1>5, <1>6, <1>7, <1>8, <1>9 DEF UpdateNext

LEMMA StockInvOnSale == StockInv => OnSaleHasStock
<1> SUFFICES ASSUME StockInv, Over, NEW s \in Skus, sku[s].status = "on", ~Active(s)
             PROVE  \E u \in Writers : \/ s \in gw[u].gone \ gw[u].keep
                                       \/ s \in Fresh[u] /\ gw[u].pc = "failed"
  BY DEF OnSaleHasStock, Active
<1>1. PICK u \in Writers : \/ s \in gw[u].gone \ gw[u].keep
                           \/ /\ s \in Fresh[u]
                              /\ gw[u].pc \in {"updating", "init", "init late", "failed"}
  BY DEF StockInv, Exists, Excused
<1>2. gw[u].pc \in {"new", "done", "failed"}
  BY DEF Over, Running
<1> QED
  BY <1>1, <1>2

------------------------------------------------------------------------------
(* One after another: an update that succeeds makes good what earlier ones left undone. *)

\* A request that has not begun or is over.
Idle(u) ==
  gw[u].pc \in {"new", "done", "failed"} /\ write[u].pc \in {"new", "ended"} /\ read[u].pc = "idle"

LEMMA IdleOwn ==
  ASSUME NEW u \in Writers, Idle(u)
  PROVE  Own(u)
BY DEF Idle, Own, HasTurn, CommitsLast, Committed, ReadsAll, FindsAll

LEMMA RestIdle ==
  ASSUME TurnInv, NEW u \in Writers, u \notin Running
  PROVE  Idle(u)
BY DEF TurnInv, Running, Own, HasTurn, Idle, UpdateTypes, WriteState

LEMMA OthersIdle ==
  ASSUME TurnInv, NEW u \in Running, NEW v \in Writers \ {u}
  PROVE  Idle(v)
BY RestIdle DEF TurnInv

LEMMA TurnKeeps ==
  ASSUME UpdateTypes', NEW u \in Writers,
         \A v \in Writers \ {u} :
           Idle(v) /\ gw'[v] = gw[v] /\ write'[v] = write[v] /\ read'[v] = read[v],
         Own(u)', Shared'
  PROVE  TurnInv'
<1>1. \A v \in Writers \ {u} : Idle(v)'
  BY DEF Idle
<1>2. \A v \in Writers : Own(v)'
  <2>1. ASSUME NEW v \in Writers, Idle(v)' PROVE Own(v)'
    BY <2>1 DEF Idle, Own, HasTurn, CommitsLast, Committed, ReadsAll, FindsAll
  <2> QED
    BY <1>1, <2>1
<1>3. \A v \in Running' : v = u
  BY <1>1 DEF Idle, Running
<1> QED
  BY <1>2, <1>3 DEF TurnInv

LEMMA TurnStart ==
  ASSUME UpdateAssumption, UpdateInit
  PROVE  TurnInv
<1>1. \A u \in Writers : Idle(u)
  BY DEF UpdateInit, Init, Idle, UpdateAssumption, NotReading
<1>2. Running = {}
  BY <1>1 DEF Running, Idle
<1>3. cache["detail"] = None /\ row = None
  BY DEF UpdateInit, Init, Keys
<1>4. \A s \in Skus : Active(s) => Exists(s)
  BY DEF UpdateInit, Init, Active, Exists
<1> QED
  BY <1>1, <1>2, <1>3, <1>4, IdleOwn, TypesStart
  DEF TurnInv, Shared, LastReplaces, LastRepairs

\* What is shared stays when a request only changes its own place, unless to "done".
LEMMA SharedStays ==
  ASSUME TurnInv, NEW u \in Writers, UNCHANGED <<row, sku, stock>>,
         \A v \in Writers \ {u} : gw'[v] = gw[v],
         gw'[u].pc # "done",
         cache'["detail"] \in {None, cache["detail"]},
         \A v \in Writers : write'[v].keep = write[v].keep /\ (write'[v].pc = "new" => write[v].pc = "new")
  PROVE  Shared'
<1>1. \A s \in Skus : Active(s)' = Active(s) /\ Exists(s)' = Exists(s)
  BY DEF Active, Exists
<1>2. LastReplaces'
  BY DEF TurnInv, Shared, LastReplaces, Wanted
<1>3. LastRepairs'
  BY <1>1, <1>2 DEF TurnInv, Shared, LastRepairs, LastReplaces, OthersFrozen, Active, Wanted
<1>4. cache'["detail"] # None => Knows(cache["detail"])'
  BY <1>1 DEF TurnInv, Shared, Knows
<1> QED
  BY <1>1, <1>2, <1>3, <1>4 DEF TurnInv, Shared

LEMMA TurnBegins ==
  ASSUME UpdateAssumption, InTurn, TurnInv, UpdateTypes',
         NEW u \in Writers, NEW keep \in SUBSET Skus, Update(u, keep)
  PROVE  TurnInv'
<1> USE DEF UpdateTypes, GatewayState, WriteState
<1>0. UpdateTypes
  BY DEF TurnInv
<1>1. Running = {} /\ gw[u].pc = "new" /\ UNCHANGED <<row, sku, stock, cache, write>>
  BY DEF Update, OneAtATime, InTurn, StartRead
<1>2. gw'[u].pc = "detail" /\ \A v \in Writers \ {u} : gw'[v] = gw[v]
  BY <1>0 DEF Update
<1>3. \A v \in Writers \ {u} : read'[v] = read[v]
  BY DEF Update, StartRead
<1>4. read'[u].pc = "lookup" /\ read'[u].key = "detail"
  BY <1>0 DEF Update, StartRead, CacheTypes, UpdateAssumption
<1>5. \A v \in Writers : Idle(v)
  BY <1>1, RestIdle
<1>6. Own(u)'
  BY <1>1, <1>2, <1>4, <1>5 DEF Own, HasTurn, CommitsLast, Committed, ReadsAll, FindsAll, Idle
<1>7. Shared'
  BY <1>1, <1>2, SharedStays
<1> QED
  BY <1>1, <1>2, <1>3, <1>5, <1>6, <1>7, TurnKeeps

\* A reader of the detail: it looks it up, or loads the row, then the SKUs, and stores them.
LEMMA ReaderSteps ==
  ASSUME UpdateAssumption, InTurn, UpdateTypes, NEW u \in Writers, ReadStep(u),
         read[u].key = "detail"
  PROVE  \/ /\ read[u].pc = "lookup" /\ cache["detail"] # None
            /\ read'[u].pc = "idle" /\ UNCHANGED cache
         \/ /\ read'[u].pc \in {"row", "skus"} /\ read'[u].key = "detail" /\ UNCHANGED cache
         \/ /\ read'[u].pc = "store" /\ read'[u].key = "detail" /\ UNCHANGED cache
            /\ read'[u].got.skus = sku
         \/ /\ read[u].pc = "store"
            /\ read'[u].pc = "idle" /\ cache'["detail"] = read[u].got
<1> USE DEF UpdateTypes, CacheTypes, ReadState, UpdateAssumption, InTurn
<1>1. "detail" \notin Skus
  BY DEF CatalogAssumption
<1>2. CASE Lookup(u)
  BY <1>1, <1>2 DEF Lookup, NotReading
<1>3. CASE LoadRow(u)
  BY <1>3 DEF LoadRow
<1>4. CASE LoadSkus(u)
  <2> DEFINE seen == [row |-> read[u].row, skus |-> sku]
  <2>1. seen # NoSku
    BY DEF NoSku
  <2>2. read' = [read EXCEPT ![u] = IF seen = NoSku THEN NotReading
                   ELSE [read[u] EXCEPT !.pc = "store", !.row = None, !.got = seen]]
    BY <1>1, <1>4 DEF LoadSkus
  <2>3. read' = [read EXCEPT ![u] = [read[u] EXCEPT !.pc = "store", !.row = None, !.got = seen]]
    BY <2>1, <2>2
  <2>4. seen.skus = sku
    OBVIOUS
  <2> HIDE DEF seen
  <2>5. read'[u].pc = "store" /\ read'[u].key = "detail" /\ read'[u].got = seen
    BY <2>3
  <2> QED
    BY <1>4, <2>4, <2>5 DEF LoadSkus
<1>5. CASE Store(u)
  BY <1>5 DEF Store, NotReading, Keys
<1> QED
  BY <1>2, <1>3, <1>4, <1>5 DEF ReadStep

LEMMA TurnReads ==
  ASSUME UpdateAssumption, InTurn, TurnInv, UpdateTypes', NEW u \in Writers, ReadDetail(u)
  PROVE  TurnInv'
<1> USE DEF UpdateTypes, GatewayState, WriteState
<1>0. UpdateTypes /\ Own(u)
  BY DEF TurnInv
<1>1. gw[u].pc = "detail" /\ UNCHANGED <<row, sku, stock, write>>
  BY DEF ReadDetail, ReadStep, Lookup, LoadRow, LoadSkus, Store
<1>2. \A v \in Writers \ {u} : Idle(v)
  BY <1>1, OthersIdle DEF Running
<1>3. /\ \A v \in Writers \ {u} : gw'[v] = gw[v] /\ read'[v] = read[v]
      /\ gw'[u].keep = gw[u].keep
      /\ gw'[u].pc = IF read'[u].pc = "idle" THEN "update" ELSE "detail"
      /\ read'[u].pc = "idle" => gw'[u].gone = Gone(u)
  <2>1. gw' = IF read'[u].pc = "idle" THEN [gw EXCEPT ![u].pc = "update", ![u].gone = Gone(u)]
              ELSE gw
    BY DEF ReadDetail
  <2>2. \A v \in Writers \ {u} : read'[v] = read[v]
    BY <1>0 DEF ReadDetail, ReadStep, Lookup, LoadRow, LoadSkus, Store, CacheTypes,
                UpdateAssumption
  <2> HIDE DEF Gone
  <2> QED
    BY <1>0, <1>1, <2>1, <2>2
<1>4. read[u].key = "detail" /\ write[u].pc \in {"new", "ended"}
  <2>1. read[u].pc # "idle"
    BY DEF ReadDetail, ReadStep, Lookup, LoadRow, LoadSkus, Store
  <2> QED
    BY <1>0, <1>1, <2>1 DEF Own, HasTurn
<1>5. \A s \in Skus : Active(s)' = Active(s) /\ Exists(s)' = Exists(s) /\ (Active(s) => Exists(s))
  BY <1>1 DEF Active, Exists, TurnInv, Shared
<1>6. HasTurn(u)' /\ CommitsLast(u)'
  <2>1. read'[u].pc # "idle" => gw'[u].pc = "detail" /\ read'[u].key = "detail"
    BY <1>0, <1>3, <1>4, ReaderSteps DEF ReadDetail
  <2> QED
    BY <1>1, <1>3, <1>4, <2>1 DEF HasTurn, CommitsLast, Committed
<1>7. ReadsAll(u)'
  <2>1. ASSUME read'[u].pc = "store" PROVE Knows(read[u].got)'
    <3>1. read'[u].got.skus = sku
      BY <1>0, <1>4, <2>1, ReaderSteps DEF ReadDetail
    <3> QED
      BY <1>1, <1>5, <3>1 DEF Knows, Exists
  <2> QED
    BY <1>3, <2>1 DEF ReadsAll
<1>8. ASSUME read'[u].pc = "idle" PROVE \A s \in Skus : Active(s) => s \in gw'[u].gone \cup gw'[u].keep
  <2> DEFINE detail == IF read[u].pc = "lookup" THEN cache["detail"] ELSE read[u].got
  <2>1. Knows(detail)
    BY <1>0, <1>4, <1>8, ReaderSteps DEF ReadDetail, TurnInv, Shared, Own, ReadsAll
  <2>2. Gone(u) = {s \in Skus : detail.skus[s].status # "none"} \ gw[u].keep
    BY DEF Gone
  <2> HIDE DEF detail
  <2> QED
    BY <1>3, <1>8, <2>1, <2>2 DEF Knows
<1>9. FindsAll(u)'
  BY <1>3, <1>5, <1>8 DEF FindsAll
<1>10. Shared'
  <2>1. CASE cache'["detail"] = cache["detail"]
    BY <1>1, <1>3, <2>1, SharedStays
  <2>2. CASE cache'["detail"] # cache["detail"]
    <3>1. read[u].pc = "store" /\ cache'["detail"] = read[u].got
      BY <1>0, <1>4, <2>2, ReaderSteps DEF ReadDetail
    <3>2. Knows(cache["detail"])'
      BY <1>0, <1>5, <3>1 DEF Own, ReadsAll, Knows
    <3>3. LastReplaces' /\ LastRepairs'
      BY <1>1, <1>3, <1>5
      DEF TurnInv, Shared, LastReplaces, LastRepairs, OthersFrozen, Active, Wanted
    <3> QED
      BY <1>5, <3>2, <3>3 DEF Shared
  <2> QED
    BY <2>1, <2>2
<1> QED
  BY <1>1, <1>2, <1>3, <1>6, <1>7, <1>9, <1>10, TurnKeeps DEF Own

LEMMA TurnCalls ==
  ASSUME UpdateAssumption, TurnInv, UpdateTypes', NEW u \in Writers, CallUpdate(u)
  PROVE  TurnInv'
<1> USE DEF UpdateTypes, GatewayState, WriteState
<1>0. UpdateTypes /\ Own(u)
  BY DEF TurnInv
<1>1. gw[u].pc = "update" /\ write[u].pc = "new" /\ UNCHANGED <<row, sku, stock, cache, read>>
  BY DEF CallUpdate, BeginUpdate
<1>2. \A v \in Writers \ {u} : Idle(v)
  BY <1>1, OthersIdle DEF Running
<1>3. /\ \A v \in Writers \ {u} : gw'[v] = gw[v] /\ write'[v] = write[v]
      /\ gw'[u].keep = gw[u].keep /\ gw'[u].gone = gw[u].gone /\ gw'[u].pc = "updating"
      /\ write'[u].pc = "commit" /\ write'[u].keep = gw[u].keep
      /\ write'[u].found = {s \in Skus : Exists(s)}
  BY <1>0 DEF CallUpdate, BeginUpdate, Exists
<1>4. read[u].pc = "idle"
  BY <1>0, <1>1 DEF Own, HasTurn
<1>5. \A s \in Skus : Active(s)' = Active(s) /\ Exists(s)' = Exists(s)
  BY <1>1 DEF Active, Exists
<1>6. HasTurn(u)' /\ CommitsLast(u)' /\ ReadsAll(u)'
  BY <1>1, <1>3, <1>4, <1>5 DEF HasTurn, CommitsLast, Committed, ReadsAll
<1>7. FindsAll(u)'
  BY <1>0, <1>1, <1>3, <1>5 DEF Own, FindsAll
<1>8. LastReplaces'
  <2>1. row # u
    BY <1>1 DEF TurnInv, Shared, LastReplaces, UpdateAssumption, CatalogAssumption
  <2> QED
    BY <1>1, <1>3, <2>1 DEF TurnInv, Shared, LastReplaces, Wanted
<1>9. LastRepairs'
  <2>1. row # u
    BY <1>1 DEF TurnInv, Shared, LastReplaces, UpdateAssumption, CatalogAssumption
  <2> QED
    BY <1>1, <1>3, <1>5, <2>1
    DEF TurnInv, Shared, LastRepairs, LastReplaces, OthersFrozen, Active, Wanted
<1>10. Shared'
  BY <1>1, <1>5, <1>8, <1>9 DEF TurnInv, Shared, Knows
<1> QED
  BY <1>1, <1>2, <1>3, <1>6, <1>7, <1>10, TurnKeeps DEF Own

\* Between two calls of u nothing runs in the product service.
LEMMA BetweenCalls ==
  ASSUME TurnInv, NEW u \in Writers, gw[u].pc \in {"update", "init", "freeze"}
  PROVE  write[u].pc \in {"new", "ended"} /\ read[u].pc = "idle" /\ u \in Running
BY DEF TurnInv, Own, HasTurn, Running, UpdateTypes, WriteState

\* An update that fails leaves what is shared to the others.
LEMMA TurnFails ==
  ASSUME TurnInv, UpdateTypes', NEW u \in Running,
         UNCHANGED <<row, sku, stock, read>>, cache'["detail"] \in {None, cache["detail"]},
         \A v \in Writers \ {u} : gw'[v] = gw[v] /\ write'[v] = write[v],
         gw[u].pc # "detail",
         gw'[u].pc = "failed", write'[u].pc \in {"new", "ended"}, write'[u].keep = write[u].keep,
         write'[u].pc = "new" => write[u].pc = "new"
  PROVE  TurnInv'
<1>1. u \in Writers /\ Own(u)
  BY DEF TurnInv, Running
<1>2. \A v \in Writers \ {u} : Idle(v)
  BY OthersIdle
<1>3. Own(u)'
  BY <1>1 DEF Own, HasTurn, CommitsLast, Committed, ReadsAll, FindsAll
<1>4. Shared'
  BY <1>1, SharedStays
<1> QED
  BY <1>1, <1>2, <1>3, <1>4, TurnKeeps

\* A request that failed after its last call changed stock: it is no reader's business.
LEMMA TurnFailsLate ==
  ASSUME TurnInv, UpdateTypes', NEW u \in Running,
         UNCHANGED <<row, sku, cache, read, write>>, row = u,
         gw[u].pc \in {"init", "freeze"}, gw'[u].pc = "failed",
         \A v \in Writers \ {u} : gw'[v] = gw[v],
         \A s \in Skus : Active(s)' => Exists(s),
         cache["detail"] # None => Knows(cache["detail"])'
  PROVE  TurnInv'
<1>1. u \in Writers /\ Own(u) /\ write[u].pc \in {"new", "ended"} /\ read[u].pc = "idle"
  BY BetweenCalls DEF TurnInv, Running
<1>2. \A v \in Writers \ {u} : Idle(v)
  BY OthersIdle
<1>3. Own(u)'
  BY <1>1 DEF Own, HasTurn, CommitsLast, Committed, ReadsAll, FindsAll
<1>4. LastReplaces' /\ LastRepairs'
  BY DEF TurnInv, Shared, LastReplaces, LastRepairs, Wanted
<1>5. Shared'
  BY <1>4 DEF Shared, Exists
<1> QED
  BY <1>1, <1>2, <1>3, <1>5, TurnKeeps

LEMMA TurnCommits ==
  ASSUME UpdateAssumption, TurnInv, UpdateTypes', NEW u \in Writers, Updating(u), CommitUpdate(u)
  PROVE  TurnInv'
<1> USE DEF UpdateTypes, GatewayState, WriteState
<1>0. UpdateTypes /\ Own(u) /\ Fresh[u] \subseteq Skus
  BY DEF TurnInv, UpdateAssumption, CatalogAssumption
<1>1. write[u].pc = "commit" /\ gw[u].pc = "updating" /\ UNCHANGED <<cache, read, stock>>
      /\ write[u].keep = gw[u].keep /\ write[u].found = {s \in Skus : Exists(s)}
      /\ read[u].pc = "idle"
  BY <1>0 DEF CommitUpdate, Updating, Own, HasTurn
<1>2. u \in Running /\ \A v \in Writers \ {u} : Idle(v)
  BY <1>1, OthersIdle DEF Running
<1>3. gw' = IF write'[u].pc = "ended" THEN [gw EXCEPT ![u].pc = "failed"] ELSE gw
  BY <1>1 DEF Updating
<1>4. CASE write[u].keep \subseteq write[u].found
  <2>1. /\ row' = u /\ write' = [write EXCEPT ![u].pc = "detail"]
        /\ sku' = [s \in Skus |->
             CASE s \in Wanted(u) -> [status |-> StatusOf(u, s), by |-> u]
               [] s \in Removed(u) -> [sku[s] EXCEPT !.status = "off"]
               [] OTHER -> sku[s]]
    BY <1>4 DEF CommitUpdate
  <2>2. /\ write'[u].pc = "detail" /\ write'[u].keep = gw[u].keep /\ gw' = gw
        /\ \A v \in Writers \ {u} : write'[v] = write[v]
    BY <1>0, <1>1, <1>3, <2>1
  <2>3. ASSUME NEW s \in Skus
        PROVE  /\ s \in Wanted(u) => sku'[s] = [status |-> StatusOf(u, s), by |-> u]
               /\ s \in Removed(u) => sku'[s] = [sku[s] EXCEPT !.status = "off"]
               /\ s \notin Wanted(u) /\ s \notin Removed(u) => sku'[s] = sku[s]
    <3>1. s \notin Wanted(u) \/ s \notin Removed(u)
      BY DEF Removed
    <3>2. sku'[s] = CASE s \in Wanted(u) -> [status |-> StatusOf(u, s), by |-> u]
                      [] s \in Removed(u) -> [sku[s] EXCEPT !.status = "off"]
                      [] OTHER -> sku[s]
      BY <2>1
    <3> QED
      BY <3>1, <3>2
  <2>4. \A s \in Skus : sku'[s].status = "on" <=> s \in Wanted(u)' \ OffSale[u]
    <3>1. ASSUME NEW s \in Skus, s \notin Wanted(u) PROVE sku'[s].status # "on"
      <4>1. CASE Exists(s)
        <5>1. s \in Removed(u)
          BY <1>1, <3>1, <4>1 DEF Removed
        <5>2. sku'[s] = [sku[s] EXCEPT !.status = "off"] /\ sku[s] \in SkuRow
          BY <1>0, <2>3, <5>1
        <5> QED
          BY <5>2 DEF SkuRow, NoSku
      <4>2. CASE ~Exists(s)
        BY <1>1, <2>3, <3>1, <4>2 DEF Removed, Exists
      <4> QED
        BY <4>1, <4>2
    <3>2. ASSUME NEW s \in Skus, s \in Wanted(u)
          PROVE  sku'[s].status = "on" <=> s \notin OffSale[u]
      BY <2>3, <3>2 DEF StatusOf
    <3> QED
      BY <1>1, <2>2, <3>1, <3>2 DEF Wanted
  <2>5. \A s \in Skus : Exists(s) => Exists(s)'
    <3> SUFFICES ASSUME NEW s \in Skus, Exists(s) PROVE Exists(s)'
      OBVIOUS
    <3>1. sku[s] \in SkuRow
      BY <1>0
    <3> QED
      BY <2>3, <3>1 DEF Exists, SkuRow, NoSku, StatusOf
  <2>6. \A s \in Skus : Active(s)' = Active(s)
    BY <1>1 DEF Active
  <2>7. Own(u)'
    <3>1. \A s \in gw[u].keep \cup Fresh[u] : Exists(s)'
      BY <1>0, <1>1, <2>3 DEF Wanted, Exists, StatusOf
    <3> QED
      BY <1>0, <1>1, <2>1, <2>2, <2>6, <3>1
      DEF Own, HasTurn, CommitsLast, Committed, ReadsAll, FindsAll
  <2>8. Shared'
    <3>1. LastReplaces' /\ LastRepairs'
      BY <1>1, <2>1, <2>2, <2>4 DEF LastReplaces, LastRepairs
    <3> QED
      BY <1>1, <2>5, <2>6, <3>1 DEF TurnInv, Shared, Knows
  <2> QED
    BY <1>1, <1>2, <2>2, <2>7, <2>8, TurnKeeps
<1>5. CASE ~(write[u].keep \subseteq write[u].found)
  <2>1. write' = [write EXCEPT ![u].pc = "ended"] /\ UNCHANGED <<row, sku>>
    BY <1>5 DEF CommitUpdate
  <2>2. /\ write'[u].pc = "ended" /\ write'[u].keep = write[u].keep
        /\ \A v \in Writers \ {u} : write'[v] = write[v]
    BY <1>0, <2>1
  <2>3. gw'[u].pc = "failed" /\ \A v \in Writers \ {u} : gw'[v] = gw[v]
    BY <1>0, <1>3, <2>2
  <2> QED
    BY <1>1, <1>2, <2>1, <2>2, <2>3, TurnFails
<1> QED
  BY <1>4, <1>5

LEMMA TurnDrops ==
  ASSUME UpdateAssumption, InTurn, TurnInv, UpdateTypes', NEW u \in Writers, Updating(u), Drop(u),
         gw'[u].pc # "failed"
  PROVE  TurnInv'
<1> USE DEF UpdateTypes, GatewayState, WriteState
<1>0. UpdateTypes /\ Own(u)
  BY DEF TurnInv
<1>1. write[u].pc \in {"detail", "skus", "lists"} /\ UNCHANGED <<row, sku, stock, read>>
  BY DEF Drop, Updating
<1>2. gw[u].pc = "updating" /\ read[u].pc = "idle"
  BY <1>0, <1>1 DEF Own, HasTurn
<1>3. u \in Running /\ \A v \in Writers \ {u} : Idle(v)
  BY <1>2, OthersIdle DEF Running
<1>4. /\ write'[u].pc = After(write[u].pc) /\ write'[u].keep = write[u].keep
      /\ \A v \in Writers \ {u} : write'[v] = write[v]
  BY <1>0 DEF Drop
<1>5. /\ gw'[u].pc = IF write'[u].pc = "ended" THEN "init" ELSE "updating"
      /\ gw'[u].keep = gw[u].keep /\ gw'[u].gone = gw[u].gone
      /\ \A v \in Writers \ {u} : gw'[v] = gw[v]
  <2>1. /\ write'[u].pc # "ended" => gw' = gw
        /\ write'[u].pc = "ended" =>
             \E pc \in {"init", "failed"} : gw' = [gw EXCEPT ![u].pc = pc]
    BY <1>1, <1>2 DEF Updating, Answered
  <2> QED
    BY <1>0, <1>2, <2>1
<1>6. /\ write'[u].pc \in {"skus", "lists", "ended"}
      /\ write[u].pc # "detail" => write'[u].pc # "skus"
      /\ write[u].pc = "detail" => write'[u].pc = "skus"
  BY <1>1, <1>4 DEF After
<1>7. /\ cache'["detail"] \in {None, cache["detail"]}
      /\ write[u].pc = "detail" => cache'["detail"] = None
  BY DEF Drop, InTurn, KeysAt, Keys
<1>8. \A s \in Skus : Active(s)' = Active(s) /\ Exists(s)' = Exists(s)
  BY <1>1 DEF Active, Exists
<1>9. HasTurn(u)' /\ CommitsLast(u)'
  <2>1. Fresh[u] \subseteq Skus
    BY DEF UpdateAssumption, CatalogAssumption
  <2> QED
    BY <1>0, <1>1, <1>2, <1>4, <1>5, <1>6, <1>8, <2>1 DEF Own, HasTurn, CommitsLast, Committed
<1>10. ReadsAll(u)'
  BY <1>0, <1>1, <1>2, <1>5, <1>6, <1>7 DEF Own, ReadsAll
<1>11. FindsAll(u)'
  BY <1>0, <1>2, <1>5, <1>8 DEF Own, FindsAll
<1>12. Shared'
  <2>1. \A v \in Writers :
          write'[v].keep = write[v].keep /\ (write'[v].pc = "new" => write[v].pc = "new")
    BY <1>4, <1>6
  <2> QED
    BY <1>1, <1>5, <1>7, <2>1, SharedStays
<1> QED
  BY <1>1, <1>3, <1>4, <1>5, <1>9, <1>10, <1>11, <1>12, TurnKeeps DEF Own

\* The product service did it all, and the request does not hear of it.
LEMMA TurnUnheard ==
  ASSUME InTurn, TurnInv, UpdateTypes', NEW u \in Writers, Updating(u), Drop(u),
         gw'[u].pc = "failed"
  PROVE  TurnInv'
<1> USE DEF UpdateTypes, GatewayState, WriteState
<1>0. UpdateTypes /\ Own(u)
  BY DEF TurnInv
<1>1. write[u].pc \in {"detail", "skus", "lists"} /\ UNCHANGED <<row, sku, stock, read>>
  BY DEF Drop, Updating
<1>2. gw[u].pc = "updating"
  BY <1>0, <1>1 DEF Own, HasTurn
<1>3. write'[u].pc = "ended" /\ \A v \in Writers \ {u} : gw'[v] = gw[v]
  <2>1. /\ write'[u].pc # "ended" => gw' = gw
        /\ \/ gw' = gw
           \/ \E pc \in {"init", "failed"} : gw' = [gw EXCEPT ![u].pc = pc]
    BY <1>1, <1>2 DEF Updating, Answered
  <2> QED
    BY <1>0, <1>2, <2>1
<1>4. write'[u].keep = write[u].keep /\ \A v \in Writers \ {u} : write'[v] = write[v]
  BY <1>0 DEF Drop
<1>5. cache'["detail"] \in {None, cache["detail"]}
  BY DEF Drop, InTurn, KeysAt, Keys
<1>6. u \in Running
  BY <1>2 DEF Running
<1> QED
  BY <1>1, <1>2, <1>3, <1>4, <1>5, <1>6, TurnFails

LEMMA TurnDies ==
  ASSUME TurnInv, UpdateTypes', NEW u \in Writers, UpdateDies(u)
  PROVE  TurnInv'
<1> USE DEF UpdateTypes, GatewayState, WriteState
<1>0. UpdateTypes /\ Own(u)
  BY DEF TurnInv
<1>1. gw[u].pc = "updating"
  BY <1>0 DEF UpdateDies, WriterCrash, Writing, Own, HasTurn
<1>2. UNCHANGED <<row, sku, stock, cache, read>>
  BY DEF UpdateDies, WriterCrash
<1>3. /\ write'[u].pc = "ended" /\ write'[u].keep = write[u].keep
      /\ \A v \in Writers \ {u} : write'[v] = write[v]
  BY <1>0 DEF UpdateDies, WriterCrash
<1>4. gw'[u].pc = "failed" /\ \A v \in Writers \ {u} : gw'[v] = gw[v]
  BY <1>0, <1>1 DEF UpdateDies
<1>5. u \in Running
  BY <1>1 DEF Running
<1> QED
  BY <1>1, <1>2, <1>3, <1>4, <1>5, TurnFails

LEMMA TurnInits ==
  ASSUME UpdateAssumption, TurnInv, UpdateTypes', NEW u \in Writers, InitStocks(u)
  PROVE  TurnInv'
<1> USE DEF UpdateTypes, GatewayState, WriteState
<1>0. UpdateTypes /\ Own(u) /\ Fresh[u] \subseteq Skus
  BY DEF TurnInv, UpdateAssumption, CatalogAssumption
<1>1. gw[u].pc = "init" /\ UNCHANGED <<row, sku, cache, read, write>>
  BY <1>0 DEF InitStocks, vars, Own, HasTurn
<1>2. /\ u \in Running /\ write[u].pc \in {"new", "ended"} /\ read[u].pc = "idle"
      /\ \A v \in Writers \ {u} : Idle(v)
  BY <1>1, BetweenCalls, OthersIdle
<1>3. CASE \A s \in Fresh[u] : stock[s] = "none"
  <2>1. /\ gw'[u].pc \in {"freeze", "failed"}
        /\ gw'[u].keep = gw[u].keep /\ gw'[u].gone = gw[u].gone
        /\ \A v \in Writers \ {u} : gw'[v] = gw[v]
    <3>1. PICK pc \in {"freeze", "failed"} : gw' = [gw EXCEPT ![u].pc = pc]
      BY <1>1, <1>3 DEF InitStocks, Answered
    <3> QED
      BY <1>0, <3>1
  <2>2. \A s \in Skus : Active(s)' => Active(s) \/ s \in Fresh[u]
    BY <1>3 DEF InitStocks, Active
  <2>3. /\ row = u /\ cache["detail"] = None
        /\ \A s \in gw[u].keep \cup Fresh[u] : Exists(s)
    BY <1>0, <1>1 DEF Own, CommitsLast, Committed, ReadsAll
  <2>4. HasTurn(u)' /\ CommitsLast(u)' /\ ReadsAll(u)'
    <3>1. write[u].keep = gw[u].keep
      BY <1>0, <1>1 DEF Own, HasTurn
    <3>2. \A s \in Skus : Exists(s)' = Exists(s)
      BY <1>1 DEF Exists
    <3> QED
      BY <1>0, <1>1, <1>2, <2>1, <2>3, <3>1, <3>2 DEF HasTurn, CommitsLast, Committed, ReadsAll
  <2>5. FindsAll(u)'
    BY <1>0, <1>1, <2>1, <2>2 DEF Own, FindsAll
  <2>6. Shared'
    <3>1. \A s \in Skus : Active(s)' => Exists(s)'
      BY <1>1, <2>2, <2>3 DEF TurnInv, Shared, Exists
    <3>2. LastReplaces' /\ LastRepairs'
      BY <1>1, <2>1, <2>3 DEF TurnInv, Shared, LastReplaces, LastRepairs, Wanted
    <3> QED
      BY <1>1, <2>3, <3>1, <3>2 DEF Shared
  <2> QED
    BY <1>1, <1>2, <2>1, <2>4, <2>5, <2>6, TurnKeeps DEF Own
<1>4. CASE ~(\A s \in Fresh[u] : stock[s] = "none")
  <2>1. UNCHANGED stock /\ gw' = [gw EXCEPT ![u].pc = "failed"]
    BY <1>4 DEF InitStocks
  <2>2. gw'[u].pc = "failed" /\ \A v \in Writers \ {u} : gw'[v] = gw[v]
    BY <1>0, <2>1
  <2> QED
    BY <1>1, <1>2, <2>1, <2>2, TurnFails
<1> QED
  BY <1>3, <1>4

LEMMA TurnFreezes ==
  ASSUME TurnInv, UpdateTypes', NEW u \in Writers, FreezeStocks(u)
  PROVE  TurnInv'
<1> USE DEF UpdateTypes, GatewayState, WriteState
<1>0. UpdateTypes /\ Own(u)
  BY DEF TurnInv
<1>1. gw[u].pc = "freeze" /\ UNCHANGED <<row, sku, cache, read, write>>
  BY <1>0 DEF FreezeStocks, vars, Own, HasTurn
<1>2. /\ u \in Running /\ write[u].pc \in {"new", "ended"} /\ read[u].pc = "idle"
      /\ \A v \in Writers \ {u} : Idle(v)
  BY <1>1, BetweenCalls, OthersIdle
<1>3. gw'[u].pc \in {"done", "failed"} /\ \A v \in Writers \ {u} : gw'[v] = gw[v]
  <2>1. PICK pc \in {"done", "failed"} : gw' = [gw EXCEPT ![u].pc = pc]
    BY <1>1 DEF FreezeStocks, Answered
  <2> QED
    BY <1>0, <2>1
<1>4. \A s \in Skus : Active(s)' => Active(s) /\ s \notin gw[u].gone
  BY DEF FreezeStocks, Active
<1>5. row = u /\ write[u].keep = gw[u].keep
  BY <1>0, <1>1 DEF Own, HasTurn, CommitsLast, Committed
<1>6. Own(u)'
  BY <1>1, <1>2, <1>3 DEF Own, HasTurn, CommitsLast, Committed, ReadsAll, FindsAll
<1>7. LastRepairs'
  <2>1. \A s \in Skus : Active(s)' => s \in Wanted(u)
    BY <1>0, <1>1, <1>4, <1>5 DEF Own, FindsAll, Wanted
  <2> QED
    BY <1>1, <1>5, <2>1 DEF LastRepairs, OthersFrozen, Active, Wanted
<1>8. Shared'
  <2>1. LastReplaces'
    BY <1>1 DEF TurnInv, Shared, LastReplaces, Wanted
  <2> QED
    BY <1>1, <1>4, <1>7, <2>1 DEF TurnInv, Shared, Knows, Exists
<1> QED
  BY <1>1, <1>2, <1>3, <1>6, <1>8, TurnKeeps

LEMMA TurnLost ==
  ASSUME TurnInv, UpdateTypes', NEW u \in Writers, CallLost(u)
  PROVE  TurnInv'
<1> USE DEF UpdateTypes, GatewayState
<1>1. gw[u].pc \in {"update", "init", "freeze"} /\ UNCHANGED <<row, sku, cache, read, write, stock>>
  BY DEF CallLost, vars
<1>2. write[u].pc \in {"new", "ended"} /\ u \in Running
  BY <1>1, BetweenCalls
<1>3. gw'[u].pc = "failed" /\ \A v \in Writers \ {u} : gw'[v] = gw[v]
  BY DEF CallLost, TurnInv
<1> QED
  BY <1>1, <1>2, <1>3, TurnFails

\* An entry that expires, or nothing.
LEMMA TurnRests ==
  ASSUME UpdateAssumption, TurnInv, UpdateTypes', UpdateExpire \/ UNCHANGED updateVars
  PROVE  TurnInv'
<1>1. UNCHANGED <<row, sku, read, write, gw, stock>>
  BY DEF UpdateExpire, Expire, updateVars, vars
<1>2. cache'["detail"] \in {None, cache["detail"]}
  BY DEF UpdateExpire, Expire, updateVars, vars, TurnInv, UpdateTypes, CacheTypes, Keys
<1>3. \A s \in Skus : Active(s)' = Active(s) /\ Exists(s)' = Exists(s)
  BY <1>1 DEF Active, Exists
<1>4. \A u \in Writers : Own(u)'
  <2> SUFFICES ASSUME NEW u \in Writers PROVE Own(u)'
    OBVIOUS
  <2>1. Own(u) /\ Fresh[u] \subseteq Skus /\ gw[u].keep \subseteq Skus
    BY DEF TurnInv, UpdateTypes, GatewayState, UpdateAssumption, CatalogAssumption
  <2>2. HasTurn(u)' /\ CommitsLast(u)'
    BY <1>1, <1>3, <2>1 DEF Own, HasTurn, CommitsLast, Committed
  <2>3. ReadsAll(u)' /\ FindsAll(u)'
    BY <1>1, <1>2, <1>3, <2>1 DEF Own, ReadsAll, Knows, FindsAll
  <2> QED
    BY <2>2, <2>3 DEF Own
<1>5. Shared'
  <2>1. LastReplaces' /\ LastRepairs'
    BY <1>1, <1>3
    DEF TurnInv, Shared, LastReplaces, LastRepairs, OthersFrozen, Active, Wanted
  <2>2. cache'["detail"] # None => Knows(cache["detail"])'
    BY <1>2, <1>3 DEF TurnInv, Shared, Knows
  <2> QED
    BY <1>3, <2>1, <2>2 DEF TurnInv, Shared
<1> QED
  BY <1>1, <1>4, <1>5 DEF TurnInv, Running

LEMMA TurnStays ==
  ASSUME UpdateAssumption, InTurn
  PROVE  TurnInv /\ [UpdateNext]_updateVars => TurnInv'
<1> SUFFICES ASSUME TurnInv, [UpdateNext]_updateVars PROVE TurnInv'
  OBVIOUS
<1>1. UpdateTypes'
  BY TypesStay DEF TurnInv
<1>2. ASSUME NEW u \in Writers, Updating(u) PROVE TurnInv'
  BY <1>1, <1>2, TurnCommits, TurnDrops, TurnUnheard DEF Updating, WriteStep
<1>3. ASSUME NEW u \in Writers PROVE ~CallLate(u)
  BY DEF CallLate, InTurn
<1> QED
  BY <1>1, <1>2, <1>3, TurnBegins, TurnReads, TurnCalls, TurnDies, TurnInits, TurnFreezes,
     TurnLost, TurnRests
  DEF UpdateNext

LEMMA TurnInvRepairs == TurnInv => SuccessRepairs /\ UpdateReplaces
BY DEF TurnInv, Shared, LastReplaces, LastRepairs, SuccessRepairs, UpdateReplaces

------------------------------------------------------------------------------
(* Theorems. *)

(* Whatever overlaps, fails or is late, a SKU on sale lacks stock only if another request
   took it out before, or the one that added it failed: the code behind OnSaleHasStock. *)
THEOREM OnSaleIsStocked == UpdateAssumption => (UpdateSpec => []OnSaleHasStock)
<1> SUFFICES ASSUME UpdateAssumption PROVE UpdateSpec => []OnSaleHasStock
  OBVIOUS
<1>1. UpdateInit => StockInv
  BY StockStart
<1>2. StockInv /\ [UpdateNext]_updateVars => StockInv'
  BY StockStays
<1> QED
  BY <1>1, <1>2, StockInvOnSale, PTL DEF UpdateSpec

(* Updates one after another, no call late and no delete of the cache failing: one that
   succeeds leaves no stock to sell of a SKU that it does not name (SuccessRepairs), and
   on sale is what the last one gave that status (UpdateReplaces). *)
THEOREM TurnsRepair ==
  UpdateAssumption /\ InTurn => (UpdateSpec => [](SuccessRepairs /\ UpdateReplaces))
<1> SUFFICES ASSUME UpdateAssumption, InTurn
             PROVE  UpdateSpec => [](SuccessRepairs /\ UpdateReplaces)
  OBVIOUS
<1>1. UpdateInit => TurnInv
  BY TurnStart
<1>2. TurnInv /\ [UpdateNext]_updateVars => TurnInv'
  BY TurnStays
<1> QED
  BY <1>1, <1>2, TurnInvRepairs, PTL DEF UpdateSpec
==============================================================================
