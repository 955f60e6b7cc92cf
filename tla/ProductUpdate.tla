----------------------------- MODULE ProductUpdate -----------------------------
(***************************************************************************)
(* The gateway's update of a product, over the product service of Catalog: *)
(* it reads the detail, has the product updated, creates stock for the     *)
(* SKUs that are new and freezes the stock of the SKUs that are gone.      *)
(* Which ones are gone it takes from the detail it read first.             *)
(*                                                                         *)
(* Request u is writer u of Catalog and reads the detail as reader u.      *)
(***************************************************************************)
EXTENDS Catalog

UpdateAssumption == CatalogAssumption /\ Readers = Writers

VARIABLES
  gw,       \* gw[u]: where request u stands, the SKUs it keeps, those it found gone
  stock     \* stock[s]: the stock row of SKU s in the inventory service

updateVars == <<vars, gw, stock>>

OneAtATime == ~MayOverlap

UpdateInit ==
  /\ Init
  /\ gw = [u \in Writers |-> [pc |-> "new", keep |-> {}, gone |-> {}]]
  /\ stock = [s \in Skus |-> IF s \in Initial THEN "active" ELSE "none"]

Running == {u \in Writers : gw[u].pc \notin {"new", "done", "failed"}}

\* The request comes; the product's detail is asked for.
Update(u, keep) ==
  /\ gw[u].pc = "new"
  /\ OneAtATime => Running = {}
  /\ keep \cup Fresh[u] # {}
  /\ StartRead(u, "detail")
  /\ gw' = [gw EXCEPT ![u].pc = "detail", ![u].keep = keep]
  /\ UNCHANGED stock

\* What the detail that u is about to have names beyond the request.
Gone(u) ==
  LET detail == IF read[u].pc = "lookup" THEN cache["detail"] ELSE read[u].got
  IN  {s \in Skus : detail.skus[s].status # "none"} \ gw[u].keep

ReadDetail(u) ==
  /\ gw[u].pc = "detail"
  /\ ReadStep(u)
  /\ gw' = IF read'[u].pc = "idle"
           THEN [gw EXCEPT ![u].pc = "update", ![u].gone = Gone(u)] ELSE gw
  /\ UNCHANGED stock

CallUpdate(u) ==
  /\ gw[u].pc = "update"
  /\ BeginUpdate(u, gw[u].keep)
  /\ gw' = [gw EXCEPT ![u].pc = "updating"]
  /\ UNCHANGED stock

\* Where a request may go when its call did what it should: the answer may be lost.
Answered(next) == {next} \cup (IF "lost" \in Faults THEN {"failed"} ELSE {})

\* The product service goes on; what it answers at the end is an error if it rolled back.
Updating(u) ==
  /\ WriteStep(u)
  /\ IF gw[u].pc = "updating" /\ write'[u].pc = "ended"
     THEN \E pc \in IF write[u].pc = "commit" THEN {"failed"} ELSE Answered("init") :
            gw' = [gw EXCEPT ![u].pc = pc]
     ELSE UNCHANGED gw
  /\ UNCHANGED stock

\* The product service dies: the call fails, whatever was committed.
UpdateDies(u) ==
  /\ WriterCrash(u)
  /\ gw' = IF gw[u].pc = "updating" THEN [gw EXCEPT ![u].pc = "failed"] ELSE gw
  /\ UNCHANGED stock

\* InitSkuStocks: all the rows, or an error when there is one already.
InitStocks(u) ==
  /\ gw[u].pc \in {"init", "init late"}
  /\ IF \A s \in Fresh[u] : stock[s] = "none"
     THEN /\ stock' = [s \in Skus |-> IF s \in Fresh[u] THEN "active" ELSE stock[s]]
          /\ \E pc \in IF gw[u].pc = "init" THEN Answered("freeze") ELSE {"failed"} :
               gw' = [gw EXCEPT ![u].pc = pc]
     ELSE /\ gw' = [gw EXCEPT ![u].pc = "failed"]
          /\ UNCHANGED stock
  /\ UNCHANGED vars

\* Mutant: the first row that is missing ends the loop over the ids.
FreezeNone(u) ==
  /\ gw[u].pc \in {"freeze", "freeze late"}
  /\ stock' = [s \in Skus |-> IF s \in gw[u].gone /\ \A z \in gw[u].gone : stock[z] # "none"
                             THEN "frozen" ELSE stock[s]]
  /\ \E pc \in IF gw[u].pc = "freeze" THEN Answered("done") ELSE {"failed"} :
       gw' = [gw EXCEPT ![u].pc = pc]
  /\ UNCHANGED vars

\* FreezeSkuStocks: the rows that exist, an id without a row is passed over.
FreezeStocks(u) ==
  /\ gw[u].pc \in {"freeze", "freeze late"}
  /\ stock' = [s \in Skus |-> IF s \in gw[u].gone /\ stock[s] # "none" THEN "frozen" ELSE stock[s]]
  /\ \E pc \in IF gw[u].pc = "freeze" THEN Answered("done") ELSE {"failed"} :
       gw' = [gw EXCEPT ![u].pc = pc]
  /\ UNCHANGED vars

\* A call that never arrives, or is refused, ends the request.
CallLost(u) ==
  /\ "lost" \in Faults
  /\ gw[u].pc \in {"update", "init", "freeze"}
  /\ gw' = [gw EXCEPT ![u].pc = "failed"]
  /\ UNCHANGED <<vars, stock>>

\* The gateway stops waiting for a call, which goes on.
CallLate(u) ==
  /\ "late" \in Faults
  /\ gw[u].pc \in {"updating", "init", "freeze"}
  /\ gw' = [gw EXCEPT ![u].pc = CASE @ = "updating" -> "failed"
                                  [] @ = "init" -> "init late"
                                  [] @ = "freeze" -> "freeze late"]
  /\ UNCHANGED <<vars, stock>>

UpdateExpire == \E k \in Keys : Expire(k) /\ UNCHANGED <<gw, stock>>

UpdateNext ==
  \/ \E u \in Writers :
       \/ \E keep \in SUBSET Skus : Update(u, keep)
       \/ ReadDetail(u) \/ CallUpdate(u) \/ Updating(u) \/ UpdateDies(u)
       \/ InitStocks(u) \/ FreezeStocks(u) \/ CallLost(u) \/ CallLate(u)
  \/ UpdateExpire

UpdateSpec == UpdateInit /\ [][UpdateNext]_updateVars

------------------------------------------------------------------------------
(* Properties. *)

\* Nothing runs any more, nor will a call arrive late.
Over == Running = {} /\ Writing = {} /\ Reading = {}

\* Only SKUs that the last update names have stock to sell.
OthersFrozen == \A s \in Skus : stock[s] = "active" => s \in Wanted(row)

(* Documented: the stock of a SKU that an update takes out is frozen, here as long as every
   update of it succeeds.
   The code does not keep it (README, section 3). *)
RemovedIsFrozen ==
  Over /\ row # None /\ (\A u \in Writers : gw[u].pc # "failed") => OthersFrozen

(* An update that succeeds also makes good what earlier ones left undone: afterwards no SKU
   that it does not name has stock to sell.  (For requests one after the other, none of
   whose calls arrives late.)  A SKU that it names with the status off keeps its stock. *)
SuccessRepairs ==
  row # None /\ gw[row].pc = "done" /\ Over => OthersFrozen

(* A SKU on sale lacks stock to sell only if another request took it out before, or the one
   that added it failed on the way. *)
OnSaleHasStock ==
  Over => \A s \in Skus : sku[s].status = "on" /\ stock[s] # "active" =>
    \E u \in Writers :
      \/ s \in gw[u].gone \ gw[u].keep
      \/ s \in Fresh[u] /\ gw[u].pc = "failed"
==============================================================================
