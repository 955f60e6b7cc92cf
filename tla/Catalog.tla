-------------------------------- MODULE Catalog --------------------------------
(***************************************************************************)
(* The product service around one product: its rows in MySQL, the          *)
(* transactions that update them, and the cache-aside reads in Redis.  A   *)
(* reader looks a key up, loads what it misses and stores it; a writer     *)
(* commits and then deletes keys.  Nothing orders the two.                 *)
(*                                                                         *)
(* A row shows its content by the writer that wrote it last.  The product  *)
(* and its SKUs are loaded by two statements.                              *)
(***************************************************************************)
EXTENDS Integers, FiniteSets

CONSTANTS
  Skus,
  Initial,      \* SKUs the product has at first
  Writers,      \* UpdateProduct and ChangeProductStatus requests
  Fresh,        \* Fresh[w]: the ids generated for the SKUs that w adds
  OffSale,      \* OffSale[w]: the SKUs that w, if it names them, gives the status 0
  Readers,      \* threads that read, again and again
  ReadKeys,     \* what they read
  MayOverlap,   \* TRUE: writers overlap each other and readers
  Faults,
  None

Keys == {"detail", "list"} \cup Skus

CatalogAssumption ==
  /\ Initial \subseteq Skus /\ ReadKeys \subseteq Keys
  /\ {"detail", "list"} \cap Skus = {}
  /\ None \notin Writers
  /\ MayOverlap \in BOOLEAN
  /\ \A w \in Writers :
       /\ Fresh[w] \subseteq Skus \ Initial /\ OffSale[w] \subseteq Skus
       /\ \A v \in Writers \ {w} : Fresh[w] \cap Fresh[v] = {}

VARIABLES
  row,      \* the writer of the product's row
  sku,      \* sku[s]: status and writer of the SKU's row
  cache,    \* cache[k]: what Redis holds under key k
  read,     \* read[r]: where reader r stands, its key, what it has loaded
  write,    \* write[w]: where writer w stands, its SKUs, those it found
  cause     \* cause[k]: why the entry may be old (history)

rows == <<row, sku>>
vars == <<row, sku, cache, read, write, cause>>

NotReading == [pc |-> "idle", key |-> "detail", row |-> None, got |-> None]
NoSku == [status |-> "none", by |-> None]

Init ==
  /\ row = None
  /\ sku = [s \in Skus |-> IF s \in Initial THEN [status |-> "on", by |-> None] ELSE NoSku]
  /\ cache = [k \in Keys |-> None]
  /\ read = [r \in Readers |-> NotReading]
  /\ write = [w \in Writers |-> [pc |-> "new", keep |-> {}, found |-> {}]]
  /\ cause = [k \in Keys |-> {}]

\* What the database says under key k.
View(k) == IF k \in Skus THEN sku[k] ELSE [row |-> row, skus |-> sku]

Reading == {r \in Readers : read[r].pc # "idle"}
Writing == {w \in Writers : write[w].pc \notin {"new", "ended"}}

------------------------------------------------------------------------------
(* Readers: GetProductDetail, ListProducts, BatchGetProducts, BatchGetSKU. *)

StartRead(r, k) ==
  /\ read[r].pc = "idle"
  /\ MayOverlap \/ Writing = {}
  /\ read' = [read EXCEPT ![r] = [pc |-> "lookup", key |-> k, row |-> None, got |-> None]]
  /\ UNCHANGED <<row, sku, cache, write, cause>>

\* A lookup that fails is a miss.
Lookup(r) ==
  LET k == read[r].key
      miss == [read EXCEPT ![r].pc = IF k \in Skus THEN "skus" ELSE "row"]
  IN
  /\ read[r].pc = "lookup"
  /\ \/ cache[k] # None /\ read' = [read EXCEPT ![r] = NotReading]
     \/ cache[k] = None /\ read' = miss
     \/ "redis_error" \in Faults /\ read' = miss
  /\ UNCHANGED <<row, sku, cache, write, cause>>

LoadRow(r) ==
  /\ read[r].pc = "row"
  /\ read' = [read EXCEPT ![r].pc = "skus", ![r].row = row]
  /\ UNCHANGED <<row, sku, cache, write, cause>>

\* A SKU that is not there is an error, and is not cached.
LoadSkus(r) ==
  LET k == read[r].key
      seen == IF k \in Skus THEN sku[k] ELSE [row |-> read[r].row, skus |-> sku]
  IN
  /\ read[r].pc = "skus"
  /\ read' = [read EXCEPT ![r] = IF seen = NoSku THEN NotReading
                                 ELSE [@ EXCEPT !.pc = "store", !.row = None, !.got = seen]]
  /\ UNCHANGED <<row, sku, cache, write, cause>>

Store(r) ==
  LET k == read[r].key IN
  /\ read[r].pc = "store"
  /\ \/ /\ cache' = [cache EXCEPT ![k] = read[r].got]
        /\ cause' = [cause EXCEPT ![k] = IF read[r].got = View(k) THEN {} ELSE {"late"}]
     \/ "redis_error" \in Faults /\ UNCHANGED <<cache, cause>>
  /\ read' = [read EXCEPT ![r] = NotReading]
  /\ UNCHANGED <<row, sku, write>>

\* Mutant: entries are stored without a time to live.
ExpireNever(k) == FALSE /\ UNCHANGED vars

\* The time to live of an entry is over.
Expire(k) ==
  /\ cache[k] # None
  /\ cache' = [cache EXCEPT ![k] = None]
  /\ cause' = [cause EXCEPT ![k] = {}]
  /\ UNCHANGED <<row, sku, read, write>>

------------------------------------------------------------------------------
(* Writers. *)

MayWrite == MayOverlap \/ (Writing = {} /\ Reading = {})

\* Update begins: its first SELECT fixes the snapshot in which it will look for the SKUs.
BeginUpdate(w, keep) ==
  /\ write[w].pc = "new" /\ MayWrite
  /\ keep \cup Fresh[w] # {}
  /\ write' = [write EXCEPT ![w] =
       [pc |-> "commit", keep |-> keep, found |-> {s \in Skus : sku[s].status # "none"}]]
  /\ UNCHANGED <<row, sku, cache, read, cause>>

Wanted(w) == write[w].keep \cup Fresh[w]
Removed(w) == write[w].found \ Wanted(w)

\* Mutant: a SKU that the request names goes on sale, whatever status it has there.
AlwaysOn(w, s) == "on"

\* The status a request gives a SKU that it names.
StatusOf(w, s) == IF s \in OffSale[w] THEN "off" ELSE "on"

(* The row lock of the product orders the transactions from here on; the SKUs found are
   those of the snapshot.  Each SKU that the request names, old or new, gets the status it
   has there, the others of those found go off sale.  An id that is not among them rolls
   everything back. *)
CommitUpdate(w) ==
  /\ write[w].pc = "commit"
  /\ IF write[w].keep \subseteq write[w].found
     THEN /\ row' = w
          /\ sku' = [s \in Skus |->
               CASE s \in Wanted(w) -> [status |-> StatusOf(w, s), by |-> w]
                 [] s \in Removed(w) -> [sku[s] EXCEPT !.status = "off"]
                 [] OTHER -> sku[s]]
          /\ cause' = [k \in Keys |->
               IF k \in Removed(w) /\ cache[k] # None THEN cause[k] \cup {"removed"} ELSE cause[k]]
          /\ write' = [write EXCEPT ![w].pc = "detail"]
     ELSE /\ write' = [write EXCEPT ![w].pc = "ended"]
          /\ UNCHANGED <<row, sku, cause>>
  /\ UNCHANGED <<cache, read>>

ChangeStatus(w) ==
  /\ write[w].pc = "new" /\ MayWrite
  /\ Fresh[w] = {}
  /\ row' = w
  /\ write' = [write EXCEPT ![w].pc = "detail"]
  /\ UNCHANGED <<sku, cache, read, cause>>

\* The keys that the next delete of invalidateProductCache is about.
KeysAt(w) ==
  CASE write[w].pc = "detail" -> {"detail"}
    [] write[w].pc = "skus" -> Wanted(w)
    [] write[w].pc = "lists" -> {"list"}
    [] OTHER -> {}

\* Mutant: lists are left to expire.
AfterWithoutLists(pc) == IF pc = "detail" THEN "skus" ELSE "ended"

After(pc) ==
  CASE pc = "detail" -> "skus" [] pc = "skus" -> "lists" [] pc = "lists" -> "ended"

\* A delete that fails is logged only.
Drop(w) ==
  /\ write[w].pc \in {"detail", "skus", "lists"}
  /\ \/ /\ cache' = [k \in Keys |-> IF k \in KeysAt(w) THEN None ELSE cache[k]]
        /\ cause' = [k \in Keys |-> IF k \in KeysAt(w) THEN {} ELSE cause[k]]
     \/ /\ "redis_error" \in Faults
        /\ cause' = [k \in Keys |-> IF k \in KeysAt(w) THEN cause[k] \cup {"failed"} ELSE cause[k]]
        /\ UNCHANGED cache
  /\ write' = [write EXCEPT ![w].pc = After(write[w].pc)]
  /\ UNCHANGED <<row, sku, read>>

\* Writer w has still to delete key k.
ToDrop(w, k) ==
  LET pc == write[w].pc IN
  \/ k = "detail" /\ pc = "detail"
  \/ k \in Wanted(w) /\ pc \in {"detail", "skus"}
  \/ k = "list" /\ pc \in {"detail", "skus", "lists"}

\* The process dies, before its commit or between two deletes.
WriterCrash(w) ==
  /\ "crash" \in Faults
  /\ w \in Writing
  /\ cause' = [k \in Keys |-> IF ToDrop(w, k) THEN cause[k] \cup {"failed"} ELSE cause[k]]
  /\ write' = [write EXCEPT ![w].pc = "ended"]
  /\ UNCHANGED <<row, sku, cache, read>>

------------------------------------------------------------------------------
ReadStep(r) == Lookup(r) \/ LoadRow(r) \/ LoadSkus(r) \/ Store(r)
WriteStep(w) == CommitUpdate(w) \/ Drop(w)

Next ==
  \/ \E r \in Readers : ReadStep(r) \/ \E k \in ReadKeys : StartRead(r, k)
  \/ \E w \in Writers :
       \/ WriteStep(w) \/ ChangeStatus(w) \/ WriterCrash(w)
       \/ \E keep \in SUBSET Skus : BeginUpdate(w, keep)
  \/ \E k \in Keys : Expire(k)

Spec == Init /\ [][Next]_vars

(* Requests that run go on running, and Redis drops what has expired.  Nobody has to send
   a request. *)
FairSpec ==
  /\ Spec
  /\ \A r \in Readers : WF_vars(ReadStep(r))
  /\ \A w \in Writers : WF_vars(WriteStep(w))
  /\ \A k \in Keys : WF_vars(Expire(k))

------------------------------------------------------------------------------
(* Properties. *)

SkuRow == {NoSku} \cup [status : {"on", "off"}, by : Writers \cup {None}]
ProductView == [row : Writers \cup {None}, skus : [Skus -> SkuRow]]
Entry(k) == IF k \in Skus THEN SkuRow \ {NoSku} ELSE ProductView

\* The type of every variable.
TypeOK ==
  /\ row \in Writers \cup {None}
  /\ sku \in [Skus -> SkuRow]
  /\ \A k \in Keys : cache[k] = None \/ cache[k] \in Entry(k)
  /\ \A r \in Readers :
       /\ read[r].pc \in {"idle", "lookup", "row", "skus", "store"}
       /\ read[r].key \in Keys /\ read[r].row \in Writers \cup {None}
       /\ read[r].got = None \/ read[r].got \in Entry(read[r].key)
  /\ write \in [Writers -> [pc : {"new", "commit", "detail", "skus", "lists", "ended"},
                            keep : SUBSET Skus, found : SUBSET Skus]]
  /\ cause \in [Keys -> SUBSET {"late", "failed", "removed"}]

(* An old entry has one of four reasons: a writer is about to delete it, a delete failed,
   a reader stored it after the row had changed, or it is a SKU an update took out. *)
StaleExplained ==
  \A k \in Keys :
    cache[k] \notin {None, View(k)} => cause[k] # {} \/ \E w \in Writers : ToDrop(w, k)

Settled == Writing = {} /\ Reading = {}

\* Once the writes are over, the entries become what the database says and stay so.
Healed == <>[](\A k \in Keys : cache[k] \in {None, View(k)})

(* Documented: a change of the product deletes what is cached of it.  (For requests that do
   not overlap.)
   The code does not keep it (README, section 3). *)
ChangesDropOld == Settled => \A k \in Keys : cache[k] \in {None, View(k)}

(* Documented: a SKU that the request does not name is taken off sale, so after the last
   update the SKUs on sale are the ones it gave that status.
   The code does not keep it (README, section 3). *)
UpdateReplaces ==
  Writing = {} /\ row # None /\ Wanted(row) # {} =>
    \A s \in Skus : sku[s].status = "on" <=> s \in Wanted(row) \ OffSale[row]
==============================================================================
