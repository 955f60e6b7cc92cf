---------------------------------- MODULE Cart ----------------------------------
(***************************************************************************)
(* The cart service, for one user.  Adding and updating read the row and   *)
(* write it in a transaction whose reads all see the snapshot of the       *)
(* first; deletes are single statements.  An error is answered when the    *)
(* database refuses, and also when what it did is not acknowledged in      *)
(* time: the change is there then.  A request ends in the model when the   *)
(* database is done with it.                                               *)
(*                                                                         *)
(* The id of a row is the request that created it.                         *)
(***************************************************************************)
EXTENDS Integers, FiniteSets

CONSTANTS
  Skus,
  Requests,     \* each is made once
  Kinds,        \* the kinds of requests that are made
  Quantities,   \* the quantities in them
  Top,          \* the largest quantity a row can hold: 2^31 - 1 in the code
  MayOverlap,   \* FALSE: one request at a time
  None

CartAssumption ==
  /\ None \notin Requests
  /\ Kinds \subseteq {"add", "set", "remove", "clear"}
  /\ Top \in Nat \ {0} /\ Quantities \subseteq 1 .. Top
  /\ MayOverlap \in BOOLEAN

VARIABLES
  item,     \* item[k]: the row of SKU k
  call,     \* call[r]: where request r stands, what it asks, what it has seen
  gone      \* ids of rows that were deleted (history)

vars == <<item, call, gone>>

NoItem == [id |-> None, quantity |-> 0]
New == [pc |-> "new", kind |-> "none", sku |-> None, quantity |-> 0, seen |-> NoItem]

Init ==
  /\ item = [k \in Skus |-> NoItem]
  /\ call = [r \in Requests |-> New]
  /\ gone = {}

\* The sum of two 32-bit integers.
Wrap(n) == IF n > Top THEN n - 2 * (Top + 1) ELSE n

\* The request has had its effect; the answer tells so, or it is lost and an error.
Effective == {"ok", "lost"}

Running == {r \in Requests : call[r].pc = "running"}
MayStart(r) == call[r].pc = "new" /\ (MayOverlap \/ Running = {})
Asks(r, kind, k, q) == [New EXCEPT !.kind = kind, !.sku = k, !.quantity = q]

\* AddOrAccumulate: the row is read.
Add(r, k, q) ==
  /\ "add" \in Kinds /\ MayStart(r)
  /\ call' = [call EXCEPT ![r] = [Asks(r, "add", k, q) EXCEPT !.pc = "running", !.seen = item[k]]]
  /\ UNCHANGED <<item, gone>>

\* AddOrAccumulate: the first of the SKU is inserted, unless another one came first.
Create(r) ==
  LET k == call[r].sku IN
  /\ call[r].pc = "running" /\ call[r].kind = "add" /\ call[r].seen = NoItem
  /\ IF item[k] = NoItem
     THEN /\ item' = [item EXCEPT ![k] = [id |-> r, quantity |-> call[r].quantity]]
          /\ \E done \in Effective : call' = [call EXCEPT ![r].pc = done]
     ELSE /\ call' = [call EXCEPT ![r].pc = "error"]
          /\ UNCHANGED item
  /\ UNCHANGED gone

\* Mutant: the quantity of an add replaces the one there is.
WrittenOver(r) == call[r].quantity

\* What an add or an update writes over the row it has seen.
Written(r) ==
  IF call[r].kind = "add" THEN Wrap(call[r].seen.quantity + call[r].quantity)
  ELSE call[r].quantity

\* Mutant: the row is saved as a whole, and inserted where it is gone.
WriteBack(r) ==
  LET k == call[r].sku IN
  /\ call[r].pc = "running" /\ call[r].seen # NoItem
  /\ item' = [item EXCEPT ![k] = [id |-> call[r].seen.id, quantity |-> Written(r)]]
  /\ \E done \in Effective : call' = [call EXCEPT ![r].pc = done]
  /\ UNCHANGED gone

(* AddOrAccumulate and UpdateByID: the row is written by its id.  If it is gone nothing is,
   and the answer is made of the row the snapshot still shows. *)
Write(r) ==
  LET k == call[r].sku IN
  /\ call[r].pc = "running" /\ call[r].seen # NoItem
  /\ item' = IF item[k].id = call[r].seen.id
             THEN [item EXCEPT ![k].quantity = Written(r)] ELSE item
  /\ \E done \in Effective : call' = [call EXCEPT ![r].pc = done]
  /\ UNCHANGED gone

\* UpdateByID: the row is read.
Set(r, k, q) ==
  /\ "set" \in Kinds /\ MayStart(r)
  /\ call' = [call EXCEPT ![r] =
       [Asks(r, "set", k, q) EXCEPT !.pc = IF item[k] = NoItem THEN "error" ELSE "running",
                                    !.seen = item[k]]]
  /\ UNCHANGED <<item, gone>>

\* DeleteByID
Remove(r, k) ==
  /\ "remove" \in Kinds /\ MayStart(r)
  /\ \E pc \in IF item[k] = NoItem THEN {"error"} ELSE Effective :
       call' = [call EXCEPT ![r] = [Asks(r, "remove", k, 0) EXCEPT !.pc = pc]]
  /\ gone' = gone \cup ({item[k].id} \ {None})
  /\ item' = [item EXCEPT ![k] = NoItem]

\* ClearByUserID
Clear(r) ==
  /\ "clear" \in Kinds /\ MayStart(r)
  /\ \E done \in Effective : call' = [call EXCEPT ![r] = [Asks(r, "clear", None, 0) EXCEPT !.pc = done]]
  /\ gone' = gone \cup ({item[k].id : k \in Skus} \ {None})
  /\ item' = [k \in Skus |-> NoItem]

\* The database refuses or is not reached: a transaction rolls back, a DELETE does nothing.
Fails(r) ==
  /\ call[r].pc = "running" \/ MayStart(r)
  /\ call' = [call EXCEPT ![r].pc = "error"]
  /\ UNCHANGED <<item, gone>>

Next ==
  \E r \in Requests :
    \/ \E k \in Skus : Remove(r, k) \/ \E q \in Quantities : Add(r, k, q) \/ Set(r, k, q)
    \/ Create(r) \/ Write(r) \/ Clear(r) \/ Fails(r)

Spec == Init /\ [][Next]_vars

------------------------------------------------------------------------------
(* Properties. *)

\* The type of every variable.
TypeOK ==
  /\ item \in [Skus -> [id : Requests \cup {None}, quantity : -(Top + 1) .. Top]]
  /\ call \in [Requests -> [pc : {"new", "running", "ok", "lost", "error"},
                            kind : {"none", "add", "set", "remove", "clear"},
                            sku : Skus \cup {None}, quantity : Quantities \cup {0},
                            seen : [id : Requests \cup {None}, quantity : -(Top + 1) .. Top]]]
  /\ gone \subseteq Requests

Adds(k) == {r \in Requests : call[r].kind = "add" /\ call[r].sku = k /\ call[r].pc \in Effective}
Sets(k) == {r \in Requests : call[r].kind = "set" /\ call[r].sku = k /\ call[r].pc \in Effective}

\* What the requests of R ask for in all: each of their units, counted.
Sum(R) == Cardinality(UNION {{r} \X (1 .. call[r].quantity) : r \in R})

(* Overlapping requests may lose an addition, but the cart never holds more than what was
   put in and set by requests that had their effect, whatever they were answered, also when
   sums wrap around. *)
NeverMore == \A k \in Skus : item[k].quantity <= Sum(Adds(k)) + Sum(Sets(k))

\* A row that was removed never comes back: a later add makes a new one.
RemovedStaysRemoved == \A k \in Skus : item[k].id \notin gone

(* Requests one after the other change the cart as they are documented to, once and as a
   whole or not at all: an add adds, an update replaces, a removal takes out; an error may be
   the answer to a request that did its work. *)
Book == INSTANCE CartBook WITH
  quantity <- [k \in Skus |-> item[k].quantity],
  served <- [r \in Requests |->
    IF call[r].pc \in Effective THEN <<call[r].kind, call[r].sku, call[r].quantity>> ELSE None]
ActsAsBook == Book!CartBookSpec

\* Documented: adding the same SKU again adds up the quantities.  (For requests that only add.)
\* The code does not keep it (README, section 3).
AddsAccumulate == \A k \in Skus : Running = {} => item[k].quantity = Sum(Adds(k))

\* Documented: a quantity is greater than zero.
\* The code does not keep it (README, section 3).
QuantityPositive == \A k \in Skus : item[k] # NoItem => item[k].quantity > 0
==============================================================================
