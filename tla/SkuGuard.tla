-------------------------------- MODULE SkuGuard --------------------------------
(***************************************************************************)
(* The guard of the inventory service that bounds how many reservations    *)
(* are at one SKU (sku_guard.go): a buffered channel of capacity limit per *)
(* SKU, made when it is first needed, and a request that sends to the      *)
(* channels of its SKUs in ascending order, gives back what it has when    *)
(* its context ends while it waits, and receives from all of them when its *)
(* reservation is over.                                                    *)
(*                                                                         *)
(* A channel is named by its SKU and the request that made it: two         *)
(* requests that find none both make one, and one of the two is stored.    *)
(***************************************************************************)
EXTENDS Integers, FiniteSets

CONSTANTS
  Requests,    \* goroutines that serve ReserveSkuStocks, one call after another
  Skus,        \* SKU ids
  Limit,       \* capacity of a channel; the guard is off when it is 0
  MayCancel,   \* contexts may end while a request waits
  None

ASSUME SkuGuardAssumption ==
  /\ IsFiniteSet(Requests) /\ None \notin Requests
  /\ Skus \subseteq Nat
  /\ Limit \in Nat \ {0} /\ MayCancel \in BOOLEAN

Channels == Skus \X Requests

VARIABLES
  stored,   \* stored[s]: the maker of the channel stored for s
  buf,      \* buf[c]: how many slots of channel c are taken
  req       \* req[r]: [pc, want, todo, held, ch]

vars == <<stored, buf, req>>

NoChannel == <<None, None>>
Idle == [pc |-> "idle", want |-> {}, todo |-> {}, held |-> {}, ch |-> NoChannel]

Init ==
  /\ stored = [s \in Skus |-> None]
  /\ buf = [c \in Channels |-> 0]
  /\ req = [r \in Requests |-> Idle]

At(r, pc) == req[r].pc = pc

\* dedupeSortedSKUIDs: the SKUs of the request, each once, in ascending order.
First(r) == {s \in req[r].todo : \A t \in req[r].todo : s <= t}

Acquire(r) ==
  /\ At(r, "idle")
  /\ \E S \in SUBSET Skus \ {{}} :
       req' = [req EXCEPT ![r] =
                 [pc |-> "load", want |-> S, todo |-> S, held |-> {}, ch |-> NoChannel]]
  /\ UNCHANGED <<stored, buf>>

Load(r) ==
  /\ At(r, "load")
  /\ \E s \in First(r) :
       req' = [req EXCEPT ![r] =
                 IF stored[s] = None THEN [@ EXCEPT !.pc = "store", !.ch = <<s, r>>]
                 ELSE [@ EXCEPT !.pc = "send", !.ch = <<s, stored[s]>>]]
  /\ UNCHANGED <<stored, buf>>

\* Mutant: Store instead of LoadOrStore.
StoreOver(r) ==
  /\ At(r, "store")
  /\ stored' = [stored EXCEPT ![req[r].ch[1]] = r]
  /\ req' = [req EXCEPT ![r].pc = "send"]
  /\ UNCHANGED buf

\* LoadOrStore: the channel of the request that came first is the one that is used.
LoadOrStore(r) ==
  LET s == req[r].ch[1] IN
  /\ At(r, "store")
  /\ IF stored[s] = None
     THEN /\ stored' = [stored EXCEPT ![s] = r]
          /\ req' = [req EXCEPT ![r].pc = "send"]
     ELSE /\ req' = [req EXCEPT ![r].pc = "send", ![r].ch = <<s, stored[s]>>]
          /\ UNCHANGED stored
  /\ UNCHANGED buf

Room(c) == buf[c] < Limit

\* Mutant: a full channel is polled, not waited for.
SendPolling(r) ==
  LET c == req[r].ch
      rest == req[r].todo \ {c[1]}
  IN
  /\ At(r, "send")
  /\ IF Room(c)
     THEN /\ buf' = [buf EXCEPT ![c] = @ + 1]
          /\ req' = [req EXCEPT ![r] =
                       [@ EXCEPT !.pc = IF rest = {} THEN "critical" ELSE "load",
                                 !.todo = rest, !.held = req[r].held \cup {c}]]
     ELSE req' = [req EXCEPT ![r].pc = "load"] /\ UNCHANGED buf
  /\ UNCHANGED stored

Send(r) ==
  LET c == req[r].ch
      rest == req[r].todo \ {c[1]}
  IN
  /\ At(r, "send") /\ Room(c)
  /\ buf' = [buf EXCEPT ![c] = @ + 1]
  /\ req' = [req EXCEPT ![r] =
               [@ EXCEPT !.pc = IF rest = {} THEN "critical" ELSE "load",
                         !.todo = rest, !.held = req[r].held \cup {c}]]
  /\ UNCHANGED stored

\* Mutant: what was acquired is kept when the context ends.
CancelKeeps(r) ==
  /\ MayCancel /\ At(r, "send")
  /\ req' = [req EXCEPT ![r] = Idle]
  /\ UNCHANGED <<stored, buf>>

\* The context ends while the request waits for a channel.
Cancel(r) ==
  /\ MayCancel /\ At(r, "send")
  /\ req' = [req EXCEPT ![r].pc = "release"]
  /\ UNCHANGED <<stored, buf>>

\* The reservation is over, whatever its outcome: the deferred release runs.
Leave(r) ==
  /\ At(r, "critical")
  /\ req' = [req EXCEPT ![r].pc = "release"]
  /\ UNCHANGED <<stored, buf>>

\* Channels are received from in the reverse order.
Release(r) ==
  /\ At(r, "release")
  /\ \/ /\ req[r].held = {}
        /\ req' = [req EXCEPT ![r] = Idle]
        /\ UNCHANGED buf
     \/ \E c \in req[r].held :
          /\ \A d \in req[r].held : d[1] <= c[1]
          /\ buf' = [buf EXCEPT ![c] = @ - 1]
          /\ req' = [req EXCEPT ![r].held = @ \ {c}]
  /\ UNCHANGED stored

Proceed(r) == Load(r) \/ LoadOrStore(r) \/ Leave(r) \/ Release(r)

Next == \E r \in Requests : Acquire(r) \/ Proceed(r) \/ Send(r) \/ Cancel(r)

Spec == Init /\ [][Next]_vars

(* Goroutines run.  Of those that wait to send to a channel, the runtime serves the one
   that came first, so a request is not passed over for ever. *)
FairSpec == Spec /\ \A r \in Requests : WF_vars(Proceed(r)) /\ SF_vars(Send(r))

------------------------------------------------------------------------------
(* Properties. *)

Holders(c) == {r \in Requests : c \in req[r].held}

\* The type of every variable.
TypeOK ==
  /\ stored \in [Skus -> Requests \cup {None}]
  /\ buf \in [Channels -> 0 .. Limit]
  /\ req \in [Requests -> [pc : {"idle", "load", "store", "send", "critical", "release"},
                           want : SUBSET Skus, todo : SUBSET Skus,
                           held : SUBSET Channels, ch : Channels \cup {NoChannel}]]

Reserving(s) == {r \in Requests : At(r, "critical") /\ s \in req[r].want}

(* However requests overlap, wait and give up, and whoever makes the channel of a SKU,
   at most Limit reservations work on the SKU at a time. *)
AtMostLimit == \A s \in Skus : Cardinality(Reserving(s)) <= Limit

(* No slot is lost and none is given back twice: what is taken of a channel is what the
   requests hold of it. *)
NoLeak == \A c \in Channels : buf[c] = Cardinality(Holders(c))

(* While no context ends, a request that waits gets its reservation. *)
Served == \A r \in Requests : At(r, "send") ~> At(r, "critical")
==============================================================================
