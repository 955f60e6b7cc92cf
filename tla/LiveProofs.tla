----------------------------- MODULE LiveProofs -----------------------------
(* Theorems about SkuGuard, for any requests, SKUs and limit, and about the shutdown of a
   process as it is instantiated in MCLive, for any calls. *)
EXTENDS MCLive, FiniteSetTheorems, TLAPS

\* What a request waits for or holds is the channel that is stored for the SKU.
Shape(r) ==
  /\ At(r, "store") => /\ req[r].ch \in Channels /\ req[r].ch[1] \in req[r].todo
                       /\ req[r].ch[2] = r
  /\ At(r, "send") => /\ req[r].ch \in Channels /\ req[r].ch[1] \in req[r].todo
                      /\ stored[req[r].ch[1]] = req[r].ch[2]
  /\ \A c \in req[r].held : c[1] \notin req[r].todo /\ stored[c[1]] = c[2]
  /\ At(r, "idle") => req[r].held = {}
  /\ At(r, "critical") => req[r].todo = {}
  /\ req[r].pc \in {"load", "store", "send", "critical"} =>
       \A s \in req[r].want \ req[r].todo : \E c \in req[r].held : c[1] = s

SlotInv == TypeOK /\ NoLeak /\ \A r \in Requests : Shape(r)

LEMMA HoldersFinite == \A c : IsFiniteSet(Holders(c)) /\ Cardinality(Holders(c)) \in Nat
<1> TAKE c
<1>1. Holders(c) \in SUBSET Requests /\ IsFiniteSet(Requests)
  BY SkuGuardAssumption DEF Holders
<1>2. IsFiniteSet(Holders(c))
  BY <1>1, FS_Subset
<1> QED
  BY <1>2, FS_CardinalityType

\* A channel is the pair of its SKU and its maker.
LEMMA ChannelParts ==
  \A c \in Channels : c[1] \in Skus /\ c[2] \in Requests /\ c = <<c[1], c[2]>> /\ c[2] # None
BY SkuGuardAssumption DEF Channels

\* A step that leaves the slots alone keeps the count.
LEMMA SameHolders ==
  ASSUME NoLeak, buf' = buf, NEW r \in Requests,
         \A q \in Requests : req'[q].held = req[q].held
  PROVE  NoLeak'
<1>1. \A c : Holders(c)' = Holders(c)
  BY DEF Holders
<1> QED
  BY <1>1 DEF NoLeak

LEMMA InitSlots == Init => SlotInv
<1> SUFFICES ASSUME Init PROVE SlotInv
  OBVIOUS
<1>1. TypeOK
  BY SkuGuardAssumption DEF Init, TypeOK, Idle, NoChannel
<1>2. NoLeak
  <2>1. \A c \in Channels : Holders(c) = {}
    BY DEF Init, Idle, Holders
  <2> QED
    BY <2>1, FS_EmptySet DEF Init, NoLeak
<1>3. \A r \in Requests : Shape(r)
  BY DEF Init, Idle, Shape, At
<1> QED
  BY <1>1, <1>2, <1>3 DEF SlotInv

LEMMA AcquireSlots == ASSUME SlotInv, NEW r \in Requests, Acquire(r) PROVE SlotInv'
<1> USE DEF SlotInv, At
<1>1. PICK S \in SUBSET Skus \ {{}} :
        req' = [req EXCEPT ![r] =
                  [pc |-> "load", want |-> S, todo |-> S, held |-> {}, ch |-> NoChannel]]
  BY DEF Acquire
<1>2. TypeOK'
  BY <1>1 DEF Acquire, TypeOK
<1>3. NoLeak'
  <2>1. req[r].held = {}
    BY DEF Acquire, Shape
  <2>2. \A q \in Requests : req'[q].held = req[q].held
    BY <1>1, <2>1 DEF TypeOK
  <2> QED
    BY <2>2, SameHolders DEF Acquire
<1>4. ASSUME NEW q \in Requests PROVE Shape(q)'
  <2>1. CASE q = r
    BY <1>1, <2>1 DEF TypeOK, Shape
  <2>2. CASE q # r
    BY <1>1, <2>2 DEF TypeOK, Shape, Acquire
  <2> QED
    BY <2>1, <2>2
<1> QED
  BY <1>2, <1>3, <1>4

LEMMA LoadSlots == ASSUME SlotInv, NEW r \in Requests, Load(r) PROVE SlotInv'
<1> USE DEF SlotInv, At
<1>1. PICK s \in First(r) :
        req' = [req EXCEPT ![r] =
                  IF stored[s] = None THEN [@ EXCEPT !.pc = "store", !.ch = <<s, r>>]
                  ELSE [@ EXCEPT !.pc = "send", !.ch = <<s, stored[s]>>]]
  BY DEF Load
<1>2. s \in Skus /\ s \in req[r].todo
  BY DEF First, TypeOK
<1>3. <<s, r>> \in Channels /\ (stored[s] # None => <<s, stored[s]>> \in Channels)
  BY <1>2 DEF Channels, TypeOK
<1>4. TypeOK'
  <2>1. req'[r] \in [pc : {"store", "send"}, want : SUBSET Skus, todo : SUBSET Skus,
                     held : SUBSET Channels, ch : Channels]
    <3>1. CASE stored[s] = None
      BY <3>1, <1>1, <1>3 DEF TypeOK
    <3>2. CASE stored[s] # None
      BY <3>2, <1>1, <1>3 DEF TypeOK
    <3> QED
      BY <3>1, <3>2
  <2>2. req' = [req EXCEPT ![r] = req'[r]]
    BY <1>1 DEF TypeOK
  <2> QED
    BY <2>1, <2>2 DEF Load, TypeOK
<1>5. NoLeak'
  <2>1. \A q \in Requests : req'[q].held = req[q].held
    BY <1>1 DEF TypeOK
  <2> QED
    BY <2>1, SameHolders DEF Load
<1>6. ASSUME NEW q \in Requests PROVE Shape(q)'
  <2>1. CASE q = r
    <3>1. /\ req'[r].todo = req[r].todo /\ req'[r].held = req[r].held /\ req'[r].want = req[r].want
          /\ \/ stored[s] = None /\ req'[r].pc = "store" /\ req'[r].ch = <<s, r>>
             \/ stored[s] # None /\ req'[r].pc = "send" /\ req'[r].ch = <<s, stored[s]>>
      BY <1>1 DEF TypeOK
    <3> QED
      BY <3>1, <2>1, <1>2, <1>3 DEF Shape, Load
  <2>2. CASE q # r
    BY <1>1, <2>2 DEF TypeOK, Shape, Load
  <2> QED
    BY <2>1, <2>2
<1> QED
  BY <1>4, <1>5, <1>6

LEMMA LoadOrStoreSlots == ASSUME SlotInv, NEW r \in Requests, LoadOrStore(r) PROVE SlotInv'
<1> USE DEF SlotInv, At
<1> DEFINE s == req[r].ch[1]
<1>1. s \in Skus /\ s \in req[r].todo /\ req[r].ch \in Channels
  BY DEF LoadOrStore, Shape, Channels
<1>2. /\ stored' \in [Skus -> Requests \cup {None}] /\ stored'[s] \in Requests
      /\ \A t \in Skus : stored[t] # None => stored'[t] = stored[t]
  BY <1>1 DEF LoadOrStore, TypeOK
<1>3. /\ req' = [req EXCEPT ![r] = req'[r]]
      /\ req'[r].pc = "send" /\ req'[r].todo = req[r].todo /\ req'[r].held = req[r].held
      /\ req'[r].want = req[r].want
      /\ req'[r] \in [pc : {"send"}, want : SUBSET Skus, todo : SUBSET Skus,
                      held : SUBSET Channels, ch : Channels]
  <2>1. CASE stored[s] = None
    BY <2>1, <1>1 DEF LoadOrStore, TypeOK
  <2>2. CASE stored[s] # None
    <3>1. <<s, stored[s]>> \in Channels
      BY <2>2, <1>1 DEF TypeOK, Channels
    <3> QED
      BY <3>1, <2>2, <1>1 DEF LoadOrStore, TypeOK
  <2> QED
    BY <2>1, <2>2
<1>4. req'[r].ch[1] = s /\ stored'[s] = req'[r].ch[2]
  <2>1. CASE stored[s] = None
    <3>1. stored'[s] = r /\ req'[r].ch = req[r].ch
      BY <2>1, <1>1 DEF LoadOrStore, TypeOK
    <3>2. req[r].ch[2] = r
      BY DEF LoadOrStore, Shape
    <3> QED
      BY <3>1, <3>2
  <2>2. CASE stored[s] # None
    BY <2>2, <1>1 DEF LoadOrStore, TypeOK
  <2> QED
    BY <2>1, <2>2
<1>5. TypeOK'
  BY <1>2, <1>3 DEF TypeOK, LoadOrStore
<1>6. NoLeak'
  <2>1. \A q \in Requests : req'[q].held = req[q].held
    BY <1>3 DEF TypeOK
  <2> QED
    BY <2>1, SameHolders DEF LoadOrStore
<1>7. ASSUME NEW q \in Requests PROVE Shape(q)'
  <2>1. \A c \in req[q].held : c[1] \in Skus /\ stored'[c[1]] = c[2]
    BY <1>2, ChannelParts DEF TypeOK, Shape
  <2>2. CASE q = r
    BY <1>1, <1>2, <1>3, <1>4, <2>1, <2>2 DEF Shape, LoadOrStore
  <2>3. CASE q # r
    <3>1. req'[q] = req[q]
      BY <1>3, <2>3 DEF TypeOK
    <3>2. At(q, "send") => stored'[req[q].ch[1]] = req[q].ch[2]
      BY <1>2, ChannelParts DEF TypeOK, Shape
    <3> QED
      BY <3>1, <3>2, <2>1 DEF Shape
  <2> QED
    BY <2>2, <2>3
<1> QED
  BY <1>5, <1>6, <1>7

LEMMA SendSlots == ASSUME SlotInv, NEW r \in Requests, Send(r) PROVE SlotInv'
<1> USE DEF SlotInv, At
<1>0. PICK c \in Channels : c = req[r].ch
  BY DEF Send, Shape
<1> DEFINE rest == req[r].todo \ {c[1]}
<1>1. /\ c[1] \in req[r].todo /\ stored[c[1]] = c[2]
      /\ buf[c] < Limit /\ c \notin req[r].held
  BY <1>0 DEF Send, Shape, Room
<1>2. /\ req' = [req EXCEPT ![r] = req'[r]]
      /\ req'[r].pc = (IF rest = {} THEN "critical" ELSE "load")
      /\ req'[r].todo = rest /\ req'[r].held = req[r].held \cup {c}
      /\ req'[r].want = req[r].want /\ req'[r].ch = c
  BY <1>0 DEF Send, TypeOK
<1>3. buf' = [buf EXCEPT ![c] = buf[c] + 1] /\ stored' = stored
  BY <1>0 DEF Send
<1>4. TypeOK'
  <2>1. buf[c] + 1 \in 0 .. Limit
    BY <1>1, SkuGuardAssumption DEF TypeOK
  <2>2. req'[r] \in [pc : {"load", "critical"}, want : SUBSET Skus, todo : SUBSET Skus,
                     held : SUBSET Channels, ch : Channels]
    <3>1. req[r].want \in SUBSET Skus /\ rest \in SUBSET Skus /\ req[r].held \in SUBSET Channels
      BY DEF TypeOK
    <3>2. req'[r] = [pc |-> IF rest = {} THEN "critical" ELSE "load", want |-> req[r].want,
                     todo |-> rest, held |-> req[r].held \cup {c}, ch |-> c]
      BY <1>0 DEF Send, TypeOK
    <3> QED
      BY <3>1, <3>2
  <2> QED
    BY <1>2, <1>3, <2>1, <2>2 DEF TypeOK
<1>5. NoLeak'
  <2>1. r \notin Holders(c) /\ Holders(c)' = Holders(c) \cup {r}
    BY <1>1, <1>2 DEF Holders, TypeOK
  <2>2. Cardinality(Holders(c)') = Cardinality(Holders(c)) + 1
    BY <2>1, HoldersFinite, FS_AddElement
  <2>3. ASSUME NEW d \in Channels, d # c PROVE Holders(d)' = Holders(d)
    BY <2>3, <1>2 DEF Holders, TypeOK
  <2>4. buf'[c] = Cardinality(Holders(c)')
    BY <1>1, <1>3, <2>2 DEF NoLeak, TypeOK
  <2>5. ASSUME NEW d \in Channels, d # c PROVE buf'[d] = Cardinality(Holders(d)')
    BY <1>3, <2>3, <2>5 DEF NoLeak, TypeOK
  <2>6. \A d \in Channels : buf'[d] = Cardinality(Holders(d)')
    BY <2>4, <2>5
  <2> QED
    BY <2>6 DEF NoLeak, Channels
<1>6. ASSUME NEW q \in Requests PROVE Shape(q)'
  <2>1. CASE q = r
    <3>1. ASSUME NEW d \in req'[r].held PROVE d[1] \notin rest /\ stored[d[1]] = d[2]
      BY <1>1, <1>2 DEF Shape
    <3>2. ASSUME NEW t \in req[r].want \ rest PROVE \E d \in req'[r].held : d[1] = t
      BY <1>0, <1>2 DEF Shape, Send
    <3> QED
      BY <1>2, <1>3, <2>1, <3>1, <3>2 DEF Shape
  <2>2. CASE q # r
    BY <1>2, <1>3, <2>2 DEF Shape, TypeOK
  <2> QED
    BY <2>1, <2>2
<1> QED
  BY <1>4, <1>5, <1>6

\* The context ends, or the reservation does.
LEMMA StopSlots ==
  ASSUME SlotInv, NEW r \in Requests, Cancel(r) \/ Leave(r)
  PROVE  SlotInv'
<1> USE DEF SlotInv, At
<1>1. req' = [req EXCEPT ![r].pc = "release"] /\ UNCHANGED <<stored, buf>>
  BY DEF Cancel, Leave
<1>2. TypeOK'
  BY <1>1 DEF TypeOK
<1>3. NoLeak'
  <2>1. \A q \in Requests : req'[q].held = req[q].held
    BY <1>1 DEF TypeOK
  <2> QED
    BY <1>1, <2>1, SameHolders
<1>4. ASSUME NEW q \in Requests PROVE Shape(q)'
  BY <1>1 DEF Shape, TypeOK
<1> QED
  BY <1>2, <1>3, <1>4

LEMMA ReleaseSlots == ASSUME SlotInv, NEW r \in Requests, Release(r) PROVE SlotInv'
<1> USE DEF SlotInv, At
<1>1. CASE req[r].held = {} /\ req' = [req EXCEPT ![r] = Idle] /\ UNCHANGED <<stored, buf>>
  <2>1. TypeOK'
    BY <1>1 DEF TypeOK, Idle
  <2>2. NoLeak'
    <3>1. \A q \in Requests : req'[q].held = req[q].held
      BY <1>1 DEF TypeOK, Idle
    <3> QED
      BY <1>1, <3>1, SameHolders
  <2>3. ASSUME NEW q \in Requests PROVE Shape(q)'
    <3>1. CASE q = r
      BY <1>1, <3>1 DEF Shape, TypeOK, Idle
    <3>2. CASE q # r
      BY <1>1, <3>2 DEF Shape, TypeOK
    <3> QED
      BY <3>1, <3>2
  <2> QED
    BY <2>1, <2>2, <2>3
<1>2. ASSUME NEW c \in req[r].held, buf' = [buf EXCEPT ![c] = @ - 1],
             req' = [req EXCEPT ![r].held = @ \ {c}], stored' = stored
      PROVE  SlotInv'
  <2>1. c \in Channels /\ r \in Holders(c) /\ req[r].pc = "release"
    BY DEF TypeOK, Holders, Release
  <2>2. buf[c] = Cardinality(Holders(c)) /\ buf[c] # 0
    BY <2>1, HoldersFinite, FS_EmptySet DEF NoLeak
  <2>3. TypeOK'
    <3>1. buf[c] - 1 \in 0 .. Limit
      BY <2>1, <2>2, SkuGuardAssumption DEF TypeOK
    <3> QED
      BY <1>2, <3>1 DEF TypeOK
  <2>4. NoLeak'
    <3>1. Holders(c)' = Holders(c) \ {r}
      BY <1>2 DEF Holders, TypeOK
    <3>2. Cardinality(Holders(c)') = Cardinality(Holders(c)) - 1
      BY <2>1, <3>1, HoldersFinite, FS_RemoveElement
    <3>3. ASSUME NEW d \in Channels, d # c PROVE Holders(d)' = Holders(d)
      BY <3>3, <1>2 DEF Holders, TypeOK
    <3> QED
      BY <1>2, <2>1, <3>2, <3>3 DEF NoLeak, TypeOK
  <2>5. ASSUME NEW q \in Requests PROVE Shape(q)'
    <3>1. CASE q = r
      BY <1>2, <2>1, <3>1 DEF Shape, TypeOK
    <3>2. CASE q # r
      BY <1>2, <3>2 DEF Shape, TypeOK
    <3> QED
      BY <3>1, <3>2
  <2> QED
    BY <2>3, <2>4, <2>5
<1> QED
  BY <1>1, <1>2 DEF Release

LEMMA NextSlots == SlotInv /\ [Next]_vars => SlotInv'
<1> SUFFICES ASSUME SlotInv, [Next]_vars PROVE SlotInv'
  OBVIOUS
<1>1. ASSUME NEW r \in Requests, Acquire(r) PROVE SlotInv'
  BY <1>1, AcquireSlots
<1>2. ASSUME NEW r \in Requests, Proceed(r) PROVE SlotInv'
  BY <1>2, LoadSlots, LoadOrStoreSlots, StopSlots, ReleaseSlots DEF Proceed
<1>3. ASSUME NEW r \in Requests, Send(r) PROVE SlotInv'
  BY <1>3, SendSlots
<1>4. ASSUME NEW r \in Requests, Cancel(r) PROVE SlotInv'
  BY <1>4, StopSlots
<1>5. CASE UNCHANGED vars
  BY <1>5 DEF vars, SlotInv, TypeOK, NoLeak, Holders, Shape, At
<1> QED
  BY <1>1, <1>2, <1>3, <1>4, <1>5 DEF Next

(* A request at its reservation holds a slot of the one stored channel of each of its
   SKUs, so those at one SKU are among the holders of one channel. *)
LEMMA ReservingHold == SlotInv => AtMostLimit
<1> SUFFICES ASSUME SlotInv, NEW s \in Skus PROVE Cardinality(Reserving(s)) <= Limit
  BY DEF AtMostLimit
<1> DEFINE c == <<s, stored[s]>>
<1>1. ASSUME NEW r \in Reserving(s) PROVE c \in Channels /\ r \in Holders(c)
  <2>1. r \in Requests /\ Shape(r) /\ req[r].pc = "critical" /\ s \in req[r].want
    BY DEF SlotInv, Reserving, At
  <2>2. PICK d \in req[r].held : d[1] = s
    BY <2>1 DEF Shape, At
  <2>3. d \in Channels /\ d[2] = stored[s]
    BY <2>1, <2>2 DEF SlotInv, TypeOK, Shape
  <2>4. d = c
    BY <2>2, <2>3, ChannelParts
  <2> QED
    BY <2>1, <2>3, <2>4 DEF Holders
<1>2. CASE Reserving(s) = {}
  BY <1>2, FS_EmptySet, SkuGuardAssumption
<1>3. CASE Reserving(s) # {}
  <2>1. c \in Channels /\ Reserving(s) \in SUBSET Holders(c)
    BY <1>1, <1>3
  <2>2. Cardinality(Reserving(s)) <= Cardinality(Holders(c)) /\ IsFiniteSet(Reserving(s))
    BY <2>1, HoldersFinite, FS_Subset
  <2>3. buf[c] = Cardinality(Holders(c)) /\ buf[c] \in Nat /\ buf[c] <= Limit
    BY <2>1, SkuGuardAssumption DEF SlotInv, NoLeak, TypeOK
  <2>4. Cardinality(Reserving(s)) \in Nat
    BY <2>2, FS_CardinalityType
  <2> QED
    BY <2>2, <2>3, <2>4, SkuGuardAssumption
<1> QED
  BY <1>2, <1>3

(* The state of the guard is well formed in every reachable state. *)
THEOREM GuardTyped == Spec => []TypeOK
<1>1. SlotInv => TypeOK
  BY DEF SlotInv
<1> QED
  BY <1>1, InitSlots, NextSlots, PTL DEF Spec

(* No slot of a semaphore is ever lost or given back twice, for any number of requests. *)
THEOREM NoSlotLost == Spec => []NoLeak
<1>1. SlotInv => NoLeak
  BY DEF SlotInv
<1> QED
  BY <1>1, InitSlots, NextSlots, PTL DEF Spec

(* However requests overlap and give up, at most Limit reservations are at one SKU. *)
THEOREM GuardBounds == Spec => []AtMostLimit
BY InitSlots, NextSlots, ReservingHold, PTL DEF Spec

------------------------------------------------------------------------------
(* The shutdown.  Nothing was lost up to now, and what may be lost from here on is known by
   where the bootstrap stands and what became of the server. *)

\* The deadline passed, Stop gave up waiting, or the server ended of itself.
Excused == late \/ server \in {"aborted", "ended"}

Running == {q \in ServedCalls : served[q] = "running"}

\* Where the bootstrap stands fits what the server does.
InOrder ==
  /\ main \in {"serving", "drain", "admin", "poll"} => server \in {"up", "ended"}
  /\ main \in {"stop", "wait"} => server # "up"
  /\ main \in {"closing", "leaving", "exited"} => late \/ server \in {"down", "aborted", "ended"}
  /\ ~ dbOpen => main \in {"leaving", "exited"}
  /\ server \in {"stopping", "down", "aborted"} => ~ listed
  /\ server = "down" => Running = {}

ProcessInv == Process!TypeOK /\ Process!LossExplained /\ InOrder

LEMMA AnswerKeeps ==
  ASSUME ProcessInv, NEW q \in ServedCalls, Process!Accept(q) \/ Process!Answer(q)
  PROVE  ProcessInv'
<1>1. PICK end \in {"running", "answered", "failed"} :
        /\ served' = [served EXCEPT ![q] = end]
        /\ end = "running" => server = "up"
        /\ end = "failed" => ~ dbOpen /\ q \in Running
        /\ UNCHANGED <<main, server, listed, draining, late, scrape, dbOpen>>
  BY DEF Process!Accept, Process!Answer, Process!Running, Running
<1>2. /\ served' \in [ServedCalls -> {"none", "running", "answered", "failed", "cut"}]
      /\ \A p \in ServedCalls : p # q => served'[p] = served[p]
      /\ served'[q] = end
  BY <1>1 DEF ProcessInv, Process!TypeOK
<1>3. end = "failed" => Excused
  BY <1>1 DEF ProcessInv, InOrder, Excused
<1>4. Running' \subseteq Running \cup (IF server = "up" THEN {q} ELSE {})
  BY <1>1, <1>2 DEF Running
<1>5. Process!LossExplained'
  BY <1>1, <1>2, <1>3 DEF ProcessInv, Process!LossExplained, Excused
<1>6. InOrder'
  BY <1>1, <1>4 DEF ProcessInv, InOrder
<1>7. Process!TypeOK'
  BY <1>1, <1>2 DEF ProcessInv, Process!TypeOK
<1> QED
  BY <1>5, <1>6, <1>7 DEF ProcessInv

\* The steps that leave the calls alone.
LEMMA BootstrapKeeps ==
  ASSUME ProcessInv, UNCHANGED served,
         \/ Process!ScrapeStarts \/ Process!ScrapeEnds \/ Process!RunEnds \/ Process!Signal
         \/ Process!Expire \/ Process!StopGivesUp \/ Process!Dropped \/ Process!ServeFails
         \/ Process!DrainWindow \/ Process!AdminWaits \/ Process!Stop \/ Process!StopsLate
         \/ Process!StopReturns \/ Process!Returned \/ Process!CloseDB
  PROVE  ProcessInv'
<1>1. Running' = Running /\ Process!Running = Running
  BY DEF Running, Process!Running
<1>2. /\ main \in {"serving", "drain", "admin", "poll", "stop", "wait", "closing", "leaving", "exited"}
      /\ server \in {"up", "stopping", "down", "aborted", "ended"}
      /\ {listed, draining, late, scrape, dbOpen} \subseteq BOOLEAN
  BY DEF ProcessInv, Process!TypeOK
<1>3. InOrder' /\ (Excused => Excused')
  <2>1. CASE Process!ScrapeStarts \/ Process!ScrapeEnds
    BY <1>1, <1>2, <2>1 DEF Process!ScrapeStarts, Process!ScrapeEnds, ProcessInv, InOrder, Excused
  <2>2. CASE Process!RunEnds
    BY <1>1, <1>2, <2>2 DEF Process!RunEnds, ProcessInv, InOrder, Excused
  <2>3. CASE Process!Signal \/ Process!DrainWindow \/ Process!AdminWaits
    BY <1>1, <1>2, <2>3 DEF Process!Signal, Process!DrainWindow, Process!AdminWaits, ProcessInv, InOrder, Excused
  <2>4. CASE Process!Expire
    BY <1>1, <1>2, <2>4 DEF Process!Expire, ProcessInv, InOrder, Excused
  <2>5. CASE Process!Dropped
    BY <1>1, <1>2, <2>5 DEF Process!Dropped, ProcessInv, InOrder, Excused
  <2>6. CASE Process!StopGivesUp
    BY <1>1, <1>2, <2>6 DEF Process!StopGivesUp, ProcessInv, InOrder, Excused
  <2>7. CASE Process!ServeFails \/ Process!StopsLate
    BY <1>1, <1>2, <2>7 DEF Process!ServeFails, Process!StopsLate, ProcessInv, InOrder, Excused
  <2>8. CASE Process!Stop
    BY <1>1, <1>2, <2>8 DEF Process!Stop, ProcessInv, InOrder, Excused
  <2>9. CASE Process!StopReturns
    BY <1>1, <1>2, <2>9 DEF Process!StopReturns, ProcessInv, InOrder, Excused
  <2>10. CASE Process!Returned
    BY <1>1, <1>2, <2>10 DEF Process!Returned, ProcessInv, InOrder, Excused
  <2>11. CASE Process!CloseDB
    BY <1>1, <1>2, <2>11 DEF Process!CloseDB, ProcessInv, InOrder, Excused
  <2> QED
    BY <2>1, <2>2, <2>3, <2>4, <2>5, <2>6, <2>7, <2>8, <2>9, <2>10, <2>11
<1>4. /\ main' \in {"serving", "drain", "admin", "poll", "stop", "wait", "closing", "leaving", "exited"}
      /\ server' \in {"up", "stopping", "down", "aborted", "ended"}
      /\ {listed', draining', late', scrape', dbOpen'} \subseteq BOOLEAN
  <2>1. CASE Process!ScrapeStarts \/ Process!ScrapeEnds
    BY <1>2, <2>1 DEF Process!ScrapeStarts, Process!ScrapeEnds
  <2>2. CASE Process!RunEnds
    BY <1>2, <2>2 DEF Process!RunEnds
  <2>3. CASE Process!Signal \/ Process!DrainWindow \/ Process!AdminWaits
    BY <1>2, <2>3 DEF Process!Signal, Process!DrainWindow, Process!AdminWaits
  <2>4. CASE Process!Expire
    BY <1>2, <2>4 DEF Process!Expire
  <2>5. CASE Process!Dropped
    BY <1>2, <2>5 DEF Process!Dropped
  <2>6. CASE Process!StopGivesUp
    BY <1>2, <2>6 DEF Process!StopGivesUp
  <2>7. CASE Process!ServeFails \/ Process!StopsLate
    BY <1>2, <2>7 DEF Process!ServeFails, Process!StopsLate
  <2>8. CASE Process!Stop
    BY <1>2, <2>8 DEF Process!Stop
  <2>9. CASE Process!StopReturns
    BY <1>2, <2>9 DEF Process!StopReturns
  <2>10. CASE Process!Returned
    BY <1>2, <2>10 DEF Process!Returned
  <2>11. CASE Process!CloseDB
    BY <1>2, <2>11 DEF Process!CloseDB
  <2> QED
    BY <2>1, <2>2, <2>3, <2>4, <2>5, <2>6, <2>7, <2>8, <2>9, <2>10, <2>11
<1>5. Process!TypeOK'
  BY <1>4 DEF ProcessInv, Process!TypeOK
<1>6. Process!LossExplained'
  BY <1>3 DEF ProcessInv, Process!LossExplained, Excused
<1> QED
  BY <1>3, <1>5, <1>6 DEF ProcessInv

LEMMA ExitKeeps ==
  ASSUME ProcessInv, Process!Exit
  PROVE  ProcessInv'
<1>1. /\ main = "leaving" /\ main' = "exited"
      /\ served' = [q \in ServedCalls |-> IF q \in Running THEN "cut" ELSE served[q]]
      /\ UNCHANGED <<server, listed, draining, late, scrape, dbOpen>>
  BY DEF Process!Exit, Process!Running, Running
<1>2. /\ served' \in [ServedCalls -> {"none", "running", "answered", "failed", "cut"}]
      /\ \A q \in ServedCalls : served'[q] = IF q \in Running THEN "cut" ELSE served[q]
  BY <1>1 DEF ProcessInv, Process!TypeOK
<1>3. Running' = {}
  BY <1>2 DEF Running
<1>4. Running # {} => Excused
  BY <1>1 DEF ProcessInv, InOrder, Excused
<1>5. Process!LossExplained'
  BY <1>1, <1>2, <1>4 DEF ProcessInv, Process!LossExplained, Excused
<1>6. InOrder'
  BY <1>1, <1>3 DEF ProcessInv, InOrder
<1>7. Process!TypeOK'
  BY <1>1, <1>2 DEF ProcessInv, Process!TypeOK
<1> QED
  BY <1>5, <1>6, <1>7 DEF ProcessInv

LEMMA ProcessStep ==
  ASSUME ProcessInv, [Process!Next]_processVars
  PROVE  ProcessInv'
<1>1. CASE UNCHANGED processVars
  BY <1>1 DEF processVars, ProcessInv, Process!TypeOK, Process!LossExplained, InOrder, Running
<1>2. CASE \E q \in ServedCalls : Process!Accept(q) \/ Process!Answer(q)
  BY <1>2, AnswerKeeps
<1>3. CASE Process!Exit
  BY <1>3, ExitKeeps
<1>4. CASE \/ Process!ScrapeStarts \/ Process!ScrapeEnds \/ Process!RunEnds \/ Process!Signal
           \/ Process!Expire \/ Process!StopGivesUp \/ Process!Dropped \/ Process!ServeFails
           \/ Process!DrainWindow \/ Process!AdminWaits \/ Process!Stop \/ Process!StopsLate
           \/ Process!StopReturns \/ Process!Returned \/ Process!CloseDB
  <2>1. UNCHANGED served
    BY <1>4 DEF Process!ScrapeStarts, Process!ScrapeEnds, Process!RunEnds, Process!Signal,
                Process!Expire, Process!StopGivesUp, Process!Dropped, Process!ServeFails,
                Process!DrainWindow, Process!AdminWaits, Process!Stop, Process!StopsLate,
                Process!StopReturns, Process!Returned, Process!CloseDB
  <2> QED
    BY <1>4, <2>1, BootstrapKeeps
<1> QED
  BY <1>1, <1>2, <1>3, <1>4 DEF Process!Next, Process!Main

(* ShutdownExplained: a call is lost to a shutdown, and a process that has exited is still
   registered, only if the deadline passed, Stop gave up, or the server ended of itself. *)
THEOREM ShutdownIsExplained == LiveSpec => []ShutdownExplained
<1> DEFINE ToShow == part = "process" => ProcessInv
<1>1. LiveInit => ToShow
  <2> SUFFICES ASSUME LiveInit PROVE ProcessInv
    OBVIOUS
  <2>1. Process!Init
    BY DEF LiveInit
  <2> QED
    BY <2>1 DEF Process!Init, ProcessInv, Process!TypeOK, Process!LossExplained, InOrder
<1>2. ToShow /\ [LiveNext]_liveVars => ToShow'
  <2> SUFFICES ASSUME ToShow, [LiveNext]_liveVars, part' = "process" PROVE ProcessInv'
    OBVIOUS
  <2>1. part = "process" /\ [Process!Next]_processVars
    BY DEF LiveNext, liveVars, processVars
  <2> QED
    BY <2>1, ProcessStep
<1>3. ToShow => ShutdownExplained
  <2>1. ProcessInv => Process!ListedExplained
    BY DEF ProcessInv, Process!TypeOK, InOrder, Process!ListedExplained
  <2> QED
    BY <2>1 DEF ProcessInv, ShutdownExplained
<1> QED
  BY <1>1, <1>2, <1>3, PTL DEF LiveSpec
==============================================================================
