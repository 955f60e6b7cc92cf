------------------------------ MODULE RateLimiter ------------------------------
(***************************************************************************)
(* The gateway's rate limiter: a token bucket per key, in a map that       *)
(* forgets the keys nobody has used for a while.  A request reads the      *)
(* clock before it takes the lock of the map, and uses the bucket it got   *)
(* there after giving that lock back, under the bucket's own.              *)
(*                                                                         *)
(* A tick of the clock is the time in which a bucket gains one unit, and a *)
(* request costs Cost units: the code's rate is 1 / Cost per tick.         *)
(***************************************************************************)
EXTENDS Integers, FiniteSets

CONSTANTS
  Keys,
  Workers,      \* goroutines, each serving one request after another
  Cost,         \* units a request costs
  Burst,        \* requests a full bucket pays for
  EntryTTL,     \* a key unused for longer may be forgotten
  CleanupInterval,
  MaxClock,     \* bound on the clock
  MaxLag,       \* bound on how long a request takes from reading the clock to its bucket
  None

RuleAssumption ==
  /\ Cost \in Nat \ {0} /\ Burst \in Nat \ {0}
  /\ EntryTTL \in Nat /\ CleanupInterval \in Nat
  /\ MaxClock \in Nat /\ MaxLag \in Nat
  /\ None \notin Keys /\ IsFiniteSet(Keys) /\ IsFiniteSet(Workers)

\* One bucket per key in the map, and those a request still holds.
Ids == 1 .. Cardinality(Keys) + Cardinality(Workers)

VARIABLES
  clock,
  entry,       \* entry[k]: the map's entry of key k
  bucket,      \* bucket[i]: a token bucket, reached through an entry or a call
  lastCleanup,
  call,        \* call[w]: the request that goroutine w serves
  since,       \* start of the window under watch, chosen at the start (history)
  admitted,    \* admitted[k]: requests that came and were let in since then (history)
  lastIn       \* lastIn[k]: when a request was last let in (history)

vars == <<clock, entry, bucket, lastCleanup, call, since, admitted, lastIn>>

NoEntry == [limiter |-> 0, lastSeen |-> 0]
Idle == [pc |-> "idle", key |-> None, now |-> 0, limiter |-> 0]

Init ==
  /\ clock = 0
  /\ entry = [k \in Keys |-> NoEntry]
  /\ bucket = [i \in Ids |-> [tokens |-> 0, lastRefill |-> 0]]
  /\ lastCleanup = 0
  /\ call = [w \in Workers |-> Idle]
  /\ since \in 0 .. MaxClock
  /\ admitted = [k \in Keys |-> 0]
  /\ lastIn = [k \in Keys |-> -Cost]

Tick ==
  /\ clock < MaxClock
  /\ \A w \in Workers : call[w].pc # "idle" => clock < call[w].now + MaxLag
  /\ clock' = clock + 1
  /\ UNCHANGED <<entry, bucket, lastCleanup, call, since, admitted, lastIn>>

\* RateLimitStore.Allow: the clock is read.
Arrive(w, k) ==
  /\ call[w].pc = "idle"
  /\ call' = [call EXCEPT ![w] = [pc |-> "arrived", key |-> k, now |-> clock, limiter |-> 0]]
  /\ UNCHANGED <<clock, entry, bucket, lastCleanup, since, admitted, lastIn>>

CleanupDue(now) ==
  EntryTTL > 0 /\ CleanupInterval > 0 /\ now - lastCleanup >= CleanupInterval

\* Mutant: a cleanup drops what was not used since the last one.
DroppedSinceCleanup(k, now) == CleanupDue(now) /\ entry[k].lastSeen <= lastCleanup

\* What the cleanup by a request of time now removes.
Dropped(k, now) == CleanupDue(now) /\ now - entry[k].lastSeen > EntryTTL

NewTokenBucket(now) == [tokens |-> Burst * Cost, lastRefill |-> now]

\* Buckets that neither the map nor a request holds.
Unused == Ids \ ({entry[k].limiter : k \in Keys} \cup {call[w].limiter : w \in Workers})

\* RateLimitStore.Allow: under the lock of the map.
Enter(w) ==
  LET now == call[w].now
      key == call[w].key
      kept == [k \in Keys |-> IF Dropped(k, now) THEN NoEntry ELSE entry[k]]
      fresh == CHOOSE i \in Unused : TRUE
      limiter == IF kept[key] = NoEntry THEN fresh ELSE kept[key].limiter
  IN
  /\ call[w].pc = "arrived"
  /\ lastCleanup' = IF CleanupDue(now) THEN now ELSE lastCleanup
  /\ entry' = [kept EXCEPT ![key] = [limiter |-> limiter, lastSeen |-> now]]
  /\ bucket' = IF kept[key] = NoEntry THEN [bucket EXCEPT ![fresh] = NewTokenBucket(now)]
               ELSE bucket
  /\ call' = [call EXCEPT ![w].pc = "entered", ![w].limiter = limiter]
  /\ UNCHANGED <<clock, since, admitted, lastIn>>

Least(m, n) == IF m < n THEN m ELSE n

\* tokenBucket.Allow: elapsed time refills; a reading of the clock that is older does not.
Refilled(b, now) ==
  IF now > b.lastRefill
  THEN [tokens |-> Least(Burst * Cost, b.tokens + now - b.lastRefill), lastRefill |-> now]
  ELSE b

\* tokenBucket.Allow: the request is let in.
Admit(w) ==
  LET k == call[w].key
      b == Refilled(bucket[call[w].limiter], call[w].now) IN
  /\ call[w].pc = "entered"
  /\ b.tokens >= Cost
  /\ bucket' = [bucket EXCEPT ![call[w].limiter] = [b EXCEPT !.tokens = @ - Cost]]
  /\ call' = [call EXCEPT ![w] = Idle]
  /\ admitted' = [admitted EXCEPT ![k] = IF call[w].now >= since THEN @ + 1 ELSE @]
  /\ lastIn' = [lastIn EXCEPT ![k] = clock]
  /\ UNCHANGED <<clock, entry, lastCleanup, since>>

\* tokenBucket.Allow: the request is turned away.
Refuse(w) ==
  LET b == Refilled(bucket[call[w].limiter], call[w].now) IN
  /\ call[w].pc = "entered"
  /\ b.tokens < Cost
  /\ bucket' = [bucket EXCEPT ![call[w].limiter] = b]
  /\ call' = [call EXCEPT ![w] = Idle]
  /\ UNCHANGED <<clock, entry, lastCleanup, since, admitted, lastIn>>

Next ==
  \/ Tick
  \/ \E w \in Workers : (\E k \in Keys : Arrive(w, k)) \/ Enter(w) \/ Admit(w) \/ Refuse(w)

Spec == Init /\ [][Next]_vars

------------------------------------------------------------------------------
(* Properties. *)

\* The type of every variable; a bucket is never overdrawn.
TypeOK ==
  /\ clock \in 0 .. MaxClock /\ since \in 0 .. MaxClock /\ lastCleanup \in 0 .. MaxClock
  /\ entry \in [Keys -> [limiter : Ids \cup {0}, lastSeen : 0 .. MaxClock]]
  /\ bucket \in [Ids -> [tokens : 0 .. Burst * Cost, lastRefill : 0 .. MaxClock]]
  /\ call \in [Workers -> [pc : {"idle", "arrived", "entered"}, key : Keys \cup {None},
                           now : 0 .. MaxClock, limiter : Ids \cup {0}]]
  /\ admitted \in [Keys -> Nat]
  /\ lastIn \in [Keys -> -Cost .. MaxClock]

(* In no window of time are more requests of a key let in than a full bucket and the time pay
   for, although requests overlap, clocks are read out of order and entries are forgotten. *)
Allowance ==
  \A k \in Keys : admitted[k] * Cost <= Burst * Cost + (IF clock > since THEN clock - since ELSE 0)

(* Whoever is turned away came less than one request's price after another was let in: a key
   whose requests keep that distance is never refused. *)
RefusedForCause ==
  [][\A w \in Workers : Refuse(w) => call[w].now - lastIn[call[w].key] < Cost]_vars
==============================================================================
