---------------------------- MODULE ServicesProofs ----------------------------
(***************************************************************************)
(* Theorems about payments, the outbox, the cart and the roles of users,   *)
(* as they are instantiated in MCServices, for any orders, payments,       *)
(* callers, events, dispatchers, SKUs, requests, users and limits.         *)
(***************************************************************************)
EXTENDS MCServices, FiniteSetTheorems, SequenceTheorems, TLAPS

------------------------------------------------------------------------------
(* The least of a set of naturals, and cardinalities. *)

LEMMA LeastExists ==
  ASSUME NEW S \in SUBSET Nat, S # {}
  PROVE  \E x \in S : \A y \in S : x <= y
<1> DEFINE T == {1 .. x : x \in S}
<1>1. T \subseteq FiniteSubsetsOf(Nat)
  <2>1. \A x \in S : IsFiniteSet(1 .. x) /\ 1 .. x \subseteq Nat
    BY FS_Interval
  <2> QED
    BY <2>1 DEF FiniteSubsetsOf
<1>2. T # {}
  OBVIOUS
<1>3. PICK t \in T : \A u \in T : ~ (<<u, t>> \in StrictSubsetOrdering(Nat))
  <2>1. IsWellFoundedOn(StrictSubsetOrdering(Nat), FiniteSubsetsOf(Nat))
    BY FS_StrictSubsetOrderingWellFounded
  <2> HIDE DEF T
  <2> QED
    BY <1>1, <1>2, <2>1, WFMin
<1>4. PICK x \in S : t = 1 .. x
  OBVIOUS
<1>5. ASSUME NEW y \in S, y < x PROVE FALSE
  <2>1. x \in Nat /\ y \in Nat
    OBVIOUS
  <2>2. 1 .. y \subseteq Nat /\ 1 .. x \subseteq Nat /\ 1 .. y \subseteq 1 .. x
    BY <1>5, <2>1
  <2>3. x \in 1 .. x /\ x \notin 1 .. y
    BY <1>5, <2>1
  <2>4. <<1 .. y, t>> \in StrictSubsetOrdering(Nat)
    BY <1>4, <2>2, <2>3 DEF StrictSubsetOrdering
  <2> QED
    BY <1>3, <2>4
<1> QED
  BY <1>5

LEMMA SameMin == \A S : Box!Min(S) = CHOOSE x \in S : \A y \in S : x <= y
BY DEF Box!Min

LEMMA LeastIsMin ==
  ASSUME NEW S \in SUBSET Nat, S # {}
  PROVE  Box!Min(S) \in S
BY LeastExists, SameMin

LEMMA SameCardinality == \A S : Box!Cardinality(S) = Cardinality(S)
BY DEF Box!Cardinality, Cardinality

------------------------------------------------------------------------------
(* The outbox.  A row in a batch is publishing and its batch knows its count of failed
   attempts; while it waits in a batch, or is up for a claim, no copy of it was sent that
   was not counted; while it is being published, one at most for each time the Writer has
   gone on. *)

Batches == UNION {[S -> 0 .. MaxRetries - 1] : S \in SUBSET Events}

Standings ==
  [pc : {"idle", "publish", "published", "failed"}, batch : Batches, tried : 0 .. WriterAttempts - 1]

BoxTypes ==
  /\ row \in [Events -> [status : {"none", "pending", "publishing", "published", "failed"},
                         retry : 0 .. MaxRetries, due : BOOLEAN]]
  /\ disp \in [Dispatchers -> Standings]
  /\ \A d \in Dispatchers : disp[d].pc = "idle" <=> DOMAIN disp[d].batch = {}
  /\ topic \in Seq(Events)

Held(d) == DOMAIN disp[d].batch

BatchesHold ==
  \A d \in Dispatchers : \A e \in Held(d) :
    /\ row[e].status = "publishing" /\ disp[d].batch[e] = row[e].retry
    /\ \A q \in Dispatchers : e \in Held(q) => q = d

MarksAreTrue ==
  /\ Box!PublishedWasSent
  /\ \A d \in Dispatchers : disp[d].pc = "published" => Box!Current(d) \in Box!Accepted

\* An attempt at row e is under way, or was made and is not counted yet.
Open(e) ==
  /\ row[e].status \in {"publishing", "published"}
  /\ \A d \in Dispatchers : e \in Held(d) => e = Box!Current(d)

\* The produce requests of n attempts.
Quota(n) == WriterAttempts * n

CopiesOf(e) ==
  /\ Box!Sent(e) <= Quota(row[e].retry) + WriterAttempts
  /\ ~Open(e) => Box!Sent(e) <= Quota(row[e].retry)
  /\ \A d \in Dispatchers :
       e \in Held(d) /\ e = Box!Current(d) /\ disp[d].pc = "publish" =>
         Box!Sent(e) <= Quota(row[e].retry) + disp[d].tried

CopiesCounted == \A e \in Events : CopiesOf(e)

BoxInv == BoxTypes /\ BatchesHold /\ MarksAreTrue /\ CopiesCounted

LEMMA BoxConstants ==
  /\ Events \subseteq Nat
  /\ BatchSize \in Nat \ {0} /\ MaxRetries \in Nat \ {0} /\ WriterAttempts \in Nat \ {0}
BY BoxAssumption DEF Box!OutboxAssumption

LEMMA QuotaGrows ==
  ASSUME NEW n \in Nat
  PROVE  Quota(n) \in Nat /\ Quota(n + 1) = Quota(n) + WriterAttempts
BY BoxConstants DEF Quota

LEMMA BatchShape ==
  ASSUME BoxTypes, NEW d \in Dispatchers
  PROVE  /\ Held(d) \subseteq Events
         /\ disp[d].batch \in [Held(d) -> 0 .. MaxRetries - 1]
         /\ disp[d] = [pc |-> disp[d].pc, batch |-> disp[d].batch, tried |-> disp[d].tried]
         /\ disp[d].tried \in 0 .. WriterAttempts - 1
         /\ disp[d].pc # "idle" => Box!Current(d) \in Held(d)
<1>1. disp[d] \in Standings
  BY DEF BoxTypes
<1>2. PICK S \in SUBSET Events : disp[d].batch \in [S -> 0 .. MaxRetries - 1]
  BY <1>1 DEF Batches, Standings
<1>3. Held(d) = S
  BY <1>2 DEF Held
<1>4. disp[d].pc # "idle" => Box!Current(d) \in Held(d)
  BY <1>2, <1>3, BoxConstants, LeastIsMin DEF BoxTypes, Box!Current, Held
<1> QED
  BY <1>1, <1>2, <1>3, <1>4 DEF Standings

LEMMA TypesAreBoxTypes == BoxTypes => Box!TypeOK
<1> SUFFICES ASSUME BoxTypes PROVE Box!TypeOK
  OBVIOUS
<1>1. ASSUME NEW d \in Dispatchers
      PROVE  /\ disp[d].pc \in {"idle", "publish", "published", "failed"}
             /\ disp[d].batch \in [DOMAIN disp[d].batch -> 0 .. MaxRetries - 1]
             /\ DOMAIN disp[d].batch \subseteq Events
             /\ disp[d].tried \in 0 .. WriterAttempts - 1
             /\ disp[d].pc = "idle" <=> disp[d].batch = Box!NoBatch
  <2>1. DOMAIN disp[d].batch = {} <=> disp[d].batch = Box!NoBatch
    BY BatchShape DEF Held, Box!NoBatch
  <2> QED
    BY <2>1, BatchShape DEF BoxTypes, Held, Standings
<1> QED
  BY <1>1 DEF BoxTypes, Box!TypeOK

(* The dispatcher goes on with the rest of its batch, or drops it. *)
LEMMA Forgets ==
  ASSUME BoxTypes, NEW d \in Dispatchers, disp[d].pc # "idle",
         Box!NextMessage(d) \/ Box!Return(d)
  PROVE  /\ disp' \in [Dispatchers -> [pc : {"idle", "publish"} \cup {disp[q].pc : q \in Dispatchers},
                                      batch : Batches, tried : 0 .. WriterAttempts - 1]]
         /\ \A q \in Dispatchers : q # d => disp'[q] = disp[q]
         /\ Held(d)' \subseteq Held(d) \ {Box!Current(d)}
         /\ disp'[d].pc \in {"idle", "publish"}
         /\ disp'[d].pc = "idle" <=> Held(d)' = {}
         /\ \A e \in Held(d)' : disp'[d].batch[e] = disp[d].batch[e]
<1> DEFINE rest == [e \in Held(d) \ {Box!Current(d)} |-> disp[d].batch[e]]
           idle == [pc |-> "idle", batch |-> Box!NoBatch, tried |-> 0]
<1>1. /\ Held(d) \subseteq Events /\ disp[d].batch \in [Held(d) -> 0 .. MaxRetries - 1]
      /\ Box!Current(d) \in Held(d)
  BY BatchShape
<1>2. rest \in Batches /\ Box!NoBatch \in Batches
  <2>1. rest \in [Held(d) \ {Box!Current(d)} -> 0 .. MaxRetries - 1]
    BY <1>1
  <2>2. Box!NoBatch \in [{} -> 0 .. MaxRetries - 1]
    BY DEF Box!NoBatch
  <2> QED
    BY <1>1, <2>1, <2>2 DEF Batches
<1>3. rest = Box!NoBatch <=> DOMAIN rest = {}
  BY DEF Box!NoBatch
<1>4. \/ disp' = [disp EXCEPT ![d] = idle]
      \/ rest # Box!NoBatch /\ disp' = [disp EXCEPT ![d] = [pc |-> "publish", batch |-> rest, tried |-> 0]]
  BY DEF Box!NextMessage, Box!Return, Box!Idle, Box!With, Held
<1>5. CASE disp' = [disp EXCEPT ![d] = idle]
  <2>1. disp'[d] = idle
    BY <1>5 DEF BoxTypes
  <2> QED
    BY <1>1, <1>2, <1>5, <2>1, BoxConstants DEF BoxTypes, Held, Box!NoBatch, Standings
<1>6. CASE rest # Box!NoBatch /\ disp' = [disp EXCEPT ![d] = [pc |-> "publish", batch |-> rest, tried |-> 0]]
  <2>1. disp'[d] = [pc |-> "publish", batch |-> rest, tried |-> 0]
    BY <1>6 DEF BoxTypes
  <2> QED
    BY <1>1, <1>2, <1>3, <1>6, <2>1, BoxConstants, SMTT(30) DEF BoxTypes, Held, Standings
<1> QED
  BY <1>4, <1>5, <1>6

LEMMA SentCount ==
  ASSUME BoxTypes, NEW e \in Events
  PROVE  Box!Sent(e) \in Nat
<1>1. IsFiniteSet(1 .. Len(topic))
  BY FS_Interval DEF BoxTypes
<1>2. IsFiniteSet({i \in DOMAIN topic : topic[i] = e})
  BY <1>1, FS_Subset DEF BoxTypes
<1> QED
  BY <1>2, FS_CardinalityType, SameCardinality DEF Box!Sent

LEMMA SentMoves ==
  ASSUME BoxTypes, NEW x \in Events, topic' = Append(topic, x), NEW e \in Events
  PROVE  /\ Box!Sent(e)' = Box!Sent(e) + (IF e = x THEN 1 ELSE 0)
         /\ Box!Accepted' = Box!Accepted \cup {x}
<1> DEFINE S == {i \in DOMAIN topic : topic[i] = e}
           n == Len(topic) + 1
<1>1. /\ Len(topic) \in Nat /\ DOMAIN topic = 1 .. Len(topic)
      /\ DOMAIN topic' = 1 .. n
      /\ \A i \in 1 .. Len(topic) : topic'[i] = topic[i]
      /\ topic'[n] = x
  BY DEF BoxTypes
<1>2. IsFiniteSet(S) /\ n \notin S
  <2>1. IsFiniteSet(1 .. Len(topic))
    BY <1>1, FS_Interval
  <2> QED
    BY <1>1, <2>1, FS_Subset
<1>3. {i \in DOMAIN topic : topic[i] = e}' = IF e = x THEN S \cup {n} ELSE S
  BY <1>1
<1>4. Cardinality(S \cup {n}) = Cardinality(S) + 1
  BY <1>2, FS_AddElement
<1>5. Cardinality(S) \in Nat
  BY <1>2, FS_CardinalityType
<1>a. Box!Sent(e) = Cardinality(S)
  BY SameCardinality DEF Box!Sent
<1>b. Box!Sent(e)' = Cardinality({i \in DOMAIN topic : topic[i] = e}')
  BY SameCardinality DEF Box!Sent
<1>6. Box!Sent(e)' = Box!Sent(e) + (IF e = x THEN 1 ELSE 0)
  <2> DEFINE T == {i \in DOMAIN topic : topic[i] = e}'
  <2>1. Box!Sent(e)' = Cardinality(T) /\ T = IF e = x THEN S \cup {n} ELSE S
    BY <1>3, <1>b
  <2> HIDE DEF S, n, T
  <2> QED
    BY <1>4, <1>5, <1>a, <2>1
<1>7. Box!Accepted' = Box!Accepted \cup {x}
  BY <1>1 DEF Box!Accepted
<1> QED
  BY <1>6, <1>7

(* A step that leaves the topic as it is. *)
LEMMA SentStays ==
  ASSUME UNCHANGED topic
  PROVE  Box!Accepted' = Box!Accepted /\ \A e \in Events : Box!Sent(e)' = Box!Sent(e)
BY DEF Box!Accepted, Box!Sent

LEMMA CurrentStays ==
  ASSUME NEW d \in Dispatchers, disp'[d].batch = disp[d].batch
  PROVE  Held(d)' = Held(d) /\ Box!Current(d)' = Box!Current(d)
BY DEF Held, Box!Current

LEMMA RowsOfTheOutbox ==
  ASSUME BoxInv, NEW e \in Events, Box!Insert(e) \/ Box!Due(e)
  PROVE  BoxInv'
<1>1. PICK r \in [status : {"pending", "failed"}, retry : 0 .. MaxRetries, due : BOOLEAN] :
        /\ row' = [row EXCEPT ![e] = r]
        /\ r.retry = row[e].retry /\ row[e].status \in {"none", "failed"}
  <2>1. row[e] \in [status : {"none", "pending", "publishing", "published", "failed"},
                    retry : 0 .. MaxRetries, due : BOOLEAN]
    BY DEF BoxInv, BoxTypes
  <2>2. CASE Box!Insert(e)
    <3>1. [row[e] EXCEPT !.status = "pending"]
            \in [status : {"pending", "failed"}, retry : 0 .. MaxRetries, due : BOOLEAN]
      BY <2>1
    <3> QED
      BY <2>1, <2>2, <3>1 DEF Box!Insert
  <2>3. CASE Box!Due(e)
    <3>1. [row[e] EXCEPT !.due = TRUE]
            \in [status : {"pending", "failed"}, retry : 0 .. MaxRetries, due : BOOLEAN]
      BY <2>1, <2>3 DEF Box!Due
    <3> QED
      BY <2>1, <2>3, <3>1 DEF Box!Due
  <2> QED
    BY <2>2, <2>3
<1>2. UNCHANGED <<disp, topic>>
  BY DEF Box!Insert, Box!Due
<1>3. \A f \in Events : IF f = e THEN row'[f] = r ELSE row'[f] = row[f]
  BY <1>1 DEF BoxInv, BoxTypes
<1>4. BoxTypes'
  BY <1>1, <1>2 DEF BoxInv, BoxTypes
<1>5. BatchesHold'
  BY <1>1, <1>2, <1>3, BatchShape DEF BoxInv, BatchesHold, Held
<1>6. MarksAreTrue'
  BY <1>1, <1>2, <1>3, SentStays DEF BoxInv, MarksAreTrue, Box!PublishedWasSent, Box!Current
<1>7. CopiesCounted'
  <2> SUFFICES ASSUME NEW f \in Events PROVE CopiesOf(f)'
    BY DEF CopiesCounted
  <2>1. Box!Sent(f)' = Box!Sent(f) /\ row'[f].retry = row[f].retry
    BY <1>1, <1>2, <1>3, SentStays
  <2>2. Open(f)' <=> Open(f)
    BY <1>1, <1>2, <1>3 DEF Open, Held, Box!Current
  <2>3. CopiesOf(f)
    BY DEF BoxInv, CopiesCounted
  <2> QED
    BY <1>2, <2>1, <2>2, <2>3 DEF CopiesOf, Held, Box!Current
<1> QED
  BY <1>4, <1>5, <1>6, <1>7 DEF BoxInv

LEMMA ClaimKeeps ==
  ASSUME BoxInv, NEW d \in Dispatchers, Box!ClaimPending(d)
  PROVE  BoxInv'
<1> DEFINE B == Box!Batch
           claimed == [pc |-> "publish", batch |-> [e \in B |-> row[e].retry], tried |-> 0]
<1>1. /\ B \subseteq Events /\ B # {}
      /\ \A e \in B : row[e].status \in {"pending", "failed"} /\ row[e].retry < MaxRetries
  BY DEF Box!ClaimPending, Box!Batch, Box!Claimable
<1>2. \A e \in Events : row[e] \in [status : {"none", "pending", "publishing", "published", "failed"},
                                    retry : 0 .. MaxRetries, due : BOOLEAN]
  BY DEF BoxInv, BoxTypes
<1>3. /\ row' \in [Events -> [status : {"none", "pending", "publishing", "published", "failed"},
                              retry : 0 .. MaxRetries, due : BOOLEAN]]
      /\ \A e \in Events : /\ row'[e].retry = row[e].retry
                           /\ row'[e].status = IF e \in B THEN "publishing" ELSE row[e].status
  BY <1>2 DEF Box!ClaimPending
<1>4. Held(d) = {} /\ disp[d].pc = "idle"
  BY DEF BoxInv, BoxTypes, Box!ClaimPending, Box!At, Held
<1>5. \A q \in Dispatchers : Held(q) \cap B = {}
  BY <1>1 DEF BoxInv, BatchesHold
<1>6. claimed \in Standings
  <2>1. [e \in B |-> row[e].retry] \in [B -> 0 .. MaxRetries - 1]
    BY <1>1, <1>2, BoxConstants
  <2> QED
    BY <1>1, <2>1, BoxConstants DEF Batches, Standings
<1>7. disp' = disp \/ disp' = [disp EXCEPT ![d] = claimed]
  BY DEF Box!ClaimPending, Box!With
<1>8. /\ \A q \in Dispatchers : q # d => disp'[q] = disp[q]
      /\ disp'[d] = disp[d] \/ disp'[d] = claimed
      /\ disp' \in [Dispatchers -> Standings]
  <2> HIDE DEF claimed
  <2>1. CASE disp' = disp
    BY <2>1 DEF BoxInv, BoxTypes
  <2>2. CASE disp' = [disp EXCEPT ![d] = claimed]
    BY <1>6, <2>2 DEF BoxInv, BoxTypes
  <2> QED
    BY <1>7, <2>1, <2>2
<1>9. UNCHANGED topic
  BY DEF Box!ClaimPending
<1>10. /\ \A q \in Dispatchers : q # d => Held(q)' = Held(q) /\ Box!Current(q)' = Box!Current(q)
       /\ Held(d)' \in {{}, B} /\ disp'[d].pc \in {"idle", "publish"}
       /\ disp'[d].pc = "idle" <=> Held(d)' = {}
       /\ \A e \in Held(d)' : disp'[d].batch[e] = row[e].retry
       /\ disp'[d].tried \in Nat
  <2>1. ASSUME NEW q \in Dispatchers, q # d
        PROVE  Held(q)' = Held(q) /\ Box!Current(q)' = Box!Current(q)
    BY <1>8, <2>1, CurrentStays
  <2>2. CASE disp'[d] = disp[d]
    <3>1. disp[d].tried \in 0 .. WriterAttempts - 1
      BY BatchShape DEF BoxInv
    <3>2. disp[d].tried \in Nat
      BY <3>1, BoxConstants
    <3>3. Held(d)' = Held(d)
      BY <2>2 DEF Held
    <3>4. disp'[d].pc = disp[d].pc /\ disp'[d].tried \in Nat
      BY <2>2, <3>2
    <3> QED
      BY <1>4, <2>1, <3>3, <3>4
  <2>3. CASE disp'[d] = claimed
    <3>1. disp'[d].pc = "publish" /\ disp'[d].batch = [e \in B |-> row[e].retry]
          /\ disp'[d].tried = 0
      BY <2>3
    <3>2. Held(d)' = B
      BY <3>1 DEF Held
    <3> QED
      BY <1>1, <2>1, <3>1, <3>2
  <2> QED
    BY <1>8, <2>2, <2>3
<1>11. BoxTypes'
  BY <1>3, <1>8, <1>9, <1>10 DEF BoxInv, BoxTypes, Held
<1>12. BatchesHold'
  <2> SUFFICES ASSUME NEW q \in Dispatchers, NEW e \in Held(q)'
               PROVE  /\ row'[e].status = "publishing" /\ disp'[q].batch[e] = row'[e].retry
                      /\ \A p \in Dispatchers : e \in Held(p)' => p = q
    BY DEF BatchesHold
  <2>1. CASE q = d
    BY <1>1, <1>3, <1>5, <1>10, <2>1
  <2>2. CASE q # d
    <3>1. e \in Held(q) /\ e \in Events /\ e \notin B
      BY <1>5, <1>10, <2>2, BatchShape DEF BoxInv
    <3> QED
      BY <1>3, <1>8, <1>10, <2>2, <3>1 DEF BoxInv, BatchesHold
  <2> QED
    BY <2>1, <2>2
<1>13. MarksAreTrue'
  <2>1. Box!Accepted' = Box!Accepted
    BY <1>9, SentStays
  <2>2. \A q \in Dispatchers : disp'[q].pc = "published" => q # d
    BY <1>10
  <2> QED
    BY <1>3, <1>8, <1>10, <2>1, <2>2 DEF BoxInv, MarksAreTrue, Box!PublishedWasSent
<1>14. CopiesCounted'
  <2> SUFFICES ASSUME NEW f \in Events PROVE CopiesOf(f)'
    BY DEF CopiesCounted
  <2>1. Box!Sent(f)' = Box!Sent(f) /\ row'[f].retry = row[f].retry /\ row[f].retry \in Nat
    BY <1>2, <1>3, <1>9, SentStays
  <2>2. CopiesOf(f) /\ Box!Sent(f) \in Nat /\ Quota(row[f].retry) \in Nat
    BY <2>1, SentCount, QuotaGrows DEF BoxInv, CopiesCounted
  <2>3. CASE f \in B
    <3>1. ~Open(f) /\ \A q \in Dispatchers : q # d => f \notin Held(q)'
      BY <1>1, <1>5, <1>10, <2>3 DEF Open
    <3> QED
      BY <1>10, <2>1, <2>2, <3>1, BoxConstants DEF CopiesOf
  <2>4. CASE f \notin B
    <3>1. f \notin Held(d)' /\ f \notin Held(d)
      BY <1>4, <1>10, <2>4
    <3>2. Open(f)' <=> Open(f)
      BY <1>3, <1>10, <2>4, <3>1 DEF Open
    <3> QED
      BY <1>8, <1>10, <2>1, <2>2, <3>1, <3>2 DEF CopiesOf
  <2> QED
    BY <2>3, <2>4
<1> QED
  BY <1>11, <1>12, <1>13, <1>14 DEF BoxInv

(* The Writer goes on, or Publish returns: the current row, of which no copy was sent but
   one for each time before, may have one more. *)
LEMMA ProducingKeeps ==
  ASSUME BoxInv, NEW d \in Dispatchers, disp[d].pc = "publish", UNCHANGED row,
         topic' = topic \/ topic' = Append(topic, Box!Current(d)),
         NEW st \in Standings, disp' = [disp EXCEPT ![d] = st],
         st.batch = disp[d].batch,
         \/ st.pc = "publish" /\ st.tried = disp[d].tried + 1
         \/ st.pc = "failed"
         \/ st.pc = "published" /\ topic' = Append(topic, Box!Current(d))
  PROVE  BoxInv'
<1> DEFINE x == Box!Current(d)
<1>1. x \in Held(d) /\ x \in Events
  BY BatchShape DEF BoxInv
<1>2. \A q \in Dispatchers : disp'[q] = IF q = d THEN st ELSE disp[q]
  BY DEF BoxInv, BoxTypes
<1>3. \A q \in Dispatchers : /\ disp'[q].batch = disp[q].batch
                             /\ Held(q)' = Held(q) /\ Box!Current(q)' = Box!Current(q)
  <2> SUFFICES ASSUME NEW q \in Dispatchers
               PROVE  /\ disp'[q].batch = disp[q].batch
                      /\ Held(q)' = Held(q) /\ Box!Current(q)' = Box!Current(q)
    OBVIOUS
  <2>1. disp'[q].batch = disp[q].batch
    BY <1>2
  <2> QED
    BY <2>1, CurrentStays
<1>4. topic' \in Seq(Events)
  <2> HIDE DEF x
  <2>1. topic \in Seq(Events) /\ Append(topic, x) \in Seq(Events)
    BY <1>1 DEF BoxInv, BoxTypes
  <2> QED
    BY <2>1 DEF x
<1>5. BoxTypes'
  <2>1. disp' \in [Dispatchers -> Standings]
    BY DEF BoxInv, BoxTypes
  <2>2. \A q \in Dispatchers : disp'[q].pc = "idle" <=> DOMAIN disp'[q].batch = {}
    BY <1>1, <1>2, <1>3 DEF BoxInv, BoxTypes, Held
  <2> QED
    BY <1>4, <2>1, <2>2 DEF BoxInv, BoxTypes
<1>6. BatchesHold'
  BY <1>3 DEF BoxInv, BatchesHold
<1>7. Box!Accepted \subseteq Box!Accepted' /\ (st.pc = "published" => x \in Box!Accepted')
  BY <1>1, SentMoves, SentStays DEF BoxInv
<1>8. MarksAreTrue'
  BY <1>2, <1>3, <1>7 DEF BoxInv, MarksAreTrue, Box!PublishedWasSent
<1>9. CopiesCounted'
  <2> SUFFICES ASSUME NEW f \in Events PROVE CopiesOf(f)'
    BY DEF CopiesCounted
  <2>1. Open(f)' <=> Open(f)
    BY <1>3 DEF Open
  <2>a. row[f].retry \in Nat
    BY DEF BoxInv, BoxTypes
  <2>2. /\ CopiesOf(f) /\ Box!Sent(f) \in Nat
        /\ row[f].retry \in Nat /\ Quota(row[f].retry) \in Nat
    BY <2>a, SentCount, QuotaGrows DEF BoxInv, CopiesCounted
  <2>3. CASE f = x
    <3>1. Open(f) /\ \A q \in Dispatchers : f \in Held(q) => q = d
      BY <1>1, <2>3 DEF BoxInv, BatchesHold, Open
    <3>2. Box!Sent(f)' \in {Box!Sent(f), Box!Sent(f) + 1}
      BY <1>1, <2>3, SentMoves, SentStays DEF BoxInv
    <3>3. Box!Sent(f) <= Quota(row[f].retry) + disp[d].tried
      BY <1>1, <2>2, <2>3 DEF CopiesOf
    <3>4. disp[d].tried \in 0 .. WriterAttempts - 1
      BY BatchShape DEF BoxInv
    <3>5. Box!Sent(f)' <= Quota(row[f].retry) + WriterAttempts
      BY <2>2, <3>2, <3>3, <3>4, BoxConstants
    <3>6. st.pc = "publish" => Box!Sent(f)' <= Quota(row[f].retry) + st.tried
      BY <2>2, <3>2, <3>3, <3>4
    <3> QED
      BY <1>2, <1>3, <2>1, <3>1, <3>5, <3>6 DEF CopiesOf
  <2>4. CASE f # x
    <3>1. Box!Sent(f)' = Box!Sent(f)
      BY <1>1, <2>2, <2>4, SentMoves, SentStays DEF BoxInv
    <3> QED
      BY <1>2, <1>3, <2>1, <2>2, <2>4, <3>1 DEF CopiesOf
  <2> QED
    BY <2>3, <2>4
<1> QED
  BY <1>5, <1>6, <1>8, <1>9 DEF BoxInv

LEMMA PublishKeeps ==
  ASSUME BoxInv, NEW d \in Dispatchers, Box!Publish(d) \/ Box!WriterRetries(d)
  PROVE  BoxInv'
<1> DEFINE x == Box!Current(d)
<1>1. /\ disp[d].pc = "publish" /\ UNCHANGED row
      /\ topic' = topic \/ topic' = Append(topic, x)
  BY DEF Box!Publish, Box!WriterRetries, Box!At
<1>2. /\ disp[d] \in Standings
      /\ disp[d] = [pc |-> disp[d].pc, batch |-> disp[d].batch, tried |-> disp[d].tried]
      /\ disp[d].batch \in Batches /\ disp[d].tried \in 0 .. WriterAttempts - 1
  BY BatchShape DEF BoxInv, BoxTypes, Standings
<1>3. CASE Box!Publish(d)
  <2>1. PICK pc \in {"published", "failed"} :
           /\ disp' = [disp EXCEPT ![d].pc = pc]
           /\ pc = "published" => topic' = Append(topic, x)
    BY <1>3 DEF Box!Publish
  <2> DEFINE st == [disp[d] EXCEPT !.pc = pc]
  <2>2. st \in Standings /\ st.batch = disp[d].batch /\ st.pc = pc
    BY <1>2 DEF Standings
  <2>3. disp' = [disp EXCEPT ![d] = st]
    BY <2>1
  <2> HIDE DEF st
  <2> QED
    BY <1>1, <2>1, <2>2, <2>3, ProducingKeeps
<1>4. CASE Box!WriterRetries(d)
  <2> DEFINE st == [disp[d] EXCEPT !.tried = @ + 1]
  <2>1. disp[d].tried < WriterAttempts - 1 /\ disp' = [disp EXCEPT ![d] = st]
    BY <1>4 DEF Box!WriterRetries
  <2>2. /\ st \in Standings /\ st.batch = disp[d].batch /\ st.pc = "publish"
        /\ st.tried = disp[d].tried + 1
    BY <1>1, <1>2, <2>1, BoxConstants DEF Standings
  <2> HIDE DEF st
  <2> QED
    BY <1>1, <2>1, <2>2, ProducingKeeps
<1> QED
  BY <1>3, <1>4

(* What the three steps that end an attempt, or a batch, have in common: the dispatcher
   forgets its current row, whose state is then that of a row in no batch. *)
LEMMA ForgettingKeeps ==
  ASSUME BoxInv, NEW d \in Dispatchers, disp[d].pc # "idle",
         Box!NextMessage(d) \/ Box!Return(d), UNCHANGED topic,
         row' \in [Events -> [status : {"none", "pending", "publishing", "published", "failed"},
                              retry : 0 .. MaxRetries, due : BOOLEAN]],
         \A e \in Events : e # Box!Current(d) => row'[e] = row[e],
         LET x == Box!Current(d) IN
           /\ row'[x].status = "published" => x \in Box!Accepted
           /\ row'[x].status \in {"publishing", "published"} =>
                Box!Sent(x) <= Quota(row'[x].retry) + WriterAttempts
           /\ row'[x].status \in {"none", "pending", "failed"} =>
                Box!Sent(x) <= Quota(row'[x].retry)
  PROVE  BoxInv'
<1> DEFINE x == Box!Current(d)
<1>1. /\ \A q \in Dispatchers : q # d => disp'[q] = disp[q]
      /\ Held(d)' \subseteq Held(d) \ {x}
      /\ disp'[d].pc \in {"idle", "publish"}
      /\ disp'[d].pc = "idle" <=> Held(d)' = {}
      /\ \A e \in Held(d)' : disp'[d].batch[e] = disp[d].batch[e]
  BY Forgets DEF BoxInv
<1>2. disp' \in [Dispatchers -> Standings]
  <2>1. {disp[q].pc : q \in Dispatchers} \subseteq {"idle", "publish", "published", "failed"}
    BY BatchShape DEF BoxInv, BoxTypes, Standings
  <2>2. disp' \in [Dispatchers -> [pc : {"idle", "publish"} \cup {disp[q].pc : q \in Dispatchers},
                                   batch : Batches, tried : 0 .. WriterAttempts - 1]]
    BY Forgets DEF BoxInv
  <2> QED
    BY <2>1, <2>2 DEF Standings
<1>3. x \in Held(d) /\ x \in Events /\ \A q \in Dispatchers : Held(q) \subseteq Events
  BY BatchShape DEF BoxInv
<1>4. \A q \in Dispatchers : q # d => Held(q)' = Held(q) /\ Box!Current(q)' = Box!Current(q)
  <2> SUFFICES ASSUME NEW q \in Dispatchers, q # d
               PROVE  Held(q)' = Held(q) /\ Box!Current(q)' = Box!Current(q)
    OBVIOUS
  <2> QED
    BY <1>1, CurrentStays
<1>5. \A q \in Dispatchers : x \notin Held(q)'
  BY <1>1, <1>3, <1>4 DEF BoxInv, BatchesHold
<1>6. Box!Accepted' = Box!Accepted /\ \A e \in Events : Box!Sent(e)' = Box!Sent(e)
  BY SentStays
<1>7. BoxTypes'
  BY <1>1, <1>2, <1>4 DEF BoxInv, BoxTypes, Held
<1>8. BatchesHold'
  <2> SUFFICES ASSUME NEW q \in Dispatchers, NEW e \in Held(q)'
               PROVE  /\ row'[e].status = "publishing" /\ disp'[q].batch[e] = row'[e].retry
                      /\ \A p \in Dispatchers : e \in Held(p)' => p = q
    BY DEF BatchesHold
  <2>1. e \in Held(q) /\ e # x /\ disp'[q].batch[e] = disp[q].batch[e]
    BY <1>1, <1>4, <1>5
  <2>2. row'[e] = row[e]
    BY <1>3, <2>1
  <2>3. \A p \in Dispatchers : e \in Held(p)' => e \in Held(p)
    BY <1>1, <1>4
  <2> QED
    BY <2>1, <2>2, <2>3 DEF BoxInv, BatchesHold
<1>9. MarksAreTrue'
  <2>1. ASSUME NEW e \in Events, row'[e].status = "published" PROVE e \in Box!Accepted'
    BY <1>6, <2>1 DEF BoxInv, MarksAreTrue, Box!PublishedWasSent
  <2>2. ASSUME NEW q \in Dispatchers, disp'[q].pc = "published"
        PROVE  Box!Current(q)' \in Box!Accepted'
    BY <1>1, <1>4, <1>6, <2>2 DEF BoxInv, MarksAreTrue
  <2> QED
    BY <2>1, <2>2 DEF MarksAreTrue, Box!PublishedWasSent
<1>10. CopiesCounted'
  <2> SUFFICES ASSUME NEW f \in Events PROVE CopiesOf(f)'
    BY DEF CopiesCounted
  <2>1. /\ row'[f].status \in {"none", "pending", "publishing", "published", "failed"}
        /\ row'[f].retry \in Nat /\ row[f].retry \in Nat
        /\ Quota(row'[f].retry) \in Nat /\ Quota(row[f].retry) \in Nat
        /\ Box!Sent(f)' = Box!Sent(f) /\ Box!Sent(f) \in Nat /\ WriterAttempts \in Nat
    <3>1. /\ row'[f].status \in {"none", "pending", "publishing", "published", "failed"}
          /\ row'[f].retry \in Nat /\ row[f].retry \in Nat
      BY DEF BoxInv, BoxTypes
    <3>2. Box!Sent(f) \in Nat
      BY SentCount DEF BoxInv
    <3> QED
      BY <1>6, <3>1, <3>2, QuotaGrows, BoxConstants
  <2>2. CASE f = x
    <3>1. Open(f)' <=> row'[f].status \in {"publishing", "published"}
      BY <1>5, <2>2 DEF Open
    <3>2. Open(f)' => Box!Sent(f) <= Quota(row'[f].retry) + WriterAttempts
      BY <2>2, <3>1
    <3>3. ~Open(f)' => Box!Sent(f) <= Quota(row'[f].retry)
      BY <2>1, <2>2, <3>1
    <3>4. Box!Sent(f) <= Quota(row'[f].retry) + WriterAttempts
      BY <2>1, <3>2, <3>3
    <3> QED
      BY <1>5, <2>1, <2>2, <3>3, <3>4 DEF CopiesOf
  <2>3. CASE f # x
    <3>1. CopiesOf(f) /\ row'[f] = row[f]
      BY <2>3 DEF BoxInv, CopiesCounted
    <3>2. f \in Held(d)' => ~Open(f)
      BY <1>1, <2>3 DEF Open
    <3>3. Open(f) => Open(f)'
      <4> SUFFICES ASSUME Open(f), NEW q \in Dispatchers, f \in Held(q)' PROVE f = Box!Current(q)'
        BY <3>1 DEF Open
      <4>1. q # d
        BY <3>2
      <4> QED
        BY <1>4, <4>1 DEF Open
    <3>4. disp'[d].tried \in Nat
      BY <1>2, BoxConstants DEF Standings
    <3> QED
      BY <1>1, <1>4, <2>1, <3>1, <3>2, <3>3, <3>4 DEF CopiesOf
  <2> QED
    BY <2>2, <2>3
<1> QED
  BY <1>7, <1>8, <1>9, <1>10 DEF BoxInv

LEMMA MarkingKeeps ==
  ASSUME BoxInv, NEW d \in Dispatchers,
         Box!MarkPublished(d) \/ Box!MarkFailed(d) \/ Box!Restart(d)
  PROVE  BoxInv'
<1> DEFINE x == Box!Current(d)
<1>1. disp[d].pc # "idle" /\ UNCHANGED topic
  BY DEF Box!MarkPublished, Box!MarkFailed, Box!Restart, Box!At
<1>2. x \in Held(d) /\ x \in Events /\ Held(d) \subseteq Events
  BY <1>1, BatchShape DEF BoxInv
<1>3. Box!NextMessage(d) \/ Box!Return(d)
  BY DEF Box!MarkPublished, Box!MarkFailed, Box!Restart
<1>4. /\ row[x].status = "publishing" /\ disp[d].batch[x] = row[x].retry
      /\ row[x] \in [status : {"none", "pending", "publishing", "published", "failed"},
                     retry : 0 .. MaxRetries, due : BOOLEAN]
  BY <1>2 DEF BoxInv, BoxTypes, BatchesHold
<1>5. /\ Box!Sent(x) <= Quota(row[x].retry) + WriterAttempts /\ Box!Sent(x) \in Nat
      /\ Quota(row[x].retry + 1) = Quota(row[x].retry) + WriterAttempts
  BY <1>2, <1>4, SentCount, QuotaGrows DEF BoxInv, CopiesCounted, CopiesOf
<1>6. CASE UNCHANGED row
  BY <1>1, <1>3, <1>4, <1>5, <1>6, ForgettingKeeps DEF BoxInv, BoxTypes
<1>7. CASE Box!MarkPublished(d) /\ row' = [row EXCEPT ![x].status = "published"]
  <2>1. /\ row'[x] = [row[x] EXCEPT !.status = "published"]
        /\ \A e \in Events : e # x => row'[e] = row[e]
        /\ row' \in [Events -> [status : {"none", "pending", "publishing", "published", "failed"},
                                retry : 0 .. MaxRetries, due : BOOLEAN]]
    BY <1>2, <1>7 DEF BoxInv, BoxTypes
  <2>2. row'[x].status = "published" /\ row'[x].retry = row[x].retry
    BY <1>4, <2>1
  <2>3. x \in Box!Accepted
    BY <1>7 DEF BoxInv, MarksAreTrue, Box!MarkPublished, Box!At
  <2> QED
    BY <1>1, <1>3, <1>5, <2>1, <2>2, <2>3, ForgettingKeeps
<1>8. CASE row' = [row EXCEPT ![x] = [status |-> "failed", retry |-> disp[d].batch[x] + 1, due |-> FALSE]]
  <2>1. disp[d].batch[x] + 1 \in 0 .. MaxRetries
    <3>1. disp[d].batch \in [Held(d) -> 0 .. MaxRetries - 1]
      BY BatchShape DEF BoxInv
    <3>2. disp[d].batch[x] \in 0 .. MaxRetries - 1
      BY <1>2, <3>1
    <3> QED
      BY <3>2, BoxConstants
  <2>2. /\ row'[x] = [status |-> "failed", retry |-> row[x].retry + 1, due |-> FALSE]
        /\ \A e \in Events : e # x => row'[e] = row[e]
        /\ row' \in [Events -> [status : {"none", "pending", "publishing", "published", "failed"},
                                retry : 0 .. MaxRetries, due : BOOLEAN]]
    BY <1>2, <1>4, <1>8, <2>1 DEF BoxInv, BoxTypes
  <2>3. row'[x].status = "failed" /\ row'[x].retry = row[x].retry + 1
    BY <2>2
  <2> QED
    BY <1>1, <1>3, <1>5, <2>2, <2>3, ForgettingKeeps
<1>9. \/ UNCHANGED row
      \/ Box!MarkPublished(d) /\ row' = [row EXCEPT ![x].status = "published"]
      \/ row' = [row EXCEPT ![x] = [status |-> "failed", retry |-> disp[d].batch[x] + 1, due |-> FALSE]]
  BY DEF Box!MarkPublished, Box!MarkFailed, Box!Restart
<1> QED
  BY <1>6, <1>7, <1>8, <1>9

LEMMA BoxStep ==
  ASSUME BoxInv, [Box!Next]_boxVars
  PROVE  BoxInv'
<1>1. CASE UNCHANGED boxVars
  BY <1>1, SMTT(30) DEF boxVars, BoxInv, BoxTypes, BatchesHold, MarksAreTrue, CopiesCounted, CopiesOf, Open,
              Held, Box!PublishedWasSent, Box!Current, Box!Accepted, Box!Sent
<1>2. CASE Box!Next
  BY <1>2, RowsOfTheOutbox, ClaimKeeps, PublishKeeps, MarkingKeeps DEF Box!Next, Box!RunOnce
<1> QED
  BY <1>1, <1>2

LEMMA BoxStart == Box!Init => BoxInv
<1> SUFFICES ASSUME Box!Init PROVE BoxInv
  OBVIOUS
<1>1. \A d \in Dispatchers : disp[d] = [pc |-> "idle", batch |-> Box!NoBatch, tried |-> 0]
  BY DEF Box!Init, Box!Idle, Box!With
<1>2. Box!NoBatch \in Batches /\ DOMAIN Box!NoBatch = {}
  <2>1. Box!NoBatch \in [{} -> 0 .. MaxRetries - 1]
    BY DEF Box!NoBatch
  <2> QED
    BY <2>1 DEF Batches
<1>3. disp \in [Dispatchers -> Standings]
  BY <1>2, BoxConstants DEF Box!Init, Box!Idle, Box!With, Standings
<1>4. \A e \in Events : row[e] = [status |-> "none", retry |-> 0, due |-> TRUE]
  BY DEF Box!Init
<1>5. topic = << >>
  BY DEF Box!Init
<1>6. BoxTypes
  <2>1. row \in [Events -> [status : {"none", "pending", "publishing", "published", "failed"},
                            retry : 0 .. MaxRetries, due : BOOLEAN]]
    BY BoxConstants DEF Box!Init
  <2> QED
    BY <1>1, <1>2, <1>3, <1>5, <2>1 DEF BoxTypes
<1>7. BatchesHold
  BY <1>1, <1>2 DEF BatchesHold, Held
<1>8. MarksAreTrue
  BY <1>1, <1>4 DEF MarksAreTrue, Box!PublishedWasSent
<1>9. CopiesCounted
  <2>1. \A e \in Events : Box!Sent(e) = 0
    <3>1. \A e \in Events : {i \in DOMAIN topic : topic[i] = e} = {}
      BY <1>5
    <3> QED
      BY <3>1, FS_EmptySet, SameCardinality DEF Box!Sent
  <2>2. Quota(0) \in Nat
    BY QuotaGrows
  <2>3. \A d \in Dispatchers : disp[d].pc = "idle"
    BY <1>1
  <2> QED
    BY <1>4, <2>1, <2>2, <2>3, BoxConstants DEF CopiesCounted, CopiesOf
<1> QED
  BY <1>6, <1>7, <1>8, <1>9 DEF BoxInv

LEMMA BoxInvKeeps == BoxInv => Box!TypeOK /\ Box!OneHolder /\ Box!PublishedWasSent /\ Box!CopiesAreRetries
<1> SUFFICES ASSUME BoxInv
             PROVE  Box!TypeOK /\ Box!OneHolder /\ Box!PublishedWasSent /\ Box!CopiesAreRetries
  OBVIOUS
<1>1. Box!TypeOK /\ Box!PublishedWasSent
  BY TypesAreBoxTypes DEF BoxInv, MarksAreTrue
<1>2. Box!OneHolder
  BY DEF BoxInv, BatchesHold, Held, Box!OneHolder
<1>3. Box!CopiesAreRetries
  <2> SUFFICES ASSUME NEW e \in Events
               PROVE  Box!Sent(e) <= Quota(row[e].retry
                        + (IF row[e].status \in {"pending", "failed"} THEN 0 ELSE 1))
    BY DEF Box!CopiesAreRetries, Quota
  <2>1. row[e].retry \in Nat /\ CopiesOf(e)
    BY DEF BoxInv, BoxTypes, CopiesCounted
  <2>2. CASE row[e].status \in {"pending", "failed"}
    BY <2>1, <2>2 DEF CopiesOf, Open
  <2>3. CASE row[e].status \notin {"pending", "failed"}
    BY <2>1, <2>3, QuotaGrows DEF CopiesOf
  <2> QED
    BY <2>2, <2>3
<1> QED
  BY <1>1, <1>2, <1>3

(* OutboxKept: however many dispatchers run, fail and are restarted, a row is in the hands
   of at most one, what is marked published was accepted by Kafka, and copies of an event
   come from attempts that were counted, plus the last one, with no more than
   WriterAttempts of each. *)
THEOREM OutboxIsKept == ServicesSpec => []OutboxKept
<1>1. ServicesInit => BoxInv
  BY BoxStart DEF ServicesInit
<1>2. BoxInv /\ [ServicesNext]_servicesVars => BoxInv'
  <2> SUFFICES ASSUME BoxInv, [ServicesNext]_servicesVars PROVE BoxInv'
    OBVIOUS
  <2>1. [Box!Next]_boxVars
    BY DEF ServicesNext, servicesVars
  <2> QED
    BY <2>1, BoxStep
<1>3. BoxInv => OutboxKept
  BY BoxInvKeeps DEF OutboxKept
<1> QED
  BY <1>1, <1>2, <1>3, PTL DEF ServicesSpec

------------------------------------------------------------------------------
(* The roles of users.  While requests overlap: as long as there is no user, whoever is
   about to be inserted will be superadmin.  One after the other: what a request has read
   is still so when it writes. *)

FounderInv ==
  /\ Overlapping!TypeOK /\ Overlapping!FirstIsFounder
  /\ \A r \in Threads :
       /\ asking[r].pc \in {"count", "update"} => asking[r].user \in Overlapping!Rows
       /\ asking[r].pc = "create" /\ Overlapping!Rows = {} => asking[r].role = "superadmin"

LEMMA FounderStep ==
  ASSUME FounderInv, [Overlapping!Next]_roleVars
  PROVE  FounderInv'
<1> USE RolesAssumption DEF Overlapping!UserAssumption
<1>1. ASSUME NEW r \in Threads, NEW u \in Users, Overlapping!Register(r, u)
      PROVE  FounderInv'
  <2>1. asking'[r] = [pc |-> "create", user |-> u, role |-> Overlapping!FirstRole]
    BY <1>1 DEF Overlapping!Register, FounderInv, Overlapping!TypeOK
  <2>2. asking'[r].pc = "create" /\ asking'[r].user = u
        /\ asking'[r].role = Overlapping!FirstRole
    BY <2>1
  <2>3. Overlapping!FirstRole \in Overlapping!Roles
    BY DEF Overlapping!FirstRole, Overlapping!Roles
  <2>4. \A q \in Threads : q # r => asking'[q] = asking[q]
    BY <1>1 DEF Overlapping!Register, FounderInv, Overlapping!TypeOK
  <2>5. UNCHANGED <<role, token, founders>> /\ Overlapping!Rows' = Overlapping!Rows
    BY <1>1 DEF Overlapping!Register, Overlapping!Rows
  <2>6. Overlapping!TypeOK'
    BY <1>1, <2>2, <2>3, <2>4, <2>5
       DEF Overlapping!Register, FounderInv, Overlapping!TypeOK
  <2> QED
    BY <2>2, <2>4, <2>5, <2>6
       DEF FounderInv, Overlapping!FirstIsFounder, Overlapping!FirstRole
<1>2. ASSUME NEW r \in Threads, NEW u \in Users, NEW caller \in Users, NEW a \in Overlapping!Roles,
             Overlapping!UpdateRole(r, caller, u, a)
      PROVE  FounderInv'
  <2>1. PICK pc \in {"count", "update"} :
          /\ asking' = [asking EXCEPT ![r] = [pc |-> pc, user |-> u, role |-> a]]
          /\ pc = "count" => a # "superadmin"
    BY <1>2 DEF Overlapping!UpdateRole
  <2>2. asking'[r] = [pc |-> pc, user |-> u, role |-> a]
    BY <2>1 DEF FounderInv, Overlapping!TypeOK
  <2>3. asking'[r].pc = pc /\ asking'[r].user = u /\ asking'[r].role = a
    BY <2>2
  <2>4. \A q \in Threads : q # r => asking'[q] = asking[q]
    BY <2>1 DEF FounderInv, Overlapping!TypeOK
  <2>5. /\ UNCHANGED <<role, token, founders>> /\ Overlapping!Rows' = Overlapping!Rows
        /\ u \in Overlapping!Rows
    BY <1>2 DEF Overlapping!UpdateRole, Overlapping!Rows
  <2>6. Overlapping!TypeOK'
    BY <2>1, <2>3, <2>4, <2>5 DEF FounderInv, Overlapping!TypeOK
  <2> QED
    BY <2>3, <2>4, <2>5, <2>6 DEF FounderInv, Overlapping!FirstIsFounder
<1>3. ASSUME NEW r \in Threads, asking' = [asking EXCEPT ![r] = Overlapping!Idle]
      PROVE  /\ asking' \in [Threads -> [pc : {"idle", "create", "count", "update"},
                                         user : Users \cup {None}, role : Overlapping!Roles]]
             /\ asking'[r].pc = "idle"
             /\ \A q \in Threads : q # r => asking'[q] = asking[q]
  BY <1>3 DEF FounderInv, Overlapping!TypeOK, Overlapping!Idle, Overlapping!Roles
<1>4. ASSUME NEW r \in Threads, UNCHANGED <<role, token, founders>>,
             asking' = [asking EXCEPT ![r] = Overlapping!Idle]
      PROVE  FounderInv'
  <2>1. Overlapping!Rows' = Overlapping!Rows
    BY <1>4 DEF Overlapping!Rows
  <2>2. Overlapping!TypeOK'
    BY <1>3, <1>4, <2>1 DEF FounderInv, Overlapping!TypeOK
  <2> QED
    BY <1>3, <1>4, <2>1, <2>2 DEF FounderInv, Overlapping!FirstIsFounder
<1>5. ASSUME NEW r \in Threads, asking[r].pc \in {"create", "update"}, UNCHANGED token,
             role' = [role EXCEPT ![asking[r].user] = asking[r].role],
             asking' = [asking EXCEPT ![r] = Overlapping!Idle],
             IF asking[r].pc = "create" /\ asking[r].role = "superadmin"
             THEN founders' = founders \cup {asking[r].user} ELSE founders' = founders
      PROVE  FounderInv'
  <2> DEFINE u == asking[r].user
  <2>1. u \in Users /\ asking[r].role \in Overlapping!Roles
    BY <1>5 DEF FounderInv, Overlapping!TypeOK
  <2>2. Overlapping!Rows' = Overlapping!Rows \cup {u}
    BY <1>5, <2>1 DEF FounderInv, Overlapping!TypeOK, Overlapping!Rows, Overlapping!Roles
  <2>3. role' \in [Users -> Overlapping!Roles \cup {"none"}]
    BY <1>5, <2>1 DEF FounderInv, Overlapping!TypeOK
  <2>4. Overlapping!TypeOK'
    BY <1>3, <1>5, <2>2, <2>3, ZenonT(60) DEF FounderInv, Overlapping!TypeOK
  <2>5. founders' # {}
    BY <1>5, <2>1 DEF FounderInv, Overlapping!FirstIsFounder
  <2> QED
    BY <1>3, <1>5, <2>2, <2>4, <2>5 DEF FounderInv, Overlapping!FirstIsFounder
<1>6. ASSUME NEW r \in Threads, Overlapping!Create(r) PROVE FounderInv'
  BY <1>4, <1>5, <1>6 DEF Overlapping!Create
<1>7. ASSUME NEW r \in Threads, Overlapping!Write(r) PROVE FounderInv'
  BY <1>5, <1>7 DEF Overlapping!Write
<1>8. ASSUME NEW r \in Threads, Overlapping!Count(r) PROVE FounderInv'
  <2>1. CASE asking' = [asking EXCEPT ![r] = Overlapping!Idle]
    BY <1>4, <1>8, <2>1 DEF Overlapping!Count
  <2>2. CASE asking' = [asking EXCEPT ![r].pc = "update"]
    <3>1. /\ asking' \in [Threads -> [pc : {"idle", "create", "count", "update"},
                                      user : Users \cup {None}, role : Overlapping!Roles]]
          /\ asking'[r].pc = "update" /\ asking'[r].user = asking[r].user
          /\ \A q \in Threads : q # r => asking'[q] = asking[q]
      BY <2>2 DEF FounderInv, Overlapping!TypeOK
    <3>2. UNCHANGED <<role, token, founders>> /\ Overlapping!Rows' = Overlapping!Rows
      BY <1>8 DEF Overlapping!Count, Overlapping!Rows
    <3>3. asking[r].pc = "count"
      BY <1>8 DEF Overlapping!Count
    <3>4. Overlapping!TypeOK'
      BY <3>1, <3>2, <3>3 DEF FounderInv, Overlapping!TypeOK
    <3> QED
      BY <3>1, <3>2, <3>3, <3>4 DEF FounderInv, Overlapping!FirstIsFounder
  <2> QED
    BY <1>8, <2>1, <2>2 DEF Overlapping!Count
<1>9. ASSUME NEW r \in Threads, Overlapping!Fails(r) PROVE FounderInv'
  BY <1>4, <1>9 DEF Overlapping!Fails
<1>10. ASSUME NEW u \in Users, Overlapping!Login(u) PROVE FounderInv'
  <2>1. UNCHANGED <<role, asking, founders>> /\ Overlapping!Rows' = Overlapping!Rows
    BY <1>10 DEF Overlapping!Login, Overlapping!Rows
  <2>2. Overlapping!TypeOK'
    BY <1>10, <2>1 DEF FounderInv, Overlapping!TypeOK, Overlapping!Login
  <2> QED
    BY <2>1, <2>2 DEF FounderInv, Overlapping!FirstIsFounder
<1>11. CASE UNCHANGED roleVars
  BY <1>11 DEF roleVars, FounderInv, Overlapping!TypeOK, Overlapping!FirstIsFounder, Overlapping!Rows
<1> QED
  BY <1>1, <1>2, <1>6, <1>7, <1>8, <1>9, <1>10, <1>11 DEF Overlapping!Next

\* One request at a time: what it knows of the table is so.
SerialInv ==
  /\ Serial!TypeOK /\ Serial!SuperadminRemains /\ Serial!OneFounder
  /\ \A r, q \in Threads : r # q => asking[r].pc = "idle" \/ asking[q].pc = "idle"
  /\ \A r \in Threads :
       /\ asking[r].pc = "create" => /\ asking[r].user \notin Serial!Rows
                                     /\ asking[r].role = Serial!FirstRole
       /\ asking[r].pc \in {"count", "update"} => asking[r].user \in Serial!Rows
       /\ asking[r].pc = "update" /\ asking[r].role # "superadmin"
            /\ role[asking[r].user] = "superadmin"
            => \E u \in Users : u # asking[r].user /\ role[u] = "superadmin"

(* More than one superadmin means another one. *)
LEMMA AnotherOne ==
  ASSUME Serial!TypeOK, NEW u \in Users, ~ (Serial!Cardinality(Serial!With("superadmin")) <= 1)
  PROVE  \E v \in Users : v # u /\ role[v] = "superadmin"
<1> SUFFICES ASSUME \A v \in Users : role[v] = "superadmin" => v = u PROVE FALSE
  OBVIOUS
<1>1. Serial!With("superadmin") = {} \/ Serial!With("superadmin") = {u}
  BY DEF Serial!With
<1>2. Serial!Cardinality(Serial!With("superadmin")) = Cardinality(Serial!With("superadmin"))
  BY DEF Serial!Cardinality, Cardinality
<1>3. Cardinality({}) = 0 /\ Cardinality({u}) = 1
  BY FS_EmptySet, FS_Singleton
<1> QED
  BY <1>1, <1>2, <1>3

LEMMA SerialStep ==
  ASSUME SerialInv, [Serial!Next]_roleVars
  PROVE  SerialInv'
<1> USE RolesAssumption DEF Serial!UserAssumption
<1>a. ASSUME NEW r \in Threads, Serial!MayStart(r)
      PROVE  \A q \in Threads : asking[q].pc = "idle"
  BY <1>a DEF Serial!MayStart, Serial!Running
<1>b. ASSUME UNCHANGED role PROVE /\ Serial!Rows' = Serial!Rows /\ Serial!FirstRole' = Serial!FirstRole
                                  /\ Serial!With("superadmin")' = Serial!With("superadmin")
  BY <1>b DEF Serial!Rows, Serial!FirstRole, Serial!With
<1>1. ASSUME NEW r \in Threads, NEW u \in Users, Serial!Register(r, u)
      PROVE  SerialInv'
  <2>1. asking'[r] = [pc |-> "create", user |-> u, role |-> Serial!FirstRole]
    BY <1>1 DEF Serial!Register, SerialInv, Serial!TypeOK
  <2>2. asking'[r].pc = "create" /\ asking'[r].user = u /\ asking'[r].role = Serial!FirstRole
    BY <2>1
  <2>3. Serial!FirstRole \in Serial!Roles
    BY DEF Serial!FirstRole, Serial!Roles
  <2>4. \A q \in Threads : q # r => asking'[q] = asking[q] /\ asking[q].pc = "idle"
    BY <1>1, <1>a DEF Serial!Register, SerialInv, Serial!TypeOK
  <2>5. UNCHANGED <<role, token, founders>> /\ u \notin Serial!Rows
    BY <1>1 DEF Serial!Register
  <2>6. Serial!TypeOK'
    BY <1>1, <1>b, <2>2, <2>3, <2>4, <2>5 DEF Serial!Register, SerialInv, Serial!TypeOK
  <2> QED
    BY <1>b, <2>2, <2>4, <2>5, <2>6 DEF SerialInv, Serial!SuperadminRemains, Serial!OneFounder
<1>2. ASSUME NEW r \in Threads, NEW u \in Users, NEW caller \in Users, NEW a \in Serial!Roles,
             Serial!UpdateRole(r, caller, u, a)
      PROVE  SerialInv'
  <2>1. PICK pc \in {"count", "update"} :
          /\ asking' = [asking EXCEPT ![r] = [pc |-> pc, user |-> u, role |-> a]]
          /\ pc = "count" => a # "superadmin"
          /\ pc = "update" => role[u] # "superadmin" \/ a = "superadmin"
    BY <1>2 DEF Serial!UpdateRole
  <2>2. asking'[r] = [pc |-> pc, user |-> u, role |-> a]
    BY <2>1 DEF SerialInv, Serial!TypeOK
  <2>3. asking'[r].pc = pc /\ asking'[r].user = u /\ asking'[r].role = a
    BY <2>2
  <2>4. \A q \in Threads : q # r => asking'[q] = asking[q] /\ asking[q].pc = "idle"
    BY <1>2, <1>a, <2>1 DEF SerialInv, Serial!TypeOK, Serial!UpdateRole
  <2>5. UNCHANGED <<role, token, founders>> /\ u \in Serial!Rows
    BY <1>2 DEF Serial!UpdateRole
  <2>6. Serial!TypeOK'
    BY <1>b, <2>1, <2>3, <2>4, <2>5 DEF SerialInv, Serial!TypeOK
  <2> QED
    BY <1>b, <2>1, <2>3, <2>4, <2>5, <2>6
       DEF SerialInv, Serial!SuperadminRemains, Serial!OneFounder
<1>3. ASSUME NEW r \in Threads, asking' = [asking EXCEPT ![r] = Serial!Idle]
      PROVE  /\ asking' \in [Threads -> [pc : {"idle", "create", "count", "update"},
                                         user : Users \cup {None}, role : Serial!Roles]]
             /\ asking'[r].pc = "idle"
             /\ \A q \in Threads : q # r => asking'[q] = asking[q]
  BY <1>3 DEF SerialInv, Serial!TypeOK, Serial!Idle, Serial!Roles
<1>4. ASSUME NEW r \in Threads, UNCHANGED <<role, token, founders>>,
             asking' = [asking EXCEPT ![r] = Serial!Idle]
      PROVE  SerialInv'
  <2>1. Serial!TypeOK'
    BY <1>3, <1>4, <1>b DEF SerialInv, Serial!TypeOK
  <2>2. Serial!SuperadminRemains' /\ Serial!OneFounder'
    BY <1>4, <1>b DEF SerialInv, Serial!SuperadminRemains, Serial!OneFounder
  <2>3. \A q \in Threads : asking'[q].pc # "idle" => asking'[q] = asking[q]
    BY <1>3, <1>4
  <2>4. \A q, t \in Threads : q # t => asking'[q].pc = "idle" \/ asking'[t].pc = "idle"
    BY <1>3, <2>3 DEF SerialInv
  <2>5. ASSUME NEW q \in Threads, asking'[q].pc # "idle"
        PROVE  /\ asking'[q].pc = "create" =>
                    asking'[q].user \notin Serial!Rows' /\ asking'[q].role = Serial!FirstRole'
               /\ asking'[q].pc \in {"count", "update"} => asking'[q].user \in Serial!Rows'
               /\ asking'[q].pc = "update" /\ asking'[q].role # "superadmin"
                  /\ role'[asking'[q].user] = "superadmin" =>
                    \E v \in Users : v # asking'[q].user /\ role'[v] = "superadmin"
    BY <1>4, <1>b, <2>3, <2>5 DEF SerialInv
  <2> QED
    BY <2>1, <2>2, <2>4, <2>5 DEF SerialInv
<1>5. ASSUME NEW r \in Threads, asking[r].pc \in {"create", "update"}, UNCHANGED token,
             role' = [role EXCEPT ![asking[r].user] = asking[r].role],
             asking' = [asking EXCEPT ![r] = Serial!Idle],
             IF asking[r].pc = "create" /\ asking[r].role = "superadmin"
             THEN founders' = founders \cup {asking[r].user} ELSE founders' = founders
      PROVE  SerialInv'
  <2> DEFINE u == asking[r].user
  <2>1. u \in Users /\ asking[r].role \in Serial!Roles
    BY <1>5 DEF SerialInv, Serial!TypeOK
  <2>2. Serial!Rows' = Serial!Rows \cup {u}
    BY <1>5, <2>1 DEF SerialInv, Serial!TypeOK, Serial!Rows, Serial!Roles
  <2>3. /\ role' \in [Users -> Serial!Roles \cup {"none"}]
        /\ role'[u] = asking[r].role /\ \A v \in Users : v # u => role'[v] = role[v]
    BY <1>5, <2>1 DEF SerialInv, Serial!TypeOK
  <2>4. Serial!TypeOK'
    <3>1. founders' \subseteq Serial!Rows'
      BY <1>5, <2>2 DEF SerialInv, Serial!TypeOK
    <3>2. token' \in [Users -> Serial!Roles \cup {"none"}]
      BY <1>5 DEF SerialInv, Serial!TypeOK
    <3>3. \A q \in Threads : /\ asking'[q].pc # "idle" => asking'[q].user # None
                             /\ asking'[q].pc = "count" => asking'[q].role # "superadmin"
      BY <1>3, <1>5 DEF SerialInv, Serial!TypeOK
    <3>4. asking' \in [Threads -> [pc : {"idle", "create", "count", "update"},
                                   user : Users \cup {None}, role : Serial!Roles]]
      BY <1>3, <1>5
    <3>5. role' \in [Users -> Serial!Roles \cup {"none"}]
      BY <2>3
    <3> QED
      BY <3>1, <3>2, <3>3, <3>4, <3>5 DEF Serial!TypeOK
  <2>5. Serial!SuperadminRemains'
    <3>1. \E v \in Users : role'[v] = "superadmin"
      <4>1. CASE asking[r].role = "superadmin"
        BY <2>1, <2>3, <4>1
      <4>2. CASE asking[r].role # "superadmin" /\ Serial!Rows # {}
        <5>1. PICK v \in Users : role[v] = "superadmin"
          BY <4>2 DEF SerialInv, Serial!SuperadminRemains, Serial!With
        <5>2. CASE v = u
          <6>1. asking[r].pc = "update"
            BY <1>5, <5>1, <5>2 DEF SerialInv, Serial!Rows
          <6> QED
            BY <2>3, <4>2, <5>1, <5>2, <6>1 DEF SerialInv
        <5> QED
          BY <2>3, <5>1, <5>2
      <4>3. CASE Serial!Rows = {}
        BY <1>5, <2>1, <2>3, <4>3 DEF SerialInv, Serial!FirstRole
      <4> QED
        BY <4>1, <4>2, <4>3
    <3> QED
      BY <3>1 DEF Serial!SuperadminRemains, Serial!With
  <2>6. Serial!OneFounder'
    <3>1. CASE asking[r].pc = "create" /\ asking[r].role = "superadmin"
      <4>1. Serial!Rows = {} /\ founders = {}
        BY <3>1 DEF SerialInv, Serial!FirstRole, Serial!TypeOK
      <4>2. founders' = {u} /\ Cardinality({u}) = 1
        BY <1>5, <3>1, <4>1, FS_Singleton
      <4> QED
        BY <4>2 DEF Serial!OneFounder, Serial!Cardinality, Cardinality
    <3>2. CASE ~ (asking[r].pc = "create" /\ asking[r].role = "superadmin")
      BY <1>5, <3>2 DEF SerialInv, Serial!OneFounder
    <3> QED
      BY <3>1, <3>2
  <2>7. \A q \in Threads : asking'[q].pc = "idle"
    BY <1>3, <1>5 DEF SerialInv
  <2> QED
    BY <2>4, <2>5, <2>6, <2>7 DEF SerialInv
<1>6. ASSUME NEW r \in Threads, Serial!Create(r) PROVE SerialInv'
  BY <1>4, <1>5, <1>6 DEF Serial!Create
<1>7. ASSUME NEW r \in Threads, Serial!Write(r) PROVE SerialInv'
  BY <1>5, <1>7 DEF Serial!Write
<1>8. ASSUME NEW r \in Threads, Serial!Count(r) PROVE SerialInv'
  <2>1. CASE asking' = [asking EXCEPT ![r] = Serial!Idle]
    BY <1>4, <1>8, <2>1 DEF Serial!Count
  <2>2. CASE /\ asking' = [asking EXCEPT ![r].pc = "update"]
             /\ ~ (Serial!Cardinality(Serial!With("superadmin")) <= 1)
    <3>1. /\ asking' \in [Threads -> [pc : {"idle", "create", "count", "update"},
                                   user : Users \cup {None}, role : Serial!Roles]]
          /\ asking'[r].pc = "update" /\ asking'[r].user = asking[r].user
          /\ asking'[r].role = asking[r].role
          /\ \A q \in Threads : q # r => asking'[q] = asking[q]
      BY <2>2 DEF SerialInv, Serial!TypeOK
    <3>2. UNCHANGED <<role, token, founders>>
      BY <1>8 DEF Serial!Count
    <3>3. asking[r].pc = "count" /\ asking[r].user \in Users
      BY <1>8 DEF Serial!Count, SerialInv, Serial!Rows
    <3>4. Serial!TypeOK'
      BY <1>b, <3>1, <3>2, <3>3 DEF SerialInv, Serial!TypeOK
    <3>5. \E v \in Users : v # asking[r].user /\ role[v] = "superadmin"
      BY <2>2, <3>3, AnotherOne DEF SerialInv
    <3> QED
      BY <1>b, <3>1, <3>2, <3>3, <3>4, <3>5
         DEF SerialInv, Serial!SuperadminRemains, Serial!OneFounder
  <2> QED
    BY <1>8, <2>1, <2>2 DEF Serial!Count
<1>9. ASSUME NEW r \in Threads, Serial!Fails(r) PROVE SerialInv'
  BY <1>4, <1>9 DEF Serial!Fails
<1>10. ASSUME NEW u \in Users, Serial!Login(u) PROVE SerialInv'
  <2>1. UNCHANGED <<role, asking, founders>>
    BY <1>10 DEF Serial!Login
  <2>2. Serial!TypeOK'
    BY <1>10, <1>b, <2>1 DEF SerialInv, Serial!TypeOK, Serial!Login
  <2> QED
    BY <1>b, <2>1, <2>2 DEF SerialInv, Serial!SuperadminRemains, Serial!OneFounder
<1>11. CASE UNCHANGED roleVars
  BY <1>11, <1>b DEF roleVars, SerialInv, Serial!TypeOK, Serial!SuperadminRemains, Serial!OneFounder
<1> QED
  BY <1>1, <1>2, <1>6, <1>7, <1>8, <1>9, <1>10, <1>11 DEF Serial!Next

LEMMA RolesStart ==
  /\ Overlapping!Init => FounderInv
  /\ Serial!Init => SerialInv
<1> SUFFICES ASSUME role = [u \in Users |-> "none"], token = [u \in Users |-> "none"],
                    asking = [r \in Threads |-> Serial!Idle], founders = {}
             PROVE  FounderInv /\ SerialInv
  BY DEF Overlapping!Init, Serial!Init, Overlapping!Idle, Serial!Idle
<1>1. Serial!Rows = {} /\ Overlapping!Rows = {}
  BY DEF Serial!Rows, Overlapping!Rows
<1>2. Serial!TypeOK /\ Overlapping!TypeOK
  BY <1>1 DEF Serial!TypeOK, Overlapping!TypeOK, Serial!Idle, Serial!Roles, Overlapping!Roles
<1>3. Serial!OneFounder
  BY FS_EmptySet DEF Serial!OneFounder, Serial!Cardinality, Cardinality
<1> QED
  BY <1>1, <1>2, <1>3 DEF FounderInv, SerialInv, Overlapping!FirstIsFounder,
                          Serial!SuperadminRemains, Serial!Idle

(* RolesKept: the first user to be inserted is superadmin, however registrations overlap
   and fail; and of requests one after the other none takes the last superadmin away, nor
   does registration make a second one. *)
THEOREM RolesAreKept == ServicesSpec => []RolesKept
<1> DEFINE Inv == /\ part = "roles" => FounderInv
                  /\ part = "serial roles" => SerialInv
<1>1. ServicesInit => Inv
  <2>1. Serial!Init => Overlapping!Init
    BY DEF Serial!Init, Overlapping!Init, Serial!Idle, Overlapping!Idle
  <2> QED
    BY <2>1, RolesStart DEF ServicesInit
<1>2. Inv /\ [ServicesNext]_servicesVars => Inv'
  <2> SUFFICES ASSUME Inv, [ServicesNext]_servicesVars PROVE Inv'
    OBVIOUS
  <2>1. /\ part' = part
        /\ part = "roles" => [Overlapping!Next]_roleVars
        /\ part = "serial roles" => [Serial!Next]_roleVars
    BY DEF ServicesNext, servicesVars
  <2>2. part = "roles" => FounderInv'
    BY <2>1, FounderStep
  <2>3. part = "serial roles" => SerialInv'
    BY <2>1, SerialStep
  <2> QED
    BY <2>1, <2>2, <2>3
<1>3. Inv => RolesKept
  BY DEF RolesKept, FounderInv, SerialInv
<1> QED
  BY <1>1, <1>2, <1>3, PTL DEF ServicesSpec

------------------------------------------------------------------------------
(* The cart, under requests that overlap.  What a request has seen of a row is no more than
   what had been put in and set by then, and those sums only grow. *)

\* The units that the requests of one kind that are done have asked for of SKU k.
Units(kind, k) ==
  {u \in CartRequests \X Nat :
     /\ asked[u[1]].kind = kind /\ asked[u[1]].sku = k /\ asked[u[1]].pc \in {"ok", "lost"}
     /\ u[2] \in 1 .. asked[u[1]].quantity}

Asked(k) == Cardinality(Units("add", k)) + Cardinality(Units("set", k))

\* A row belongs to a request that is done and was for its SKU; so did the rows that are gone.
RowsKnown ==
  /\ \A k \in CrowdSkus :
       IF item[k].id = None THEN item[k] = Crowd!NoItem
       ELSE asked[item[k].id].pc \in {"ok", "lost"} /\ asked[item[k].id].sku = k
  /\ \A g \in gone : asked[g].pc \in {"ok", "lost"}
  /\ Crowd!RemovedStaysRemoved

AmountsKnown ==
  /\ \A k \in CrowdSkus :
       /\ IsFiniteSet(Units("add", k)) /\ IsFiniteSet(Units("set", k))
       /\ item[k].quantity <= Asked(k)
  /\ \A r \in CartRequests : asked[r].pc = "running" =>
       /\ asked[r].kind \in {"add", "set"} /\ asked[r].sku \in CrowdSkus
       /\ asked[r].quantity \in Quantities
       /\ \A k \in CrowdSkus : asked[r].sku = k => asked[r].seen.quantity <= Asked(k)
       /\ asked[r].seen.id = None => asked[r].seen = Crowd!NoItem

CrowdInv == Crowd!TypeOK /\ RowsKnown /\ AmountsKnown

LEMMA CartConstants ==
  /\ None \notin CartRequests
  /\ Top \in Nat \ {0} /\ Quantities \subseteq 1 .. Top /\ Quantities \subseteq Nat
BY BasketAssumption DEF Crowd!CartAssumption

(* The sum of what requests ask for counts their units. *)
LEMMA SumsCountUnits ==
  ASSUME Crowd!TypeOK, NEW k \in CrowdSkus
  PROVE  Crowd!Sum(Crowd!Adds(k)) + Crowd!Sum(Crowd!Sets(k)) = Asked(k)
<1>1. ASSUME NEW r \in CartRequests PROVE asked[r].quantity \in Nat
  <2>1. asked[r] \in [pc : {"new", "running", "ok", "lost", "error"},
                     kind : {"none", "add", "set", "remove", "clear"},
                     sku : CrowdSkus \cup {None}, quantity : Quantities \cup {0},
                     seen : [id : CartRequests \cup {None}, quantity : -(Top + 1) .. Top]]
    BY DEF Crowd!TypeOK
  <2>2. asked[r].quantity \in Quantities \cup {0}
    BY <2>1
  <2>3. Quantities \cup {0} \subseteq Nat
    BY CartConstants
  <2> QED
    BY <2>2, <2>3
<1>2. UNION {{r} \X (1 .. asked[r].quantity) : r \in Crowd!Adds(k)} = Units("add", k)
  BY <1>1 DEF Crowd!Adds, Crowd!Effective, Units
<1>3. UNION {{r} \X (1 .. asked[r].quantity) : r \in Crowd!Sets(k)} = Units("set", k)
  BY <1>1 DEF Crowd!Sets, Crowd!Effective, Units
<1>4. \A S : Crowd!Cardinality(S) = Cardinality(S)
  BY DEF Crowd!Cardinality, Cardinality
<1> QED
  BY <1>2, <1>3, <1>4 DEF Crowd!Sum, Asked

LEMMA UnitsAdded ==
  ASSUME NEW U, IsFiniteSet(U), NEW r, NEW q \in Nat, \A n : <<r, n>> \notin U
  PROVE  /\ IsFiniteSet(U \cup ({r} \X (1 .. q)))
         /\ Cardinality(U \cup ({r} \X (1 .. q))) = Cardinality(U) + q
<1> DEFINE V == {r} \X (1 .. q)
<1>1. IsFiniteSet(1 .. q) /\ Cardinality(1 .. q) = q
  BY FS_Interval
<1>2. IsFiniteSet({r}) /\ Cardinality({r}) = 1
  BY FS_Singleton
<1>3. IsFiniteSet(V) /\ Cardinality(V) = q
  <2>1. IsFiniteSet(V) /\ Cardinality(V) = Cardinality({r}) * Cardinality(1 .. q)
    <3> HIDE DEF V
    <3> QED
      BY <1>1, <1>2, FS_Product DEF V
  <2>2. 1 * q = q
    OBVIOUS
  <2> QED
    BY <1>1, <1>2, <2>1, <2>2
<1>4. U \cap V = {}
  OBVIOUS
<1>5. Cardinality(U \cap V) = 0
  BY <1>4, FS_EmptySet
<1>6. Cardinality(U) \in Nat
  BY FS_CardinalityType
<1> HIDE DEF V
<1>7. IsFiniteSet(U \cup V) /\ Cardinality(U \cup V) = Cardinality(U) + Cardinality(V) - 0
  BY <1>3, <1>5, FS_Union
<1>8. IsFiniteSet(U \cup V) /\ Cardinality(U \cup V) = Cardinality(U) + q
  BY <1>3, <1>6, <1>7
<1> QED
  BY <1>8 DEF V

(* A request is done: what it asked for counts from now on. *)
LEMMA RequestCounts ==
  ASSUME CrowdInv, NEW r \in CartRequests, asked[r].pc = "running", NEW done \in {"ok", "lost"},
         asked' = [asked EXCEPT ![r].pc = done], NEW k \in CrowdSkus
  PROVE  /\ IsFiniteSet(Units("add", k))' /\ IsFiniteSet(Units("set", k))'
         /\ Asked(k)' = Asked(k) + (IF asked[r].sku = k THEN asked[r].quantity ELSE 0)
<1> DEFINE V == {r} \X (1 .. asked[r].quantity)
           mine(kind) == asked[r].kind = kind /\ asked[r].sku = k
<1>1. /\ asked[r].quantity \in Nat /\ asked[r].kind \in {"add", "set"}
      /\ \A q \in CartRequests : asked[q].quantity \in Nat
  BY CartConstants DEF CrowdInv, AmountsKnown, Crowd!TypeOK
<1>2. \A q \in CartRequests :
        /\ asked'[q].kind = asked[q].kind /\ asked'[q].sku = asked[q].sku
        /\ asked'[q].quantity = asked[q].quantity
        /\ asked'[q].pc = IF q = r THEN done ELSE asked[q].pc
  BY DEF CrowdInv, Crowd!TypeOK
<1>3. ASSUME NEW kind \in {"add", "set"}
      PROVE  /\ Units(kind, k)' = IF mine(kind) THEN Units(kind, k) \cup V ELSE Units(kind, k)
             /\ IsFiniteSet(Units(kind, k)')
             /\ Cardinality(Units(kind, k)') =
                  Cardinality(Units(kind, k)) + (IF mine(kind) THEN asked[r].quantity ELSE 0)
             /\ Cardinality(Units(kind, k)) \in Nat
  <2>1. Units(kind, k)' = IF mine(kind) THEN Units(kind, k) \cup V ELSE Units(kind, k)
    BY <1>1, <1>2 DEF Units
  <2>2. IsFiniteSet(Units(kind, k)) /\ \A n : <<r, n>> \notin Units(kind, k)
    <3>1. IsFiniteSet(Units(kind, k))
      BY DEF CrowdInv, AmountsKnown
    <3>2. \A n : <<r, n>> \notin Units(kind, k)
      BY DEF Units
    <3> QED
      BY <3>1, <3>2
  <2>3. IsFiniteSet(Units(kind, k) \cup V)
        /\ Cardinality(Units(kind, k) \cup V) = Cardinality(Units(kind, k)) + asked[r].quantity
    BY <1>1, <2>2, UnitsAdded, ZenonT(60)
  <2>4. Cardinality(Units(kind, k)) \in Nat
    BY <2>2, FS_CardinalityType
  <2> QED
    BY <2>1, <2>2, <2>3, <2>4
<1> QED
  BY <1>1, <1>3 DEF Asked

(* Steps that finish no addition and no update leave what is counted alone. *)
LEMMA NothingCounts ==
  ASSUME CrowdInv, NEW r \in CartRequests, asked[r].pc \notin {"ok", "lost"},
         \A q \in CartRequests : q # r => asked'[q] = asked[q],
         asked'[r].pc \in {"ok", "lost"} => asked'[r].kind \notin {"add", "set"}, NEW k \in CrowdSkus
  PROVE  /\ IsFiniteSet(Units("add", k))' /\ IsFiniteSet(Units("set", k))'
         /\ Asked(k)' = Asked(k)
<1>1. Units("add", k)' = Units("add", k) /\ Units("set", k)' = Units("set", k)
  BY DEF Units
<1> QED
  BY <1>1 DEF Asked, CrowdInv, AmountsKnown

(* A request begins, or ends without having put anything in: what others know stays so. *)
LEMMA OthersKnow ==
  ASSUME CrowdInv, NEW r \in CartRequests, asked[r].pc \notin {"ok", "lost"}, Crowd!TypeOK',
         \A q \in CartRequests : q # r => asked'[q] = asked[q],
         asked'[r].pc \in {"ok", "lost"} => asked'[r].kind \notin {"add", "set"},
         \A k \in CrowdSkus : item'[k] = item[k] \/ item'[k] = Crowd!NoItem,
         \A g \in gone' : g \in gone \/ \E k \in CrowdSkus : item'[k] # item[k] /\ g = item[k].id,
         asked'[r].pc = "running" =>
           /\ asked'[r].kind \in {"add", "set"} /\ asked'[r].quantity \in Quantities
           /\ asked'[r].sku \in CrowdSkus
           /\ asked'[r].seen = item[asked'[r].sku] \/ asked'[r] = asked[r]
  PROVE  CrowdInv'
<1> USE CartConstants
<1>1. ASSUME NEW k \in CrowdSkus
      PROVE  /\ IsFiniteSet(Units("add", k))' /\ IsFiniteSet(Units("set", k))'
             /\ Asked(k)' = Asked(k) /\ Asked(k) \in Nat
  <2>1. /\ IsFiniteSet(Units("add", k))' /\ IsFiniteSet(Units("set", k))'
        /\ Asked(k)' = Asked(k)
    BY NothingCounts
  <2>2. IsFiniteSet(Units("add", k)) /\ IsFiniteSet(Units("set", k))
    BY DEF CrowdInv, AmountsKnown
  <2>3. Asked(k) \in Nat
    BY <2>2, FS_CardinalityType DEF Asked
  <2> QED
    BY <2>1, <2>3
<1>2. RowsKnown'
  <2>1. ASSUME NEW k \in CrowdSkus
        PROVE  IF item'[k].id = None THEN item'[k] = Crowd!NoItem
               ELSE asked'[item'[k].id].pc \in {"ok", "lost"} /\ asked'[item'[k].id].sku = k
    <3>1. CASE item'[k] = Crowd!NoItem
      BY <3>1 DEF Crowd!NoItem
    <3>2. CASE item'[k] = item[k]
      <4>1. CASE item[k].id = None
        BY <3>2, <4>1 DEF CrowdInv, RowsKnown
      <4>2. CASE item[k].id # None
        <5>1. /\ asked[item[k].id].pc \in {"ok", "lost"} /\ asked[item[k].id].sku = k
              /\ item[k].id \in CartRequests
          BY <4>2 DEF CrowdInv, RowsKnown, Crowd!TypeOK
        <5>2. asked'[item[k].id] = asked[item[k].id]
          BY <5>1
        <5> QED
          BY <3>2, <4>2, <5>1, <5>2
      <4> QED
        BY <4>1, <4>2
    <3> QED
      BY <3>1, <3>2
  <2>2. ASSUME NEW g \in gone' PROVE asked'[g].pc \in {"ok", "lost"}
    <3>1. CASE g \in gone
      BY <3>1 DEF CrowdInv, RowsKnown, Crowd!TypeOK
    <3>2. CASE \E k \in CrowdSkus : item'[k] # item[k] /\ g = item[k].id
      BY <3>2 DEF CrowdInv, RowsKnown, Crowd!TypeOK
    <3> QED
      BY <3>1, <3>2
  <2>3. ASSUME NEW k \in CrowdSkus PROVE item'[k].id \notin gone'
    <3>1. CASE item'[k] = Crowd!NoItem
      <4>1. item'[k].id = None
        BY <3>1 DEF Crowd!NoItem
      <4>2. gone' \subseteq CartRequests
        BY DEF Crowd!TypeOK
      <4> QED
        BY <4>1, <4>2
    <3>2. CASE item'[k] = item[k] /\ item[k] # Crowd!NoItem
      <4>1. item[k].id \notin gone /\ asked[item[k].id].sku = k /\ item[k].id # None
        BY <3>2 DEF CrowdInv, RowsKnown, Crowd!RemovedStaysRemoved
      <4>2. \A j \in CrowdSkus : item'[j] # item[j] => item[j].id # item[k].id
        <5> SUFFICES ASSUME NEW j \in CrowdSkus, item'[j] # item[j], item[j].id = item[k].id
                     PROVE  FALSE
          OBVIOUS
        <5>1. asked[item[j].id].sku = j
          BY <4>1 DEF CrowdInv, RowsKnown
        <5> QED
          BY <3>2, <4>1, <5>1
      <4> QED
        BY <3>2, <4>1, <4>2
    <3> QED
      BY <3>1, <3>2
  <2> QED
    BY <2>1, <2>2, <2>3 DEF RowsKnown, Crowd!RemovedStaysRemoved
<1>3. AmountsKnown'
  <2>1. ASSUME NEW k \in CrowdSkus PROVE item'[k].quantity <= Asked(k)'
    <3>1. CASE item'[k] = Crowd!NoItem
      BY <1>1, <3>1 DEF Crowd!NoItem
    <3>2. CASE item'[k] = item[k]
      BY <1>1, <3>2 DEF CrowdInv, AmountsKnown
    <3> QED
      BY <3>1, <3>2
  <2>2. ASSUME NEW q \in CartRequests, asked'[q].pc = "running", q # r \/ asked'[r] = asked[r]
        PROVE  /\ asked'[q].kind \in {"add", "set"} /\ asked'[q].sku \in CrowdSkus
               /\ asked'[q].quantity \in Quantities
               /\ \A k \in CrowdSkus : asked'[q].sku = k => asked'[q].seen.quantity <= Asked(k)'
               /\ asked'[q].seen.id = None => asked'[q].seen = Crowd!NoItem
    <3>1. asked'[q] = asked[q] /\ asked[q].pc = "running"
      BY <2>2
    <3>2. /\ asked[q].kind \in {"add", "set"} /\ asked[q].sku \in CrowdSkus
          /\ asked[q].quantity \in Quantities
          /\ \A k \in CrowdSkus : asked[q].sku = k => asked[q].seen.quantity <= Asked(k)
          /\ asked[q].seen.id = None => asked[q].seen = Crowd!NoItem
      BY <3>1 DEF CrowdInv, AmountsKnown
    <3>3. \A k \in CrowdSkus : Asked(k)' = Asked(k)
      BY <1>1
    <3> QED
      BY <3>1, <3>2, <3>3
  <2>3. ASSUME asked'[r].pc = "running", asked'[r] # asked[r]
        PROVE  /\ asked'[r].kind \in {"add", "set"} /\ asked'[r].sku \in CrowdSkus
               /\ asked'[r].quantity \in Quantities
               /\ \A k \in CrowdSkus : asked'[r].sku = k => asked'[r].seen.quantity <= Asked(k)'
               /\ asked'[r].seen.id = None => asked'[r].seen = Crowd!NoItem
    <3>1. PICK j \in CrowdSkus : asked'[r].sku = j /\ asked'[r].seen = item[j]
      BY <2>3
    <3>2. /\ item[j].quantity <= Asked(j) /\ Asked(j)' = Asked(j)
          /\ item[j].id = None => item[j] = Crowd!NoItem
      BY <1>1 DEF CrowdInv, AmountsKnown, RowsKnown
    <3> QED
      BY <2>3, <3>1, <3>2
  <2> QED
    BY <1>1, <2>1, <2>2, <2>3 DEF AmountsKnown
<1> QED
  BY <1>2, <1>3 DEF CrowdInv

(* A request is done that put its quantity into a row or found the row gone. *)
LEMMA RequestDone ==
  ASSUME CrowdInv, NEW r \in CartRequests, asked[r].pc = "running", NEW done \in {"ok", "lost"},
         asked' = [asked EXCEPT ![r].pc = done], UNCHANGED gone, Crowd!TypeOK',
         NEW k \in CrowdSkus, asked[r].sku = k,
         \A j \in CrowdSkus : j # k => item'[j] = item[j],
         \/ item'[k] = item[k]
         \/ item'[k].id = r /\ item'[k].quantity <= asked[r].quantity
         \/ /\ item'[k].id = item[k].id /\ item[k].id # None
            /\ item'[k].quantity <= Asked(k) + asked[r].quantity
  PROVE  CrowdInv'
<1> USE CartConstants
<1>1. ASSUME NEW j \in CrowdSkus
      PROVE  /\ IsFiniteSet(Units("add", j))' /\ IsFiniteSet(Units("set", j))'
             /\ Asked(j)' = Asked(j) + (IF asked[r].sku = j THEN asked[r].quantity ELSE 0)
             /\ Asked(j) \in Nat
  <2>1. /\ IsFiniteSet(Units("add", j))' /\ IsFiniteSet(Units("set", j))'
        /\ Asked(j)' = Asked(j) + (IF asked[r].sku = j THEN asked[r].quantity ELSE 0)
    BY RequestCounts
  <2>2. IsFiniteSet(Units("add", j)) /\ IsFiniteSet(Units("set", j))
    BY DEF CrowdInv, AmountsKnown
  <2>3. Asked(j) \in Nat
    BY <2>2, FS_CardinalityType DEF Asked
  <2> QED
    BY <2>1, <2>3
<1>2. asked[r].quantity \in Nat
  BY DEF CrowdInv, AmountsKnown
<1>3. ASSUME NEW j \in CrowdSkus PROVE Asked(j) <= Asked(j)'
  BY <1>1, <1>2
<1>4. /\ \A q \in CartRequests : q # r => asked'[q] = asked[q]
      /\ asked'[r].pc \in {"ok", "lost"} /\ asked'[r].sku = k
  BY DEF CrowdInv, Crowd!TypeOK
<1>5. ASSUME NEW j \in CrowdSkus
      PROVE  item[j].quantity \in Int /\ item'[j].quantity \in Int
  BY DEF CrowdInv, Crowd!TypeOK
<1>6. RowsKnown'
  <2>1. /\ \A j \in CrowdSkus : item[j].id # None =>
             item[j].id # r /\ asked'[item[j].id] = asked[item[j].id]
        /\ \A g \in gone : g # r /\ asked'[g].pc \in {"ok", "lost"}
    BY <1>4 DEF CrowdInv, RowsKnown, Crowd!TypeOK
  <2>2. ASSUME NEW j \in CrowdSkus
        PROVE  /\ IF item'[j].id = None THEN item'[j] = Crowd!NoItem
                  ELSE asked'[item'[j].id].pc \in {"ok", "lost"} /\ asked'[item'[j].id].sku = j
               /\ item'[j].id \notin gone'
    <3>1. CASE item'[j] = item[j]
      BY <2>1, <3>1 DEF CrowdInv, RowsKnown, Crowd!RemovedStaysRemoved
    <3>2. CASE j = k /\ item'[j].id = item[j].id /\ item[j].id # None
      BY <2>1, <3>2 DEF CrowdInv, RowsKnown, Crowd!RemovedStaysRemoved
    <3>3. CASE j = k /\ item'[j].id = r
      BY <1>4, <2>1, <3>3
    <3> QED
      BY <3>1, <3>2, <3>3
  <2> QED
    BY <2>1, <2>2 DEF RowsKnown, Crowd!RemovedStaysRemoved
<1>7. AmountsKnown'
  <2>1. ASSUME NEW j \in CrowdSkus PROVE item'[j].quantity <= Asked(j)'
    <3>1. item[j].quantity <= Asked(j)
      BY DEF CrowdInv, AmountsKnown
    <3>2. CASE item'[j] = item[j]
      BY <1>1, <1>2, <1>5, <3>1, <3>2
    <3>3. CASE j = k /\ item'[j].quantity <= Asked(j) + asked[r].quantity
      BY <1>1, <3>3
    <3>4. CASE j = k /\ item'[j].quantity <= asked[r].quantity
      BY <1>1, <1>2, <1>5, <3>4
    <3> QED
      BY <3>2, <3>3, <3>4
  <2>2. ASSUME NEW q \in CartRequests, asked'[q].pc = "running"
        PROVE  /\ asked'[q].kind \in {"add", "set"} /\ asked'[q].sku \in CrowdSkus
               /\ asked'[q].quantity \in Quantities
               /\ \A j \in CrowdSkus : asked'[q].sku = j => asked'[q].seen.quantity <= Asked(j)'
               /\ asked'[q].seen.id = None => asked'[q].seen = Crowd!NoItem
    <3>1. asked'[q] = asked[q] /\ asked[q].pc = "running"
      BY <1>4, <2>2
    <3>2. /\ asked[q].kind \in {"add", "set"} /\ asked[q].sku \in CrowdSkus
          /\ asked[q].quantity \in Quantities
          /\ \A j \in CrowdSkus : asked[q].sku = j => asked[q].seen.quantity <= Asked(j)
          /\ asked[q].seen.id = None => asked[q].seen = Crowd!NoItem
      BY <3>1 DEF CrowdInv, AmountsKnown
    <3>3. asked[q].seen.quantity \in Int
      BY DEF CrowdInv, Crowd!TypeOK
    <3>4. ASSUME NEW j \in CrowdSkus, asked[q].sku = j PROVE asked[q].seen.quantity <= Asked(j)'
      <4>1. Asked(j)' \in Int /\ Asked(j) \in Int /\ Asked(j) <= Asked(j)'
        BY <1>1, <1>2
      <4> QED
        BY <3>2, <3>3, <3>4, <4>1
    <3> QED
      BY <3>1, <3>2, <3>4
  <2> QED
    BY <1>1, <2>1, <2>2 DEF AmountsKnown
<1> QED
  BY <1>6, <1>7 DEF CrowdInv

\* The type of the request that is asked changes, and of nothing else.
Requested ==
  [pc : {"new", "running", "ok", "lost", "error"}, kind : {"none", "add", "set", "remove", "clear"},
   sku : CrowdSkus \cup {None}, quantity : Quantities \cup {0},
   seen : [id : CartRequests \cup {None}, quantity : -(Top + 1) .. Top]]

LEMMA RequestsEnd ==
  ASSUME NEW r, NEW kind, NEW k, NEW pc, NEW q
  PROVE  [Crowd!Asks(r, kind, k, q) EXCEPT !.pc = pc] =
           [pc |-> pc, kind |-> kind, sku |-> k, quantity |-> q, seen |-> Crowd!NoItem]
<1>1. Crowd!New =
        [pc |-> "new", kind |-> "none", sku |-> None, quantity |-> 0, seen |-> Crowd!NoItem]
  BY DEF Crowd!New
<1>2. Crowd!Asks(r, kind, k, q) = [Crowd!New EXCEPT !.kind = kind, !.sku = k, !.quantity = q]
  BY DEF Crowd!Asks
<1>3. Crowd!Asks(r, kind, k, q) =
        [pc |-> "new", kind |-> kind, sku |-> k, quantity |-> q, seen |-> Crowd!NoItem]
  BY <1>1, <1>2
<1> QED
  BY <1>3

LEMMA RequestEnds ==
  ASSUME asked \in [CartRequests -> Requested], NEW r \in CartRequests, NEW pc \in {"ok", "lost", "error"}
  PROVE  [asked EXCEPT ![r].pc = pc] \in [CartRequests -> Requested]
<1> DEFINE ended == [asked[r] EXCEPT !.pc = pc]
<1>1. asked[r] \in Requested
  OBVIOUS
<1>2. ended \in Requested
  BY <1>1 DEF Requested
<1>3. [asked EXCEPT ![r].pc = pc] = [asked EXCEPT ![r] = ended]
  OBVIOUS
<1> HIDE DEF ended
<1> QED
  BY <1>2, <1>3

LEMMA CrowdStep ==
  ASSUME CrowdInv, [Crowd!Next]_crowdVars
  PROVE  CrowdInv'
<1> USE CartConstants
<1> USE DEF Requested
<1>a. /\ asked \in [CartRequests -> Requested] /\ gone \subseteq CartRequests
      /\ item \in [CrowdSkus -> [id : CartRequests \cup {None}, quantity : -(Top + 1) .. Top]]
  BY DEF CrowdInv, Crowd!TypeOK
<1>b. Crowd!NoItem \in [id : CartRequests \cup {None}, quantity : -(Top + 1) .. Top]
  BY DEF Crowd!NoItem
<1>1. ASSUME NEW r \in CartRequests, NEW k \in CrowdSkus, NEW q \in Quantities,
             Crowd!Add(r, k, q) \/ Crowd!Set(r, k, q)
      PROVE  CrowdInv'
  <2>1. PICK pc \in {"running", "error"}, kind \in {"add", "set"} :
          asked' = [asked EXCEPT ![r] = [pc |-> pc, kind |-> kind, sku |-> k, quantity |-> q,
                                         seen |-> item[k]]]
    BY <1>1, ZenonT(60) DEF Crowd!Add, Crowd!Set, Crowd!Asks, Crowd!New
  <2>2. asked[r].pc = "new" /\ UNCHANGED <<item, gone>>
    BY <1>1 DEF Crowd!Add, Crowd!Set, Crowd!MayStart
  <2>3. asked'[r] = [pc |-> pc, kind |-> kind, sku |-> k, quantity |-> q, seen |-> item[k]]
    BY <1>a, <2>1
  <2>4. /\ asked'[r].pc = pc /\ asked'[r].kind = kind /\ asked'[r].sku = k
        /\ asked'[r].quantity = q /\ asked'[r].seen = item[k]
    BY <2>3
  <2>5. asked' \in [CartRequests -> Requested] /\ \A t \in CartRequests : t # r => asked'[t] = asked[t]
    BY <1>a, <2>1
  <2>6. Crowd!TypeOK'
    BY <1>a, <2>2, <2>5 DEF Crowd!TypeOK
  <2> QED
    BY <2>2, <2>4, <2>5, <2>6, OthersKnow
<1>2. ASSUME NEW r \in CartRequests, NEW k \in CrowdSkus, Crowd!Remove(r, k)
      PROVE  CrowdInv'
  <2>1. PICK pc \in {"ok", "lost", "error"} :
          asked' = [asked EXCEPT ![r] = [pc |-> pc, kind |-> "remove", sku |-> k, quantity |-> 0,
                                         seen |-> Crowd!NoItem]]
    <3>1. PICK pc \in {"ok", "lost", "error"} :
            asked' = [asked EXCEPT ![r] = [Crowd!Asks(r, "remove", k, 0) EXCEPT !.pc = pc]]
      BY <1>2 DEF Crowd!Remove, Crowd!Effective
    <3>2. [Crowd!Asks(r, "remove", k, 0) EXCEPT !.pc = pc] =
            [pc |-> pc, kind |-> "remove", sku |-> k, quantity |-> 0, seen |-> Crowd!NoItem]
      BY RequestsEnd
    <3> QED
      BY <3>1, <3>2
  <2>2. /\ asked[r].pc = "new" /\ gone' = gone \cup ({item[k].id} \ {None})
        /\ item' = [item EXCEPT ![k] = Crowd!NoItem]
    BY <1>2 DEF Crowd!Remove, Crowd!MayStart
  <2>3. asked'[r] = [pc |-> pc, kind |-> "remove", sku |-> k, quantity |-> 0, seen |-> Crowd!NoItem]
    BY <1>a, <2>1
  <2>4. asked'[r].pc = pc /\ asked'[r].kind = "remove"
    BY <2>3
  <2>5. asked' \in [CartRequests -> Requested] /\ \A t \in CartRequests : t # r => asked'[t] = asked[t]
    BY <1>a, <1>b, <2>1
  <2>6. /\ \A j \in CrowdSkus : item'[j] = IF j = k THEN Crowd!NoItem ELSE item[j]
        /\ item' \in [CrowdSkus -> [id : CartRequests \cup {None}, quantity : -(Top + 1) .. Top]]
    BY <1>a, <1>b, <2>2
  <2>7. Crowd!TypeOK'
    BY <1>a, <2>2, <2>5, <2>6 DEF Crowd!TypeOK
  <2>8. \A g \in gone' : g \in gone \/ \E j \in CrowdSkus : item'[j] # item[j] /\ g = item[j].id
    BY <2>2, <2>6 DEF Crowd!NoItem
  <2> QED
    BY <2>2, <2>4, <2>5, <2>6, <2>7, <2>8, OthersKnow
<1>3. ASSUME NEW r \in CartRequests, Crowd!Clear(r) PROVE CrowdInv'
  <2>1. PICK done \in {"ok", "lost"} :
          asked' = [asked EXCEPT ![r] = [pc |-> done, kind |-> "clear", sku |-> None, quantity |-> 0,
                                         seen |-> Crowd!NoItem]]
    <3>1. PICK done \in {"ok", "lost"} :
            asked' = [asked EXCEPT ![r] = [Crowd!Asks(r, "clear", None, 0) EXCEPT !.pc = done]]
      BY <1>3 DEF Crowd!Clear, Crowd!Effective
    <3>2. [Crowd!Asks(r, "clear", None, 0) EXCEPT !.pc = done] =
            [pc |-> done, kind |-> "clear", sku |-> None, quantity |-> 0, seen |-> Crowd!NoItem]
      BY RequestsEnd
    <3> QED
      BY <3>1, <3>2
  <2>2. /\ asked[r].pc = "new" /\ gone' = gone \cup ({item[k].id : k \in CrowdSkus} \ {None})
        /\ item' = [k \in CrowdSkus |-> Crowd!NoItem]
    BY <1>3 DEF Crowd!Clear, Crowd!MayStart
  <2>3. asked'[r] = [pc |-> done, kind |-> "clear", sku |-> None, quantity |-> 0,
                     seen |-> Crowd!NoItem]
    BY <1>a, <2>1
  <2>4. asked'[r].pc \in {"ok", "lost"} /\ asked'[r].kind = "clear"
    BY <2>3
  <2>5. asked' \in [CartRequests -> Requested] /\ \A t \in CartRequests : t # r => asked'[t] = asked[t]
    BY <1>a, <1>b, <2>1
  <2>6. /\ \A j \in CrowdSkus : item'[j] = Crowd!NoItem
        /\ item' \in [CrowdSkus -> [id : CartRequests \cup {None}, quantity : -(Top + 1) .. Top]]
    BY <1>b, <2>2
  <2>7. Crowd!TypeOK'
    BY <1>a, <2>2, <2>5, <2>6 DEF Crowd!TypeOK
  <2>8. \A g \in gone' : g \in gone \/ \E j \in CrowdSkus : item'[j] # item[j] /\ g = item[j].id
    BY <2>2, <2>6 DEF Crowd!NoItem
  <2> QED
    BY <2>2, <2>4, <2>5, <2>6, <2>7, <2>8, OthersKnow
<1>4. ASSUME NEW r \in CartRequests, asked[r].pc \in {"new", "running"}, UNCHANGED <<item, gone>>,
             asked' = [asked EXCEPT ![r].pc = "error"]
      PROVE  CrowdInv'
  <2>1. /\ asked' \in [CartRequests -> Requested] /\ asked'[r].pc = "error"
        /\ \A t \in CartRequests : t # r => asked'[t] = asked[t]
    <3> HIDE DEF Requested
    <3>1. asked' \in [CartRequests -> Requested]
      BY <1>4, <1>a, RequestEnds
    <3>2. asked[r] \in Requested /\ asked'[r] = [asked[r] EXCEPT !.pc = "error"]
      BY <1>4, <1>a
    <3>3. asked'[r].pc = "error"
      BY <3>2 DEF Requested
    <3>4. \A t \in CartRequests : t # r => asked'[t] = asked[t]
      BY <1>4, <1>a
    <3> QED
      BY <3>1, <3>3, <3>4
  <2>2. Crowd!TypeOK'
    BY <1>4, <1>a, <2>1 DEF Crowd!TypeOK
  <2> QED
    BY <1>4, <2>1, <2>2, OthersKnow
<1>5. ASSUME NEW r \in CartRequests, Crowd!Create(r) PROVE CrowdInv'
  <2> DEFINE k == asked[r].sku
  <2>1. asked[r].pc = "running" /\ k \in CrowdSkus /\ asked[r].quantity \in Quantities
    BY <1>5 DEF Crowd!Create, CrowdInv, AmountsKnown
  <2>2. CASE item[k] = Crowd!NoItem
    <3>1. PICK done \in {"ok", "lost"} :
            /\ item' = [item EXCEPT ![k] = [id |-> r, quantity |-> asked[r].quantity]]
            /\ asked' = [asked EXCEPT ![r].pc = done] /\ UNCHANGED gone
      BY <1>5, <2>2 DEF Crowd!Create, Crowd!Effective
    <3>2. /\ \A j \in CrowdSkus : j # k => item'[j] = item[j]
          /\ item'[k] = [id |-> r, quantity |-> asked[r].quantity]
          /\ item' \in [CrowdSkus -> [id : CartRequests \cup {None}, quantity : -(Top + 1) .. Top]]
      BY <1>a, <2>1, <3>1
    <3>3. item'[k].id = r /\ item'[k].quantity <= asked[r].quantity
      BY <2>1, <3>2
    <3>4. asked' \in [CartRequests -> Requested]
      <4> HIDE DEF k, Requested
      <4> QED
        BY <1>a, <3>1, RequestEnds
    <3>5. Crowd!TypeOK'
      BY <1>a, <3>1, <3>2, <3>4 DEF Crowd!TypeOK
    <3> HIDE DEF k
    <3> QED
      BY <2>1, <3>1, <3>2, <3>3, <3>5, RequestDone DEF k
  <2>3. CASE item[k] # Crowd!NoItem
    BY <1>4, <1>5, <2>1, <2>3 DEF Crowd!Create
  <2> QED
    BY <2>2, <2>3
<1>6. ASSUME NEW r \in CartRequests, Crowd!Write(r) PROVE CrowdInv'
  <2> DEFINE k == asked[r].sku
             n == Crowd!Written(r)
  <2>1. /\ asked[r].pc = "running" /\ k \in CrowdSkus /\ asked[r].quantity \in Quantities
        /\ asked[r].seen.quantity <= Asked(k) /\ asked[r].seen.id # None
    BY <1>6 DEF Crowd!Write, CrowdInv, AmountsKnown
  <2>2. PICK done \in {"ok", "lost"} :
          /\ item' = IF item[k].id = asked[r].seen.id THEN [item EXCEPT ![k].quantity = n] ELSE item
          /\ asked' = [asked EXCEPT ![r].pc = done] /\ UNCHANGED gone
    BY <1>6 DEF Crowd!Write, Crowd!Effective
  <2>3. asked[r].seen.quantity \in -(Top + 1) .. Top
    BY <1>a
  <2>4. Asked(k) \in Nat
    <3>1. IsFiniteSet(Units("add", k)) /\ IsFiniteSet(Units("set", k))
      BY <2>1 DEF CrowdInv, AmountsKnown
    <3> QED
      BY <3>1, FS_CardinalityType DEF Asked
  <2>5. n \in -(Top + 1) .. Top /\ n <= Asked(k) + asked[r].quantity
    <3>1. asked[r].quantity \in 1 .. Top
      BY <2>1
    <3>2. n \in {Crowd!Wrap(asked[r].seen.quantity + asked[r].quantity), asked[r].quantity}
      BY DEF Crowd!Written
    <3> HIDE DEF n, k
    <3> QED
      BY <2>1, <2>3, <2>4, <3>1, <3>2 DEF Crowd!Wrap
  <2>6. asked' \in [CartRequests -> Requested]
    <3> HIDE DEF n, k, Requested
    <3> QED
      BY <1>a, <2>2, RequestEnds
  <2> HIDE DEF n
  <2>7. /\ \A j \in CrowdSkus : j # k => item'[j] = item[j]
        /\ \/ item'[k] = item[k]
           \/ item'[k].id = item[k].id /\ item[k].id # None /\ item'[k].quantity = n
        /\ item' \in [CrowdSkus -> [id : CartRequests \cup {None}, quantity : -(Top + 1) .. Top]]
    BY <1>a, <2>1, <2>2, <2>5
  <2>8. Crowd!TypeOK'
    BY <1>a, <2>2, <2>6, <2>7 DEF Crowd!TypeOK
  <2> HIDE DEF k
  <2> QED
    BY <2>1, <2>2, <2>5, <2>7, <2>8, RequestDone DEF k
<1>7. ASSUME NEW r \in CartRequests, Crowd!Fails(r) PROVE CrowdInv'
  BY <1>4, <1>7 DEF Crowd!Fails, Crowd!MayStart
<1>8. CASE UNCHANGED crowdVars
  <2>1. UNCHANGED <<item, asked, gone>>
    BY <1>8 DEF crowdVars
  <2>2. \A k \in CrowdSkus : /\ Units("add", k)' = Units("add", k)
                             /\ Units("set", k)' = Units("set", k) /\ Asked(k)' = Asked(k)
    BY <2>1 DEF Units, Asked
  <2> QED
    BY <2>1, <2>2 DEF CrowdInv, RowsKnown, AmountsKnown, Crowd!TypeOK, Crowd!RemovedStaysRemoved
<1> QED
  BY <1>1, <1>2, <1>3, <1>5, <1>6, <1>7, <1>8 DEF Crowd!Next

(* NeverMore: however the requests to a cart overlap and fail, a row never holds more than
   what was put in and set, also when sums overflow, and a row that was removed never
   comes back. *)
THEOREM CartNeverHoldsMore == ServicesSpec => []NeverMore
<1> DEFINE Inv == part = "cart" => CrowdInv
<1>1. ServicesInit => Inv
  <2> SUFFICES ASSUME Crowd!Init PROVE CrowdInv
    BY DEF ServicesInit
  <2> USE CartConstants
  <2>1. /\ item = [k \in CrowdSkus |-> Crowd!NoItem] /\ gone = {}
        /\ asked = [r \in CartRequests |-> Crowd!New]
    BY DEF Crowd!Init
  <2>2. Crowd!TypeOK
    BY <2>1 DEF Crowd!TypeOK, Crowd!NoItem, Crowd!New
  <2>3. \A r \in CartRequests : asked[r].pc = "new"
    BY <2>1 DEF Crowd!New
  <2>4. ASSUME NEW k \in CrowdSkus
        PROVE  /\ IsFiniteSet(Units("add", k)) /\ IsFiniteSet(Units("set", k)) /\ Asked(k) = 0
    <3>1. Units("add", k) = {} /\ Units("set", k) = {}
      BY <2>3 DEF Units
    <3> QED
      BY <3>1, FS_EmptySet DEF Asked
  <2>5. \A k \in CrowdSkus : item[k].id = None /\ item[k].quantity = 0 /\ item[k] = Crowd!NoItem
    BY <2>1 DEF Crowd!NoItem
  <2> QED
    BY <2>1, <2>2, <2>3, <2>4, <2>5
       DEF CrowdInv, RowsKnown, AmountsKnown, Crowd!RemovedStaysRemoved
<1>2. Inv /\ [ServicesNext]_servicesVars => Inv'
  <2> SUFFICES ASSUME Inv, [ServicesNext]_servicesVars PROVE Inv'
    OBVIOUS
  <2>1. part' = part /\ (part = "cart" => [Crowd!Next]_crowdVars)
    BY DEF ServicesNext, servicesVars, cartVars
  <2> QED
    BY <2>1, CrowdStep
<1>3. Inv => NeverMore
  <2> SUFFICES ASSUME CrowdInv PROVE Crowd!TypeOK /\ Crowd!NeverMore /\ Crowd!RemovedStaysRemoved
    BY DEF NeverMore
  <2>1. \A k \in CrowdSkus : item[k].quantity <= Crowd!Sum(Crowd!Adds(k)) + Crowd!Sum(Crowd!Sets(k))
    BY SumsCountUnits DEF CrowdInv, AmountsKnown
  <2> QED
    BY <2>1 DEF CrowdInv, RowsKnown, Crowd!NeverMore
<1> QED
  BY <1>1, <1>2, <1>3, PTL DEF ServicesSpec

------------------------------------------------------------------------------
(* The cart, under requests one after the other: a running request has seen the row as it
   is, so what it writes is what the cart promises, as long as sums fit. *)

\* What all the requests together can ask for is within what a row can hold.
SumsFit ==
  \E m \in Nat :
    /\ Quantities \subseteq 0 .. m
    /\ IsFiniteSet(CartRequests) /\ m * Cardinality(CartRequests) <= Top

Done == {r \in CartRequests : askedInTurn[r].pc \in {"ok", "lost"}}
Amount == [k \in QueueSkus |-> inTurn[k].quantity]
Replied ==
  [r \in CartRequests |->
    IF askedInTurn[r].pc \in {"ok", "lost"}
    THEN <<askedInTurn[r].kind, askedInTurn[r].sku, askedInTurn[r].quantity>> ELSE None]

\* m: the most that one request asks for.
Within(m) ==
  /\ m \in Nat /\ Quantities \subseteq 0 .. m
  /\ IsFiniteSet(CartRequests) /\ m * Cardinality(CartRequests) <= Top

QueueInv(m) ==
  /\ Queue!TypeOK
  /\ \A r, q \in CartRequests :
       askedInTurn[r].pc = "running" /\ askedInTurn[q].pc = "running" => r = q
  /\ \A k \in QueueSkus :
       IF inTurn[k].id = None THEN inTurn[k] = Queue!NoItem
       ELSE /\ inTurn[k].quantity \in 1 .. Top
            /\ inTurn[k].quantity <= m * Cardinality(Done)
  /\ \A r \in CartRequests : askedInTurn[r].pc = "running" =>
       /\ askedInTurn[r].kind \in {"add", "set"} /\ askedInTurn[r].sku \in QueueSkus
       /\ askedInTurn[r].quantity \in Quantities
       /\ \A k \in QueueSkus : askedInTurn[r].sku = k => askedInTurn[r].seen = inTurn[k]
       /\ askedInTurn[r].kind = "set" => askedInTurn[r].seen # Queue!NoItem

(* One more request that is done makes room for what it asked for. *)
LEMMA DoneGrows ==
  ASSUME NEW m, Within(m), NEW r \in CartRequests, askedInTurn[r].pc \notin {"ok", "lost"}
  PROVE  /\ m * Cardinality(Done) \in Nat
         /\ m * Cardinality(Done \cup {r}) = m * Cardinality(Done) + m
         /\ m * Cardinality(Done) + m <= Top
<1>1. IsFiniteSet(Done) /\ Cardinality(Done) \in Nat
  <2>1. Done \in SUBSET CartRequests /\ IsFiniteSet(CartRequests)
    BY DEF Done, Within
  <2> QED
    BY <2>1, FS_Subset, FS_CardinalityType
<1>2. Cardinality(Done \cup {r}) = Cardinality(Done) + 1
  BY <1>1, FS_AddElement DEF Done
<1>3. Cardinality(Done \cup {r}) <= Cardinality(CartRequests) /\ Cardinality(CartRequests) \in Nat
  <2>1. Done \cup {r} \in SUBSET CartRequests /\ IsFiniteSet(CartRequests)
    BY DEF Done, Within
  <2> QED
    BY <2>1, FS_Subset, FS_CardinalityType
<1>4. ASSUME NEW c \in Nat, NEW d \in Nat, NEW n \in Nat, c + 1 <= d
      PROVE  n * c \in Nat /\ n * (c + 1) = n * c + n /\ n * c + n <= n * d
  <2>1. n * c \in Nat /\ n * (c + 1) = n * c + n
    OBVIOUS
  <2>2. PICK e \in Nat : d = (c + 1) + e
    <3>1. d - (c + 1) \in Nat /\ d = (c + 1) + (d - (c + 1))
      BY <1>4
    <3> QED
      BY <3>1
  <2>3. n * d = n * (c + 1) + n * e /\ n * e \in Nat
    BY <2>2
  <2> QED
    BY <2>1, <2>3
<1>5. m \in Nat /\ m * Cardinality(CartRequests) <= Top /\ m * Cardinality(CartRequests) \in Nat
  BY <1>3 DEF Within
<1>6. /\ m * Cardinality(Done) \in Nat
      /\ m * (Cardinality(Done) + 1) = m * Cardinality(Done) + m
      /\ m * Cardinality(Done) + m <= m * Cardinality(CartRequests)
  BY <1>1, <1>2, <1>3, <1>4, <1>5
<1> QED
  BY <1>2, <1>5, <1>6, CartConstants

(* A request that ends in this step ends as the only one there is. *)
LEMMA TurnEnds ==
  ASSUME NEW m, Within(m), QueueInv(m), NEW r \in CartRequests, askedInTurn[r].pc \notin {"ok", "lost"},
         Queue!TypeOK',
         \A q \in CartRequests : q # r => /\ askedInTurn'[q] = askedInTurn[q]
                                          /\ askedInTurn[q].pc # "running",
         askedInTurn'[r].pc \in {"ok", "lost", "error"},
         \A k \in QueueSkus :
           \/ inTurn'[k] = inTurn[k]
           \/ inTurn'[k] = Queue!NoItem
           \/ /\ askedInTurn'[r].pc \in {"ok", "lost"} /\ inTurn'[k].id # None
              /\ inTurn'[k].quantity \in 1 .. Top
              /\ inTurn'[k].quantity <= m * Cardinality(Done) + m
  PROVE  QueueInv(m)'
<1> USE CartConstants
<1>1. IF askedInTurn'[r].pc \in {"ok", "lost"} THEN Done' = Done \cup {r} ELSE Done' = Done
  BY DEF Done
<1>2. /\ m * Cardinality(Done) \in Nat /\ m * Cardinality(Done') \in Nat
      /\ m * Cardinality(Done) <= m * Cardinality(Done')
      /\ askedInTurn'[r].pc \in {"ok", "lost"} => m * Cardinality(Done') = m * Cardinality(Done) + m
  <2>1. m \in Nat
    BY DEF Within
  <2>2. /\ m * Cardinality(Done) \in Nat
        /\ m * Cardinality(Done \cup {r}) = m * Cardinality(Done) + m
    BY DoneGrows
  <2>3. CASE askedInTurn'[r].pc \in {"ok", "lost"}
    <3>1. Cardinality(Done') = Cardinality(Done \cup {r})
      BY <1>1, <2>3
    <3>2. m * Cardinality(Done') = m * Cardinality(Done) + m
      BY <2>2, <3>1
    <3> QED
      BY <2>1, <2>2, <3>2
  <2>4. CASE askedInTurn'[r].pc \notin {"ok", "lost"}
    <3>1. Done' = Done
      BY <1>1, <2>4
    <3> QED
      BY <2>2, <2>4, <3>1
  <2> QED
    BY <2>3, <2>4
<1>3. ASSUME NEW k \in QueueSkus
      PROVE  IF inTurn'[k].id = None THEN inTurn'[k] = Queue!NoItem
             ELSE /\ inTurn'[k].quantity \in 1 .. Top
                  /\ inTurn'[k].quantity <= m * Cardinality(Done')
  <2>1. CASE inTurn'[k] = inTurn[k] /\ inTurn[k].id = None
    BY <2>1 DEF QueueInv
  <2>2. CASE inTurn'[k] = inTurn[k] /\ inTurn[k].id # None
    <3>1. inTurn[k].quantity \in 1 .. Top /\ inTurn[k].quantity <= m * Cardinality(Done)
      BY <2>2 DEF QueueInv
    <3> QED
      BY <1>2, <2>2, <3>1
  <2>3. CASE inTurn'[k] = Queue!NoItem
    BY <2>3 DEF Queue!NoItem
  <2>4. CASE /\ askedInTurn'[r].pc \in {"ok", "lost"} /\ inTurn'[k].id # None
             /\ inTurn'[k].quantity \in 1 .. Top
             /\ inTurn'[k].quantity <= m * Cardinality(Done) + m
    BY <1>2, <2>4
  <2> QED
    BY <2>1, <2>2, <2>3, <2>4
<1>4. \A q \in CartRequests : askedInTurn'[q].pc # "running"
  OBVIOUS
<1> QED
  BY <1>3, <1>4 DEF QueueInv

(* What the cart has answered, before and after a step of request r. *)
LEMMA AnswerGrows ==
  ASSUME NEW r \in CartRequests, askedInTurn[r].pc \notin {"ok", "lost"},
         \A q \in CartRequests : q # r => askedInTurn'[q] = askedInTurn[q]
  PROVE  /\ Replied[r] = None
         /\ askedInTurn'[r].pc \notin {"ok", "lost"} => Replied' = Replied
         /\ askedInTurn'[r].pc \in {"ok", "lost"} =>
              Replied' = [Replied EXCEPT ![r] =
                <<askedInTurn'[r].kind, askedInTurn'[r].sku, askedInTurn'[r].quantity>>]
BY DEF Replied

InTurn ==
  [pc : {"new", "running", "ok", "lost", "error"}, kind : {"none", "add", "set", "remove", "clear"},
   sku : QueueSkus \cup {None}, quantity : Quantities \cup {0},
   seen : [id : CartRequests \cup {None}, quantity : -(Top + 1) .. Top]]

TurnEntries == [QueueSkus -> [id : CartRequests \cup {None}, quantity : -(Top + 1) .. Top]]

LEMMA TurnsEnd ==
  ASSUME NEW r, NEW kind, NEW k, NEW pc, NEW q
  PROVE  [Queue!Asks(r, kind, k, q) EXCEPT !.pc = pc] =
           [pc |-> pc, kind |-> kind, sku |-> k, quantity |-> q, seen |-> Queue!NoItem]
<1>1. Queue!New =
        [pc |-> "new", kind |-> "none", sku |-> None, quantity |-> 0, seen |-> Queue!NoItem]
  BY DEF Queue!New
<1>2. Queue!Asks(r, kind, k, q) = [Queue!New EXCEPT !.kind = kind, !.sku = k, !.quantity = q]
  BY DEF Queue!Asks
<1>3. Queue!Asks(r, kind, k, q) =
        [pc |-> "new", kind |-> kind, sku |-> k, quantity |-> q, seen |-> Queue!NoItem]
  BY <1>1, <1>2
<1> QED
  BY <1>3

LEMMA TurnBegins ==
  ASSUME NEW m, Within(m), QueueInv(m), NEW r \in CartRequests, NEW k \in QueueSkus,
         NEW q \in Quantities, Queue!Add(r, k, q) \/ Queue!Set(r, k, q)
  PROVE  QueueInv(m)' /\ UNCHANGED <<Amount, Replied>>
<1> USE CartConstants
<1>1. PICK pc \in {"running", "error"}, kind \in {"add", "set"} :
        /\ askedInTurn' = [askedInTurn EXCEPT ![r] =
             [pc |-> pc, kind |-> kind, sku |-> k, quantity |-> q, seen |-> inTurn[k]]]
        /\ kind = "set" /\ pc = "running" => inTurn[k] # Queue!NoItem
  BY DEF Queue!Add, Queue!Set, Queue!Asks, Queue!New
<1>2. askedInTurn[r].pc = "new" /\ UNCHANGED <<inTurn, goneInTurn>>
  BY DEF Queue!Add, Queue!Set, Queue!MayStart
<1>3. \A t \in CartRequests : askedInTurn[t].pc # "running"
  BY DEF Queue!Add, Queue!Set, Queue!MayStart, Queue!Running
<1>4. /\ askedInTurn \in [CartRequests -> InTurn] /\ inTurn \in TurnEntries
      /\ goneInTurn \subseteq CartRequests
  BY DEF QueueInv, Queue!TypeOK, InTurn, TurnEntries
<1>5. askedInTurn'[r] = [pc |-> pc, kind |-> kind, sku |-> k, quantity |-> q, seen |-> inTurn[k]]
  BY <1>1, <1>4
<1>6. /\ askedInTurn'[r].pc = pc /\ askedInTurn'[r].kind = kind /\ askedInTurn'[r].sku = k
      /\ askedInTurn'[r].quantity = q /\ askedInTurn'[r].seen = inTurn[k]
  BY <1>5
<1>7. /\ askedInTurn' \in [CartRequests -> InTurn]
      /\ \A t \in CartRequests : t # r => askedInTurn'[t] = askedInTurn[t]
  BY <1>1, <1>4 DEF InTurn, TurnEntries
<1>8. Queue!TypeOK'
  BY <1>2, <1>4, <1>7 DEF Queue!TypeOK, InTurn, TurnEntries
<1>9. Done' = Done
  BY <1>2, <1>6, <1>7 DEF Done
<1>10. \A t \in CartRequests : askedInTurn'[t].pc = "running" => t = r
  BY <1>3, <1>7
<1>11. ASSUME NEW j \in QueueSkus
       PROVE  IF inTurn'[j].id = None THEN inTurn'[j] = Queue!NoItem
              ELSE /\ inTurn'[j].quantity \in 1 .. Top
                   /\ inTurn'[j].quantity <= m * Cardinality(Done')
  BY <1>2, <1>9 DEF QueueInv
<1>12. QueueInv(m)'
  BY <1>1, <1>2, <1>6, <1>8, <1>10, <1>11 DEF QueueInv
<1>13. Amount' = Amount /\ Replied' = Replied
  BY <1>2, <1>6, <1>7, AnswerGrows DEF Amount
<1> QED
  BY <1>12, <1>13

LEMMA TurnRemoves ==
  ASSUME NEW m, Within(m), QueueInv(m), NEW r \in CartRequests, NEW k \in QueueSkus,
         Queue!Remove(r, k)
  PROVE  QueueInv(m)' /\ (UNCHANGED <<Amount, Replied>> \/ Queue!Book!CartBookNext)
<1> USE CartConstants
<1>1. PICK pc \in {"ok", "lost", "error"} :
        /\ askedInTurn' = [askedInTurn EXCEPT ![r] =
             [pc |-> pc, kind |-> "remove", sku |-> k, quantity |-> 0, seen |-> Queue!NoItem]]
        /\ pc = "error" <=> inTurn[k] = Queue!NoItem
  <2>1. PICK pc \in IF inTurn[k] = Queue!NoItem THEN {"error"} ELSE {"ok", "lost"} :
          askedInTurn' = [askedInTurn EXCEPT ![r] = [Queue!Asks(r, "remove", k, 0) EXCEPT !.pc = pc]]
    BY DEF Queue!Remove, Queue!Effective
  <2>2. [Queue!Asks(r, "remove", k, 0) EXCEPT !.pc = pc] =
          [pc |-> pc, kind |-> "remove", sku |-> k, quantity |-> 0, seen |-> Queue!NoItem]
    BY TurnsEnd
  <2> QED
    BY <2>1, <2>2
<1>2. /\ askedInTurn[r].pc = "new" /\ goneInTurn' = goneInTurn \cup ({inTurn[k].id} \ {None})
      /\ inTurn' = [inTurn EXCEPT ![k] = Queue!NoItem]
  BY DEF Queue!Remove, Queue!MayStart
<1>3. \A t \in CartRequests : askedInTurn[t].pc # "running"
  BY DEF Queue!Remove, Queue!MayStart, Queue!Running
<1>4. /\ askedInTurn \in [CartRequests -> InTurn] /\ inTurn \in TurnEntries
      /\ goneInTurn \subseteq CartRequests
      /\ Queue!NoItem \in [id : CartRequests \cup {None}, quantity : -(Top + 1) .. Top]
  BY DEF QueueInv, Queue!TypeOK, InTurn, TurnEntries, Queue!NoItem
<1>5. pc \in {"ok", "lost", "error"} /\ (pc = "error" <=> inTurn[k] = Queue!NoItem)
  BY <1>1
<1>6. askedInTurn'[r] = [pc |-> pc, kind |-> "remove", sku |-> k, quantity |-> 0,
                         seen |-> Queue!NoItem]
  BY <1>1, <1>4
<1>7. /\ askedInTurn'[r].pc = pc /\ askedInTurn'[r].kind = "remove"
      /\ askedInTurn'[r].sku = k /\ askedInTurn'[r].quantity = 0
  BY <1>6
<1>8. /\ askedInTurn' \in [CartRequests -> InTurn]
      /\ \A t \in CartRequests : t # r => askedInTurn'[t] = askedInTurn[t]
  BY <1>1, <1>4, <1>5 DEF InTurn
<1>9. /\ \A j \in QueueSkus : inTurn'[j] = IF j = k THEN Queue!NoItem ELSE inTurn[j]
      /\ inTurn' \in TurnEntries
  BY <1>2, <1>4 DEF TurnEntries
<1>10. Queue!TypeOK'
  BY <1>2, <1>4, <1>8, <1>9 DEF Queue!TypeOK, InTurn, TurnEntries
<1>11. QueueInv(m)'
  BY <1>2, <1>3, <1>5, <1>7, <1>8, <1>9, <1>10, TurnEnds
<1>12. CASE inTurn[k] = Queue!NoItem
  <2>1. Amount' = Amount
    BY <1>9, <1>12 DEF Amount
  <2> QED
    BY <1>2, <1>5, <1>7, <1>8, <1>11, <1>12, <2>1, AnswerGrows
<1>13. CASE inTurn[k] # Queue!NoItem
  <2>1. Amount[k] > 0
    <3>1. inTurn[k].id # None
      BY <1>13 DEF QueueInv
    <3>2. inTurn[k].quantity \in 1 .. Top
      BY <3>1 DEF QueueInv
    <3> QED
      BY <3>2 DEF Amount
  <2>2. Amount' = [Amount EXCEPT ![k] = 0]
    <3>1. \A j \in QueueSkus :
            inTurn'[j].quantity = IF j = k THEN 0 ELSE inTurn[j].quantity
      BY <1>9 DEF Queue!NoItem
    <3> QED
      BY <3>1 DEF Amount
  <2>3. Replied[r] = None /\ Replied' = [Replied EXCEPT ![r] = <<"remove", k, 0>>]
    BY <1>2, <1>5, <1>7, <1>8, <1>13, AnswerGrows
  <2>4. Queue!Book!TakeOut(r, k)
    BY <2>1, <2>2, <2>3 DEF Queue!Book!TakeOut, Queue!Book!Serve, Amount, Replied, Queue!Effective
  <2> QED
    BY <1>11, <2>4 DEF Queue!Book!CartBookNext
<1> QED
  BY <1>12, <1>13

LEMMA TurnClears ==
  ASSUME NEW m, Within(m), QueueInv(m), NEW r \in CartRequests, Queue!Clear(r)
  PROVE  QueueInv(m)' /\ Queue!Book!CartBookNext
<1> USE CartConstants
<1>1. PICK done \in {"ok", "lost"} :
        askedInTurn' = [askedInTurn EXCEPT ![r] =
          [pc |-> done, kind |-> "clear", sku |-> None, quantity |-> 0, seen |-> Queue!NoItem]]
  <2>1. PICK done \in {"ok", "lost"} :
          askedInTurn' = [askedInTurn EXCEPT ![r] = [Queue!Asks(r, "clear", None, 0) EXCEPT !.pc = done]]
    BY DEF Queue!Clear, Queue!Effective
  <2>2. [Queue!Asks(r, "clear", None, 0) EXCEPT !.pc = done] =
          [pc |-> done, kind |-> "clear", sku |-> None, quantity |-> 0, seen |-> Queue!NoItem]
    BY TurnsEnd
  <2> QED
    BY <2>1, <2>2
<1>2. /\ askedInTurn[r].pc = "new" /\ inTurn' = [k \in QueueSkus |-> Queue!NoItem]
      /\ goneInTurn' = goneInTurn \cup ({inTurn[k].id : k \in QueueSkus} \ {None})
  BY DEF Queue!Clear, Queue!MayStart
<1>3. \A t \in CartRequests : askedInTurn[t].pc # "running"
  BY DEF Queue!Clear, Queue!MayStart, Queue!Running
<1>4. /\ askedInTurn \in [CartRequests -> InTurn] /\ inTurn \in TurnEntries
      /\ goneInTurn \subseteq CartRequests
      /\ Queue!NoItem \in [id : CartRequests \cup {None}, quantity : -(Top + 1) .. Top]
  BY DEF QueueInv, Queue!TypeOK, InTurn, TurnEntries, Queue!NoItem
<1>5. askedInTurn'[r] = [pc |-> done, kind |-> "clear", sku |-> None, quantity |-> 0,
                         seen |-> Queue!NoItem]
  BY <1>1, <1>4
<1>6. /\ askedInTurn'[r].pc \in {"ok", "lost"} /\ askedInTurn'[r].kind = "clear"
      /\ askedInTurn'[r].sku = None /\ askedInTurn'[r].quantity = 0
  BY <1>5
<1>7. /\ askedInTurn' \in [CartRequests -> InTurn]
      /\ \A t \in CartRequests : t # r => askedInTurn'[t] = askedInTurn[t]
  BY <1>1, <1>4 DEF InTurn
<1>8. /\ \A j \in QueueSkus : inTurn'[j] = Queue!NoItem
      /\ inTurn' \in TurnEntries
  BY <1>2, <1>4 DEF TurnEntries
<1>9. goneInTurn' \subseteq CartRequests
  BY <1>2, <1>4 DEF TurnEntries
<1>10. Queue!TypeOK'
  BY <1>7, <1>8, <1>9 DEF Queue!TypeOK, InTurn, TurnEntries
<1>11. QueueInv(m)'
  BY <1>2, <1>3, <1>6, <1>7, <1>8, <1>10, TurnEnds
<1>12. Amount' = [k \in QueueSkus |-> 0]
  BY <1>8 DEF Amount, Queue!NoItem
<1>13. Replied[r] = None /\ Replied' = [Replied EXCEPT ![r] = <<"clear", None, 0>>]
  BY <1>2, <1>6, <1>7, AnswerGrows
<1>14. Queue!Book!Empty(r)
  BY <1>12, <1>13 DEF Queue!Book!Empty, Queue!Book!Serve, Amount, Replied, Queue!Effective
<1> QED
  BY <1>11, <1>14 DEF Queue!Book!CartBookNext
(* The request that runs saw the row as it is, and what it asks for fits. *)
LEMMA TurnSees ==
  ASSUME NEW m, Within(m), QueueInv(m), NEW r \in CartRequests, askedInTurn[r].pc = "running",
         NEW k \in QueueSkus, k = askedInTurn[r].sku, NEW q, q = askedInTurn[r].quantity
  PROVE  /\ askedInTurn[r].seen = inTurn[k] /\ askedInTurn[r].kind \in {"add", "set"}
         /\ q \in Quantities /\ q \in 1 .. Top /\ q <= m /\ m \in Nat
         /\ m * Cardinality(Done) \in Nat /\ m * Cardinality(Done) + m <= Top
         /\ \A t \in CartRequests : t # r => askedInTurn[t].pc # "running"
<1>1. /\ askedInTurn[r].seen = inTurn[k] /\ askedInTurn[r].kind \in {"add", "set"}
      /\ q \in Quantities
      /\ \A t \in CartRequests : t # r => askedInTurn[t].pc # "running"
  BY DEF QueueInv
<1>2. q \in 1 .. Top
  BY <1>1, CartConstants
<1>3. q <= m /\ m \in Nat
  BY <1>1 DEF Within
<1>4. m * Cardinality(Done) \in Nat /\ m * Cardinality(Done) + m <= Top
  BY DoneGrows
<1> QED
  BY <1>1, <1>2, <1>3, <1>4

LEMMA TurnWrites ==
  ASSUME NEW m, Within(m), QueueInv(m), NEW r \in CartRequests,
         Queue!Create(r) \/ Queue!Write(r)
  PROVE  QueueInv(m)' /\ Queue!Book!CartBookNext
<1> USE CartConstants
<1>1. askedInTurn[r].pc = "running"
  BY DEF Queue!Create, Queue!Write
<1>2. PICK k, q, kind, old :
        /\ k \in QueueSkus /\ k = askedInTurn[r].sku /\ q = askedInTurn[r].quantity /\ kind = askedInTurn[r].kind
        /\ old = inTurn[k]
  BY <1>1 DEF QueueInv
<1>3. /\ askedInTurn[r].seen = old /\ kind \in {"add", "set"}
      /\ q \in Quantities /\ q \in 1 .. Top /\ q <= m /\ m \in Nat
      /\ m * Cardinality(Done) \in Nat /\ m * Cardinality(Done) + m <= Top
      /\ \A t \in CartRequests : t # r => askedInTurn[t].pc # "running"
  BY <1>1, <1>2, TurnSees
<1>4. /\ askedInTurn \in [CartRequests -> InTurn] /\ inTurn \in TurnEntries
      /\ goneInTurn \subseteq CartRequests
  BY DEF QueueInv, Queue!TypeOK, InTurn, TurnEntries
<1>5. /\ old \in [id : CartRequests \cup {None}, quantity : -(Top + 1) .. Top]
      /\ IF old.id = None THEN old = Queue!NoItem
         ELSE old.quantity \in 1 .. Top /\ old.quantity <= m * Cardinality(Done)
      /\ kind = "set" => old # Queue!NoItem
  <2>1. old \in [id : CartRequests \cup {None}, quantity : -(Top + 1) .. Top]
    BY <1>2, <1>4 DEF TurnEntries
  <2>2. IF old.id = None THEN old = Queue!NoItem
        ELSE old.quantity \in 1 .. Top /\ old.quantity <= m * Cardinality(Done)
    BY <1>2 DEF QueueInv
  <2>3. kind = "set" => old # Queue!NoItem
    BY <1>1, <1>2, <1>3 DEF QueueInv
  <2> QED
    BY <2>1, <2>2, <2>3
<1> DEFINE n == IF kind = "add" THEN old.quantity + q ELSE q
<1>6. n \in 1 .. Top /\ n <= m * Cardinality(Done) + m /\ old.quantity \in Nat
  <2>1. old.quantity \in Nat /\ old.quantity <= m * Cardinality(Done)
    <3>1. CASE old.id = None
      BY <1>3, <1>5, <3>1 DEF Queue!NoItem
    <3>2. CASE old.id # None
      BY <1>5, <3>2
    <3> QED
      BY <3>1, <3>2
  <2> QED
    BY <1>3, <2>1
<1>7. PICK done \in {"ok", "lost"} :
        /\ askedInTurn' = [askedInTurn EXCEPT ![r].pc = done] /\ UNCHANGED goneInTurn
        /\ \E a \in CartRequests : inTurn' = [inTurn EXCEPT ![k] = [id |-> a, quantity |-> n]]
  <2>1. CASE Queue!Create(r)
    <3>1. old = Queue!NoItem /\ kind = "add"
      BY <1>2, <1>3, <2>1 DEF Queue!Create
    <3>2. n = q
      BY <1>3, <3>1 DEF Queue!NoItem
    <3>3. /\ inTurn' = [inTurn EXCEPT ![k] = [id |-> r, quantity |-> q]]
          /\ \E done \in {"ok", "lost"} : askedInTurn' = [askedInTurn EXCEPT ![r].pc = done]
          /\ UNCHANGED goneInTurn
      BY <1>2, <2>1, <3>1 DEF Queue!Create, Queue!Effective
    <3> QED
      BY <3>2, <3>3
  <2>2. CASE Queue!Write(r)
    <3>1. old # Queue!NoItem /\ old.id \in CartRequests
      BY <1>2, <1>3, <1>5, <2>2 DEF Queue!Write
    <3>2. Queue!Written(r) = n
      <4>1. Queue!Written(r) = IF kind = "add" THEN Queue!Wrap(old.quantity + q) ELSE q
        BY <1>2, <1>3 DEF Queue!Written
      <4>2. kind = "add" => old.quantity + q <= Top
        BY <1>6
      <4>3. kind = "add" => Queue!Wrap(old.quantity + q) = old.quantity + q
        BY <1>3, <1>6, <4>2 DEF Queue!Wrap
      <4> QED
        BY <4>1, <4>3
    <3>3. /\ inTurn' = [inTurn EXCEPT ![k].quantity = n]
          /\ \E done \in {"ok", "lost"} : askedInTurn' = [askedInTurn EXCEPT ![r].pc = done]
          /\ UNCHANGED goneInTurn
      BY <1>2, <1>3, <2>2, <3>2 DEF Queue!Write, Queue!Effective
    <3>4. [old EXCEPT !.quantity = n] = [id |-> old.id, quantity |-> n]
      BY <1>5
    <3> HIDE DEF n
    <3>5. inTurn' = [inTurn EXCEPT ![k] = [id |-> old.id, quantity |-> n]]
      BY <1>2, <3>3, <3>4
    <3> QED
      BY <3>1, <3>3, <3>5
  <2> QED
    BY <2>1, <2>2
<1> HIDE DEF n
<1>8. /\ \A j \in QueueSkus : j # k => inTurn'[j] = inTurn[j]
      /\ inTurn'[k].id # None /\ inTurn'[k].quantity = n
      /\ inTurn' \in TurnEntries
  <2>1. PICK a \in CartRequests : inTurn' = [inTurn EXCEPT ![k] = [id |-> a, quantity |-> n]]
    BY <1>7
  <2>2. [id |-> a, quantity |-> n] \in [id : CartRequests \cup {None}, quantity : -(Top + 1) .. Top]
    BY <1>6
  <2>3. inTurn'[k] = [id |-> a, quantity |-> n]
    BY <1>2, <1>4, <2>1 DEF TurnEntries
  <2>4. inTurn'[k].id = a /\ inTurn'[k].quantity = n /\ a # None
    BY <2>3
  <2> QED
    BY <1>4, <2>1, <2>2, <2>4 DEF TurnEntries
<1>9. /\ askedInTurn' \in [CartRequests -> InTurn]
      /\ \A t \in CartRequests : t # r => askedInTurn'[t] = askedInTurn[t]
      /\ askedInTurn'[r].pc \in {"ok", "lost"} /\ askedInTurn'[r].kind = kind
      /\ askedInTurn'[r].sku = k /\ askedInTurn'[r].quantity = q
  BY <1>2, <1>4, <1>7 DEF InTurn
<1>10. Queue!TypeOK'
  BY <1>4, <1>7, <1>8, <1>9 DEF Queue!TypeOK, InTurn, TurnEntries
<1>11. QueueInv(m)'
  BY <1>1, <1>3, <1>6, <1>8, <1>9, <1>10, TurnEnds
<1>12. Amount' = [Amount EXCEPT ![k] = n] /\ Amount[k] = old.quantity
  BY <1>2, <1>8 DEF Amount
<1>13. Replied[r] = None /\ Replied' = [Replied EXCEPT ![r] = <<kind, k, q>>]
  BY <1>1, <1>9, AnswerGrows
<1>14. CASE kind = "add"
  <2>1. Amount' = [Amount EXCEPT ![k] = @ + q]
    BY <1>12, <1>14 DEF n
  <2>2. Queue!Book!Put(r, k, q)
    BY <1>13, <1>14, <2>1 DEF Queue!Book!Put, Queue!Book!Serve, Amount, Replied, Queue!Effective
  <2> QED
    BY <1>2, <1>3, <1>11, <2>2 DEF Queue!Book!CartBookNext
<1>15. CASE kind = "set"
  <2>1. Amount' = [Amount EXCEPT ![k] = q] /\ Amount[k] > 0
    <3>1. old.quantity \in 1 .. Top
      BY <1>5, <1>15
    <3> QED
      BY <1>12, <1>15, <3>1 DEF n
  <2>2. Queue!Book!Change(r, k, q)
    BY <1>13, <1>15, <2>1 DEF Queue!Book!Change, Queue!Book!Serve, Amount, Replied, Queue!Effective
  <2> QED
    BY <1>2, <1>3, <1>11, <2>2 DEF Queue!Book!CartBookNext
<1> QED
  BY <1>3, <1>14, <1>15

LEMMA QueueStep ==
  ASSUME NEW m, Within(m), QueueInv(m), [Queue!Next]_queueVars
  PROVE  QueueInv(m)' /\ [Queue!Book!CartBookNext]_(Queue!Book!cartBookVars)
<1>1. UNCHANGED <<Amount, Replied>> => UNCHANGED Queue!Book!cartBookVars
  BY DEF Amount, Replied, Queue!Book!cartBookVars, Queue!Effective
<1>2. ASSUME NEW r \in CartRequests, Queue!Fails(r)
      PROVE  QueueInv(m)' /\ UNCHANGED <<Amount, Replied>>
  <2>1. /\ askedInTurn[r].pc \in {"new", "running"} /\ UNCHANGED <<inTurn, goneInTurn>>
        /\ askedInTurn' = [askedInTurn EXCEPT ![r].pc = "error"]
        /\ askedInTurn[r].pc = "new" => \A t \in CartRequests : askedInTurn[t].pc # "running"
    BY <1>2 DEF Queue!Fails, Queue!MayStart, Queue!Running
  <2>2. /\ askedInTurn' \in [CartRequests -> InTurn] /\ askedInTurn'[r].pc = "error"
        /\ \A t \in CartRequests : t # r => askedInTurn'[t] = askedInTurn[t]
    BY <2>1 DEF QueueInv, Queue!TypeOK, InTurn
  <2>3. Queue!TypeOK'
    BY <2>1, <2>2 DEF QueueInv, Queue!TypeOK, InTurn
  <2>4. \A t \in CartRequests : t # r => askedInTurn[t].pc # "running"
    BY <2>1 DEF QueueInv
  <2>5. QueueInv(m)'
    BY <2>1, <2>2, <2>3, <2>4, TurnEnds
  <2> QED
    BY <2>1, <2>2, <2>5, AnswerGrows DEF Amount
<1>3. CASE UNCHANGED queueVars
  <2>1. UNCHANGED <<inTurn, askedInTurn, goneInTurn>>
    BY <1>3 DEF queueVars
  <2>2. Done' = Done
    BY <2>1 DEF Done
  <2> QED
    BY <1>1, <2>1, <2>2 DEF QueueInv, Queue!TypeOK, Amount, Replied
<1> QED
  BY <1>1, <1>2, <1>3, TurnBegins, TurnRemoves, TurnClears, TurnWrites DEF Queue!Next

(* ActsAsCart: requests one after the other change the cart as they are documented to, as
   long as what is asked for in all is within what a row can hold.  (Beyond that a sum
   wraps around: README, section 3.) *)
THEOREM CartActsAsBook == SumsFit => (ServicesSpec => ActsAsCart)
<1> SUFFICES ASSUME SumsFit PROVE ServicesSpec => ActsAsCart
  OBVIOUS
<1>1. PICK m \in Nat : Within(m)
  BY DEF SumsFit, Within
<1> DEFINE Inv == part = "serial cart" => QueueInv(m)
<1>2. ServicesInit => Inv /\ Queue!Book!CartBookInit
  <2> SUFFICES ASSUME Queue!Init PROVE QueueInv(m) /\ Queue!Book!CartBookInit
    BY DEF ServicesInit
  <2> USE CartConstants
  <2>1. /\ inTurn = [k \in QueueSkus |-> Queue!NoItem] /\ goneInTurn = {}
        /\ askedInTurn = [r \in CartRequests |-> Queue!New]
    BY DEF Queue!Init
  <2>2. Queue!TypeOK
    BY <2>1 DEF Queue!TypeOK, Queue!NoItem, Queue!New
  <2>3. \A r \in CartRequests : askedInTurn[r].pc = "new"
    BY <2>1 DEF Queue!New
  <2>4. \A k \in QueueSkus : inTurn[k] = Queue!NoItem /\ inTurn[k].id = None
    BY <2>1 DEF Queue!NoItem
  <2>5. QueueInv(m)
    BY <2>2, <2>3, <2>4 DEF QueueInv
  <2>6. Amount = [k \in QueueSkus |-> 0] /\ Replied = [r \in CartRequests |-> None]
    BY <2>3, <2>4 DEF Amount, Replied, Queue!NoItem
  <2> QED
    BY <2>5, <2>6 DEF Queue!Book!CartBookInit, Amount, Replied, Queue!Effective
<1>3. Inv /\ [ServicesNext]_servicesVars => Inv'
  <2> SUFFICES ASSUME Inv, [ServicesNext]_servicesVars PROVE Inv'
    OBVIOUS
  <2>1. part' = part /\ (part = "serial cart" => [Queue!Next]_queueVars)
    BY DEF ServicesNext, servicesVars, cartVars
  <2> QED
    BY <1>1, <2>1, QueueStep
<1>4. Inv /\ [ServicesNext]_servicesVars =>
        [part = "serial cart" => [Queue!Book!CartBookNext]_(Queue!Book!cartBookVars)]_queueVars
  <2> SUFFICES ASSUME Inv, [ServicesNext]_servicesVars, part = "serial cart"
               PROVE  [Queue!Book!CartBookNext]_(Queue!Book!cartBookVars)
    OBVIOUS
  <2>1. QueueInv(m) /\ [Queue!Next]_queueVars
    BY DEF ServicesNext, servicesVars, cartVars
  <2> QED
    BY <1>1, <2>1, QueueStep
<1> QED
  BY <1>2, <1>3, <1>4, PTL DEF ServicesSpec, ActsAsCart
------------------------------------------------------------------------------
(* Payments whose transitions overlap.  PaymentProofs shows for every instance of Payment
   that StepInv is inductive; both instances of MCServices are brought under it. *)

PayProofs == INSTANCE PaymentProofs WITH
  Payments <- {p0, p1}, Existing <- {p0}, Requests <- {create1, confirm0, confirm0Again},
  Faults <- {"rpc_timeout", "lost_ack", "crash"}, PaymentOverlap <- TRUE, BillsOverlap <- TRUE,
  pay <- payment, expired <- overdue, rec <- payRec, events <- sent, req <- payReq,
  call <- confirming, order <- paidOrder, orderRec <- paidRec

RepeatedProofs == INSTANCE PaymentProofs WITH
  Payments <- {p0}, Existing <- {p0}, Requests <- {confirm0, confirm0Anew},
  Faults <- {"rpc_timeout", "lost_ack", "crash"}, PaymentOverlap <- TRUE, BillsOverlap <- TRUE,
  pay <- payment, expired <- overdue, rec <- payRec, events <- sent, req <- payReq,
  call <- confirming, order <- paidOrder, orderRec <- paidRec

\* PayProofs and Pay are one specification.
LEMMA PayProofsAssumptions ==
  PayProofs!RequestsAssumption /\ PayProofs!PaymentsAssumption /\ PayProofs!NoOverwrite
BY PayAssumption
  DEF Pay!RequestsAssumption, PayProofs!RequestsAssumption, Pay!PaymentsAssumption,
      PayProofs!PaymentsAssumption, Pay!Kinds, PayProofs!Kinds, Pay!FaultKinds,
      PayProofs!FaultKinds, Pay!Creates, PayProofs!Creates, Pay!Confirms,
      PayProofs!Confirms, Pay!Key, PayProofs!Key, Pay!Bill, PayProofs!Bill,
      Pay!IsFiniteSet, PayProofs!IsFiniteSet,
      Pay!OneBill, PayProofs!OneBill, PayProofs!NoOverwrite, Pay!OrderOfCall,
      PayProofs!OrderOfCall

LEMMA PayProofsStarts == Pay!Init <=> PayProofs!Init
BY DEF Pay!Init, PayProofs!Init, Pay!Keys, PayProofs!Keys, Pay!Key, PayProofs!Key, Pay!Row,
      PayProofs!Row, Pay!NoSnapshot, PayProofs!NoSnapshot, Pay!NoPayment,
      PayProofs!NoPayment, Pay!NoTrade, PayProofs!NoTrade, Pay!NoBill, PayProofs!NoBill

LEMMA PayProofsNext == Pay!Next <=> PayProofs!Next
BY DEF Pay!Next, PayProofs!Next, Pay!RequestStep, PayProofs!RequestStep, Pay!OrderStep,
      PayProofs!OrderStep, Pay!Find, PayProofs!Find, Pay!Claim, PayProofs!Claim,
      Pay!Reclaim, PayProofs!Reclaim, Pay!Mark, PayProofs!Mark, Pay!List, PayProofs!List,
      Pay!Scan, PayProofs!Scan, Pay!CheckOrder, PayProofs!CheckOrder, Pay!Insert,
      PayProofs!Insert, Pay!InsertConflict, PayProofs!InsertConflict, Pay!Reuse,
      PayProofs!Reuse, Pay!LoadForConfirm, PayProofs!LoadForConfirm, Pay!Answered,
      PayProofs!Answered, Pay!TimedOut, PayProofs!TimedOut, Pay!LoadForClose,
      PayProofs!LoadForClose, Pay!Select, PayProofs!Select, Pay!Update, PayProofs!Update,
      Pay!DbError, PayProofs!DbError, Pay!Crash, PayProofs!Crash, Pay!Expire,
      PayProofs!Expire, Pay!OrderClaims, PayProofs!OrderClaims, Pay!OrderConfirms,
      PayProofs!OrderConfirms, Pay!OrderRefuses, PayProofs!OrderRefuses, Pay!OrderEnds,
      PayProofs!OrderEnds, Pay!At, PayProofs!At, Pay!Goto, PayProofs!Goto, Pay!Become,
      PayProofs!Become, Pay!Answer, PayProofs!Answer, Pay!AnswerWith, PayProofs!AnswerWith,
      Pay!Transit, PayProofs!Transit, Pay!After, PayProofs!After, Pay!Owned,
      PayProofs!Owned, Pay!Row, PayProofs!Row, Pay!Newest, PayProofs!Newest, Pay!OfOrder,
      PayProofs!OfOrder, Pay!InTransition, PayProofs!InTransition, Pay!OrderAnswers,
      PayProofs!OrderAnswers, Pay!NoSnapshot, PayProofs!NoSnapshot, Pay!NoPayment,
      PayProofs!NoPayment, Pay!Key, PayProofs!Key, Pay!Bill, PayProofs!Bill, Pay!Settled,
      PayProofs!Settled, Pay!rows, PayProofs!rows, Pay!orderVars, PayProofs!orderVars,
      Pay!OrderChecks, PayProofs!OrderChecks,
      Pay!OrderOfCall, PayProofs!OrderOfCall, Pay!Paying, PayProofs!Paying,
      Pay!NoTrade, PayProofs!NoTrade, Pay!Book!End,
      PayProofs!Book!End, Pay!Cardinality, PayProofs!Cardinality

LEMMA PayProofsMoves ==
  [Pay!Next]_payVars => [PayProofs!Next]_PayProofs!vars
BY PayProofsNext
  DEF payVars, PayProofs!vars, PayProofs!rows, PayProofs!orderVars

LEMMA PayProofsInStep == PayProofs!InStep => Pay!InStep
BY DEF Pay!InStep, PayProofs!InStep, Pay!SucceededIsPaid, PayProofs!SucceededIsPaid,
      Pay!UnsettledExplained, PayProofs!UnsettledExplained, Pay!PaidBy, PayProofs!PaidBy,
      Pay!AtRest, PayProofs!AtRest, Pay!Confirms, PayProofs!Confirms, Pay!Bill,
      PayProofs!Bill

LEMMA PayProofsStepInv ==
  /\ PayProofs!Init => PayProofs!StepInv
  /\ PayProofs!StepInv /\ [PayProofs!Next]_PayProofs!vars => PayProofs!StepInv'
  /\ PayProofs!StepInv => PayProofs!InStep
BY PayProofsAssumptions, PayProofs!InitStep, PayProofs!StepInvStays,
   PayProofs!StepInvInStep
  DEF PayProofs!InitStep, PayProofs!StepInvStays, PayProofs!StepInvInStep

\* RepeatedProofs and Repeated are one specification.
LEMMA RepeatedProofsAssumptions ==
  RepeatedProofs!RequestsAssumption /\ RepeatedProofs!PaymentsAssumption /\ RepeatedProofs!NoOverwrite
BY PayAssumption
  DEF Repeated!RequestsAssumption, RepeatedProofs!RequestsAssumption,
      Repeated!PaymentsAssumption, RepeatedProofs!PaymentsAssumption, Repeated!Kinds,
      RepeatedProofs!Kinds, Repeated!FaultKinds, RepeatedProofs!FaultKinds,
      Repeated!Creates, RepeatedProofs!Creates, Repeated!Confirms, RepeatedProofs!Confirms,
      Repeated!Key, RepeatedProofs!Key, Repeated!Bill, RepeatedProofs!Bill,
      Repeated!IsFiniteSet, RepeatedProofs!IsFiniteSet,
      Repeated!OneBill, RepeatedProofs!OneBill, RepeatedProofs!NoOverwrite, Repeated!OrderOfCall,
      RepeatedProofs!OrderOfCall

LEMMA RepeatedProofsStarts == Repeated!Init <=> RepeatedProofs!Init
BY DEF Repeated!Init, RepeatedProofs!Init, Repeated!Keys, RepeatedProofs!Keys, Repeated!Key,
      RepeatedProofs!Key, Repeated!Row, RepeatedProofs!Row, Repeated!NoSnapshot,
      RepeatedProofs!NoSnapshot, Repeated!NoPayment, RepeatedProofs!NoPayment,
      Repeated!NoTrade, RepeatedProofs!NoTrade, Repeated!NoBill, RepeatedProofs!NoBill

LEMMA RepeatedProofsNext == Repeated!Next <=> RepeatedProofs!Next
BY DEF Repeated!Next, RepeatedProofs!Next, Repeated!RequestStep, RepeatedProofs!RequestStep,
      Repeated!OrderStep, RepeatedProofs!OrderStep, Repeated!Find, RepeatedProofs!Find,
      Repeated!Claim, RepeatedProofs!Claim, Repeated!Reclaim, RepeatedProofs!Reclaim,
      Repeated!Mark, RepeatedProofs!Mark, Repeated!List, RepeatedProofs!List,
      Repeated!Scan, RepeatedProofs!Scan, Repeated!CheckOrder, RepeatedProofs!CheckOrder,
      Repeated!Insert, RepeatedProofs!Insert, Repeated!InsertConflict,
      RepeatedProofs!InsertConflict, Repeated!Reuse, RepeatedProofs!Reuse,
      Repeated!LoadForConfirm, RepeatedProofs!LoadForConfirm, Repeated!Answered,
      RepeatedProofs!Answered, Repeated!TimedOut, RepeatedProofs!TimedOut,
      Repeated!LoadForClose, RepeatedProofs!LoadForClose, Repeated!Select,
      RepeatedProofs!Select, Repeated!Update, RepeatedProofs!Update, Repeated!DbError,
      RepeatedProofs!DbError, Repeated!Crash, RepeatedProofs!Crash, Repeated!Expire,
      RepeatedProofs!Expire, Repeated!OrderClaims, RepeatedProofs!OrderClaims,
      Repeated!OrderConfirms, RepeatedProofs!OrderConfirms, Repeated!OrderRefuses,
      RepeatedProofs!OrderRefuses, Repeated!OrderEnds, RepeatedProofs!OrderEnds,
      Repeated!At, RepeatedProofs!At, Repeated!Goto, RepeatedProofs!Goto, Repeated!Become,
      RepeatedProofs!Become, Repeated!Answer, RepeatedProofs!Answer, Repeated!AnswerWith,
      RepeatedProofs!AnswerWith, Repeated!Transit, RepeatedProofs!Transit, Repeated!After,
      RepeatedProofs!After, Repeated!Owned, RepeatedProofs!Owned, Repeated!Row,
      RepeatedProofs!Row, Repeated!Newest, RepeatedProofs!Newest, Repeated!OfOrder,
      RepeatedProofs!OfOrder, Repeated!InTransition, RepeatedProofs!InTransition,
      Repeated!OrderAnswers, RepeatedProofs!OrderAnswers, Repeated!NoSnapshot,
      RepeatedProofs!NoSnapshot, Repeated!NoPayment, RepeatedProofs!NoPayment,
      Repeated!Key, RepeatedProofs!Key, Repeated!Bill, RepeatedProofs!Bill,
      Repeated!Settled, RepeatedProofs!Settled, Repeated!rows, RepeatedProofs!rows,
      Repeated!orderVars, RepeatedProofs!orderVars, Repeated!vars, RepeatedProofs!vars,
      Repeated!OrderChecks, RepeatedProofs!OrderChecks,
      Repeated!OrderOfCall, RepeatedProofs!OrderOfCall, Repeated!Paying, RepeatedProofs!Paying,
      Repeated!NoTrade, RepeatedProofs!NoTrade, Repeated!Book!End,
      RepeatedProofs!Book!End, Repeated!Cardinality, RepeatedProofs!Cardinality

LEMMA RepeatedProofsMoves ==
  [Repeated!Next]_payVars => [RepeatedProofs!Next]_RepeatedProofs!vars
BY RepeatedProofsNext
  DEF payVars, RepeatedProofs!vars, RepeatedProofs!rows, RepeatedProofs!orderVars

LEMMA RepeatedProofsInStep == RepeatedProofs!InStep => Repeated!InStep
BY DEF Repeated!InStep, RepeatedProofs!InStep, Repeated!SucceededIsPaid,
      RepeatedProofs!SucceededIsPaid, Repeated!UnsettledExplained,
      RepeatedProofs!UnsettledExplained, Repeated!PaidBy, RepeatedProofs!PaidBy,
      Repeated!AtRest, RepeatedProofs!AtRest, Repeated!Confirms, RepeatedProofs!Confirms,
      Repeated!Bill, RepeatedProofs!Bill

LEMMA RepeatedProofsStepInv ==
  /\ RepeatedProofs!Init => RepeatedProofs!StepInv
  /\ RepeatedProofs!StepInv /\ [RepeatedProofs!Next]_RepeatedProofs!vars
       => RepeatedProofs!StepInv'
  /\ RepeatedProofs!StepInv => RepeatedProofs!InStep
BY RepeatedProofsAssumptions, RepeatedProofs!InitStep, RepeatedProofs!StepInvStays,
   RepeatedProofs!StepInvInStep
  DEF RepeatedProofs!InitStep, RepeatedProofs!StepInvStays, RepeatedProofs!StepInvInStep

(* OverlapExplained: while transitions of a payment overlap, and when a confirmation is
   repeated under another request_id, a payment that succeeded has its order paid by it, and
   an order paid by one that did not is the trace of a confirmation that died, stopped
   waiting or was told of a failure, or of a payment that was closed. *)
THEOREM OverlapIsExplained == ServicesSpec => []OverlapExplained
<1> DEFINE Inv == /\ part = "payments" => PayProofs!StepInv
                  /\ part = "repeated payments" => RepeatedProofs!StepInv
<1>1. ServicesInit => Inv
  BY PayProofsStarts, RepeatedProofsStarts, PayProofsStepInv, RepeatedProofsStepInv
  DEF ServicesInit
<1>2. Inv /\ [ServicesNext]_servicesVars => Inv'
  <2> SUFFICES ASSUME Inv, [ServicesNext]_servicesVars PROVE Inv'
    OBVIOUS
  <2>1. /\ part' = part
        /\ part = "payments" => [Pay!Next]_payVars
        /\ part = "repeated payments" => [Repeated!Next]_payVars
    BY DEF ServicesNext, servicesVars
  <2> QED
    BY <2>1, PayProofsMoves, RepeatedProofsMoves, PayProofsStepInv, RepeatedProofsStepInv
<1>3. Inv => OverlapExplained
  BY PayProofsStepInv, RepeatedProofsStepInv, PayProofsInStep, RepeatedProofsInStep
  DEF OverlapExplained
<1> QED
  BY <1>1, <1>2, <1>3, PTL DEF ServicesSpec
==============================================================================
