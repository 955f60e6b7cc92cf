------------------------------ MODULE SessionBook ------------------------------
(***************************************************************************)
(* What a session store promises, as the in-memory store keeps it under    *)
(* its mutex: a session has one refresh token that counts; exchanging it   *)
(* for a new one takes one step, and a session that is over stays over.    *)
(***************************************************************************)
CONSTANTS Sids, Tokens, None

VARIABLES
  live,     \* live[s]: the refresh token of session s that counts
  next,     \* next[t]: the token that t was exchanged for
  opened,   \* the sessions there have been
  issued    \* the tokens there have been

bookVars == <<live, next, opened, issued>>

BookInit ==
  /\ live = [s \in Sids |-> None]
  /\ next = [t \in Tokens |-> None]
  /\ opened = {} /\ issued = {}

Open(s, t) ==
  /\ s \notin opened /\ t \notin issued
  /\ opened' = opened \cup {s} /\ issued' = issued \cup {t}
  /\ live' = [live EXCEPT ![s] = t]
  /\ UNCHANGED next

Exchange(s, t) ==
  /\ live[s] # None /\ t \notin issued
  /\ next[live[s]] = None
  /\ issued' = issued \cup {t}
  /\ next' = [next EXCEPT ![live[s]] = t]
  /\ live' = [live EXCEPT ![s] = t]
  /\ UNCHANGED opened

\* Deleted, or out of time.
End(s) ==
  /\ live[s] # None
  /\ live' = [live EXCEPT ![s] = None]
  /\ UNCHANGED <<next, opened, issued>>

BookNext ==
  \E s \in Sids : End(s) \/ \E t \in Tokens : Open(s, t) \/ Exchange(s, t)

BookSpec == BookInit /\ [][BookNext]_bookVars
==============================================================================
