---------------------------- MODULE GatewayProofs ----------------------------
(***************************************************************************)
(* Theorems about what MCGateway puts together: the sessions, the cache of *)
(* the product service, the rate limiter, the creation of a product and    *)
(* its updates, for any sessions, tokens, requests, keys, goroutines,      *)
(* writers, readers, limits, faults and runs.                              *)
(***************************************************************************)
EXTENDS MCGateway, Integers, Sequences, FiniteSetTheorems, TLAPS

------------------------------------------------------------------------------
(* Sessions. *)

\* Sessions share no token, live ones were opened, and their token is known and unspent.
LiveInv ==
  /\ \A s \in Sids : session[s] # None => s \in opened /\ session[s] \in issued /\ next[session[s]] = None
  /\ \A s, z \in Sids : session[s] # None /\ session[s] = session[z] => s = z
  /\ \A t \in Tokens : next[t] # None => t \in issued

\* A token's key exists only for tokens and sessions there have been.
IndexInv ==
  \A t \in Tokens : index[t] # None => t \in issued /\ index[t] \in opened

\* What a request remembers: its token, and that nothing it watches was written.
CallInv ==
  \A c \in Calls :
    /\ call[c].pc # "idle" /\ call[c].old # None => call[c].old \in issued
    /\ call[c].pc = "exec" /\ ~call[c].dirty => session[call[c].sid] = call[c].old
    /\ call[c].pc = "delete" => \A z \in Sids : session[z] = call[c].old => z = call[c].sid
    /\ call[c].pc # "idle" /\ call[c].op = "logout" => call[c].sid \in opened

SessionInv ==
  /\ TypeOK /\ LiveInv /\ IndexInv /\ CallInv
  /\ LogoutLasts /\ SpentIsGone /\ LiveIsReachable

Pcs == {"idle", "index", "session", "watch", "exec", "read", "delete"}
CallRec == [pc : Pcs, op : {"none", "refresh", "logout"}, sid : Sids \cup {None},
            old : Tokens \cup {None}, dirty : BOOLEAN]

------------------------------------------------------------------------------
(* What Touch does to the calls. *)

LEMMA TouchKeeps ==
  ASSUME TypeOK, NEW s, NEW t
  PROVE  /\ Touch(s, t) \in [Calls -> CallRec]
         /\ \A c \in Calls :
              /\ Touch(s, t)[c].pc = call[c].pc /\ Touch(s, t)[c].op = call[c].op
              /\ Touch(s, t)[c].sid = call[c].sid /\ Touch(s, t)[c].old = call[c].old
              /\ ~Touch(s, t)[c].dirty =>
                   /\ ~call[c].dirty
                   /\ call[c].pc = "exec" => call[c].sid # s /\ call[c].old # t
<1>1. call \in [Calls -> CallRec]
  BY DEF TypeOK, CallRec, Pcs
<1>2. ASSUME NEW c \in Calls
      PROVE  /\ Touch(s, t)[c] = [call[c] EXCEPT !.dirty =
                  call[c].dirty \/ (call[c].pc = "exec" /\ (call[c].sid = s \/ call[c].old = t))]
             /\ call[c] \in CallRec
  BY <1>1 DEF Touch
<1>3. ASSUME NEW c \in Calls, NEW b \in BOOLEAN
      PROVE  /\ [call[c] EXCEPT !.dirty = b] \in CallRec
             /\ [call[c] EXCEPT !.dirty = b].dirty = b
  BY <1>2 DEF CallRec
<1>4. ASSUME NEW c \in Calls
      PROVE  (call[c].dirty \/ (call[c].pc = "exec" /\ (call[c].sid = s \/ call[c].old = t)))
               \in BOOLEAN
  OBVIOUS
<1>5. Touch(s, t) \in [Calls -> CallRec]
  BY <1>2, <1>3, <1>4 DEF Touch
<1> QED
  BY <1>2, <1>3, <1>4, <1>5 DEF CallRec

------------------------------------------------------------------------------
(* The initial states. *)

LEMMA InitOK == Init => SessionInv
<1> SUFFICES ASSUME Init PROVE SessionInv
  OBVIOUS
<1>1. TypeOK
  BY SessionAssumption DEF Init, TypeOK, Idle
<1>2. LiveInv /\ IndexInv /\ CallInv
  BY DEF Init, LiveInv, IndexInv, CallInv, Idle
<1>3. LogoutLasts /\ SpentIsGone /\ LiveIsReachable
  BY DEF Init, LogoutLasts, SpentIsGone, LiveIsReachable
<1> QED BY <1>1, <1>2, <1>3 DEF SessionInv

------------------------------------------------------------------------------
(* Steps that only move a request on. *)

\* The store and the past stay: what is left to show is about the requests.
LEMMA Quiet ==
  ASSUME SessionInv, UNCHANGED <<store, past>>, TypeOK', CallInv'
  PROVE  SessionInv'
<1> USE DEF store, past
<1>1. LiveInv' /\ IndexInv'
  BY DEF SessionInv, LiveInv, IndexInv
<1>2. LogoutLasts' /\ SpentIsGone' /\ LiveIsReachable'
  BY DEF SessionInv, LogoutLasts, SpentIsGone, LiveIsReachable
<1> QED BY <1>1, <1>2 DEF SessionInv

\* A request that ends.
LEMMA Ends ==
  ASSUME SessionInv, UNCHANGED <<store, past>>, NEW c \in Calls, call' = End(c, call)
  PROVE  SessionInv'
<1>1. TypeOK'
  BY SessionAssumption DEF SessionInv, TypeOK, End, Idle, store, past
<1>2. CallInv'
  BY DEF SessionInv, TypeOK, CallInv, End, Idle, store, past
<1> QED BY <1>1, <1>2, Quiet

LEMMA RefreshOK ==
  ASSUME SessionInv, NEW c \in Calls, NEW t \in Tokens, Refresh(c, t)
  PROVE  SessionInv'
<1>1. TypeOK'
  BY SessionAssumption DEF SessionInv, TypeOK, Refresh, Idle, store, past
<1>2. CallInv'
  BY DEF SessionInv, TypeOK, CallInv, Refresh, Idle, store, past
<1> QED BY <1>1, <1>2, Quiet DEF Refresh

LEMMA LogoutOK ==
  ASSUME SessionInv, NEW c \in Calls, NEW s \in Sids, Logout(c, s)
  PROVE  SessionInv'
<1>1. TypeOK'
  BY SessionAssumption DEF SessionInv, TypeOK, Logout, Idle, store, past
<1>2. CallInv'
  BY DEF SessionInv, TypeOK, CallInv, Logout, Idle, store, past
<1> QED BY <1>1, <1>2, Quiet DEF Logout

LEMMA ReadIndexOK ==
  ASSUME SessionInv, NEW c \in Calls, ReadIndex(c)
  PROVE  SessionInv'
<1>1. CASE index[call[c].old] = None
  BY <1>1, Ends DEF ReadIndex
<1>2. CASE index[call[c].old] # None
  <2>0. call[c].old \in Tokens /\ index[call[c].old] \in Sids /\ call[c].pc = "index"
    BY <1>2 DEF SessionInv, TypeOK, ReadIndex
  <2>1. TypeOK'
    <3> DEFINE rec == [call[c] EXCEPT !.pc = "session", !.sid = index[call[c].old]]
    <3>a. rec \in CallRec
      BY <2>0 DEF SessionInv, TypeOK, CallRec, Pcs
    <3>b. call' = [call EXCEPT ![c] = rec]
      BY <1>2 DEF SessionInv, TypeOK, ReadIndex
    <3>1. call' \in [Calls -> CallRec]
      BY <3>a, <3>b DEF SessionInv, TypeOK, CallRec, Pcs
    <3>2. \A d \in Calls : d # c => call'[d] = call[d]
      BY <1>2, <2>0 DEF SessionInv, TypeOK, ReadIndex
    <3>3. call'[c].old # None /\ call'[c].sid # None
      BY <1>2, <2>0, SessionAssumption DEF SessionInv, TypeOK, ReadIndex
    <3> QED BY <3>1, <3>2, <3>3 DEF SessionInv, TypeOK, CallRec, Pcs, ReadIndex, store, past
  <2>2. CallInv'
    BY <1>2 DEF SessionInv, TypeOK, CallInv, IndexInv, ReadIndex, store, past
  <2> QED BY <2>1, <2>2, Quiet DEF ReadIndex
<1> QED BY <1>1, <1>2

LEMMA ReadSessionOK ==
  ASSUME SessionInv, NEW c \in Calls, ReadSession(c)
  PROVE  SessionInv'
<1>1. CASE call' = End(c, call)
  BY <1>1, Ends DEF ReadSession
<1>2. CASE \E pc \in {"watch", "read"} : call' = [call EXCEPT ![c].pc = pc]
  <2>1. TypeOK'
    BY <1>2 DEF SessionInv, TypeOK, ReadSession, store, past
  <2>2. CallInv'
    BY <1>2 DEF SessionInv, TypeOK, CallInv, ReadSession, store, past
  <2> QED BY <2>1, <2>2, Quiet DEF ReadSession
<1> QED BY <1>1, <1>2 DEF ReadSession

LEMMA WatchOK ==
  ASSUME SessionInv, NEW c \in Calls, Watch(c)
  PROVE  SessionInv'
<1>1. CASE session[call[c].sid] # call[c].old
  BY <1>1, Ends DEF Watch
<1>2. CASE session[call[c].sid] = call[c].old
  <2>1. TypeOK'
    BY <1>2 DEF SessionInv, TypeOK, Watch, store, past
  <2>2. CallInv'
    BY <1>2 DEF SessionInv, TypeOK, CallInv, Watch, store, past
  <2> QED BY <2>1, <2>2, Quiet DEF Watch
<1> QED BY <1>1, <1>2

LEMMA DeleteReadOK ==
  ASSUME SessionInv, NEW c \in Calls, DeleteRead(c)
  PROVE  SessionInv'
<1> DEFINE s == call[c].sid
<1>1. s \in Sids /\ call[c].pc = "read"
  BY DEF SessionInv, TypeOK, DeleteRead
<1>2. CASE session[s] = None
  <2>1. UNCHANGED <<store, opened, issued, given, next, expired>> /\ call' = End(c, call)
        /\ loggedOut' = Answered(c)
    BY <1>2 DEF DeleteRead
  <2>2. TypeOK'
    BY <2>1, <1>1, SessionAssumption
    DEF SessionInv, TypeOK, CallInv, End, Idle, Answered, store
  <2>3. CallInv'
    BY <2>1 DEF SessionInv, TypeOK, CallInv, End, Idle, store
  <2>4. LiveInv' /\ IndexInv' /\ SpentIsGone' /\ LiveIsReachable'
    BY <2>1 DEF SessionInv, LiveInv, IndexInv, SpentIsGone, LiveIsReachable, store
  <2>5. LogoutLasts'
    BY <2>1, <1>2 DEF SessionInv, LogoutLasts, Answered, store
  <2> QED BY <2>2, <2>3, <2>4, <2>5 DEF SessionInv
<1>3. CASE session[s] # None
  <2>1. UNCHANGED <<store, past>>
        /\ call' = [call EXCEPT ![c].pc = "delete", ![c].old = session[s]]
    BY <1>3 DEF DeleteRead, store, past
  <2>2. session[s] \in Tokens
    BY <1>1, <1>3 DEF SessionInv, TypeOK
  <2>3. TypeOK'
    <3> DEFINE rec == [call[c] EXCEPT !.pc = "delete", !.old = session[s]]
    <3>a. rec \in CallRec
      BY <2>2 DEF SessionInv, TypeOK, CallRec, Pcs
    <3>b. call' = [call EXCEPT ![c] = rec]
      BY <2>1 DEF SessionInv, TypeOK
    <3>1. call' \in [Calls -> CallRec]
      BY <3>a, <3>b DEF SessionInv, TypeOK, CallRec, Pcs
    <3>2. \A d \in Calls : d # c => call'[d] = call[d]
      BY <2>1 DEF SessionInv, TypeOK
    <3>3. call'[c].old # None /\ call'[c].sid # None
      BY <2>1, <2>2, <1>1, <1>3, SessionAssumption DEF SessionInv, TypeOK
    <3> QED BY <2>1, <3>1, <3>2, <3>3 DEF SessionInv, TypeOK, CallRec, Pcs, store, past
  <2>4. CallInv'
    BY <2>1, <1>1, <1>3 DEF SessionInv, TypeOK, CallInv, LiveInv, store, past
  <2> QED BY <2>1, <2>3, <2>4, Quiet
<1> QED BY <1>2, <1>3

------------------------------------------------------------------------------
(* Steps that write keys. *)

LEMMA LoginOK ==
  ASSUME SessionInv, NEW s \in Sids, NEW t \in Tokens, Login(s, t)
  PROVE  SessionInv'
<1>1. session[s] = None /\ s \notin loggedOut
  BY DEF SessionInv, LiveInv, TypeOK, Login
<1>2. TypeOK'
  BY DEF SessionInv, TypeOK, Login
<1>3. LiveInv'
  BY SessionAssumption DEF SessionInv, TypeOK, LiveInv, Login
<1>4. IndexInv'
  BY DEF SessionInv, TypeOK, IndexInv, Login
<1>5. CallInv'
  <2> SUFFICES ASSUME NEW c \in Calls PROVE CallInv!(c)'
    BY DEF CallInv
  <2>1. (call[c].pc # "idle" /\ call[c].old # None => call[c].old \in issued)'
    BY DEF SessionInv, CallInv, Login
  <2>2. (call[c].pc = "exec" /\ ~call[c].dirty => session[call[c].sid] = call[c].old)'
    BY <1>1 DEF SessionInv, TypeOK, CallInv, Login
  <2>3. (call[c].pc = "delete" => \A z \in Sids : session[z] = call[c].old => z = call[c].sid)'
    BY <1>1 DEF SessionInv, TypeOK, CallInv, Login
  <2>4. (call[c].pc # "idle" /\ call[c].op = "logout" => call[c].sid \in opened)'
    BY DEF SessionInv, CallInv, Login
  <2> QED BY <2>1, <2>2, <2>3, <2>4
<1>6. LogoutLasts'
  BY <1>1 DEF SessionInv, TypeOK, LogoutLasts, Login
<1>7. SpentIsGone'
  BY <1>1 DEF SessionInv, TypeOK, IndexInv, SpentIsGone, Login
<1>8. LiveIsReachable'
  BY <1>1, SessionAssumption DEF SessionInv, TypeOK, LiveInv, LiveIsReachable, Login
<1> QED BY <1>2, <1>3, <1>4, <1>5, <1>6, <1>7, <1>8 DEF SessionInv

LEMMA ExecOK ==
  ASSUME SessionInv, NEW c \in Calls, NEW t \in Tokens, Exec(c, t)
  PROVE  SessionInv'
<1> DEFINE s == call[c].sid
           old == call[c].old
           touched == Touch(s, old)
<1>1. s \in Sids /\ old \in Tokens /\ session[s] = old /\ old # None /\ t # None
  BY SessionAssumption DEF SessionInv, TypeOK, CallInv, Exec
<1>2. old \in issued /\ s \in opened /\ t \notin issued /\ t # old /\ next[t] = None
  BY <1>1 DEF SessionInv, LiveInv, Exec
<1>3. /\ session' = [session EXCEPT ![s] = t]
      /\ index' = [index EXCEPT ![old] = None, ![t] = s]
      /\ call' = [touched EXCEPT ![c] = Idle]
      /\ issued' = issued \cup {t} /\ next' = [next EXCEPT ![old] = t]
      /\ given' \in {given, given \cup {t}}
      /\ UNCHANGED <<opened, loggedOut, expired>>
  BY DEF Exec, End
<1>4. /\ touched \in [Calls -> CallRec]
      /\ \A d \in Calls :
           /\ touched[d].pc = call[d].pc /\ touched[d].op = call[d].op
           /\ touched[d].sid = call[d].sid /\ touched[d].old = call[d].old
           /\ ~touched[d].dirty =>
                /\ ~call[d].dirty
                /\ call[d].pc = "exec" => call[d].sid # s /\ call[d].old # old
  BY TouchKeeps DEF SessionInv
<1> HIDE DEF touched
<1>5. TypeOK'
  BY <1>1, <1>2, <1>3, <1>4 DEF SessionInv, TypeOK, CallRec, Pcs, Idle
<1>6. LiveInv'
  BY <1>1, <1>2, <1>3 DEF SessionInv, TypeOK, LiveInv
<1>7. IndexInv'
  BY <1>1, <1>2, <1>3 DEF SessionInv, TypeOK, IndexInv
<1>8. CallInv'
  <2> SUFFICES ASSUME NEW d \in Calls PROVE CallInv!(d)'
    BY DEF CallInv
  <2>1. CASE d = c
    BY <2>1, <1>3, <1>4 DEF CallInv, Idle
  <2>2. CASE d # c
    <3>1. call'[d] = touched[d]
      BY <2>2, <1>3, <1>4
    <3>2. (call[d].pc # "idle" /\ call[d].old # None => call[d].old \in issued)'
      BY <3>1, <1>3, <1>4 DEF SessionInv, CallInv
    <3>3. (call[d].pc = "exec" /\ ~call[d].dirty => session[call[d].sid] = call[d].old)'
      BY <3>1, <1>1, <1>3, <1>4 DEF SessionInv, TypeOK, CallInv
    <3>4. (call[d].pc = "delete" => \A z \in Sids : session[z] = call[d].old => z = call[d].sid)'
      BY <3>1, <1>1, <1>2, <1>3, <1>4 DEF SessionInv, TypeOK, CallInv
    <3>5. (call[d].pc # "idle" /\ call[d].op = "logout" => call[d].sid \in opened)'
      BY <3>1, <1>3, <1>4 DEF SessionInv, CallInv
    <3> QED BY <3>2, <3>3, <3>4, <3>5
  <2> QED BY <2>1, <2>2
<1>9. LogoutLasts'
  BY <1>1, <1>3 DEF SessionInv, TypeOK, LogoutLasts
<1>10. SpentIsGone'
  BY <1>1, <1>2, <1>3 DEF SessionInv, TypeOK, IndexInv, SpentIsGone
<1>11. LiveIsReachable'
  BY <1>1, <1>2, <1>3 DEF SessionInv, TypeOK, LiveInv, LiveIsReachable
<1> QED BY <1>5, <1>6, <1>7, <1>8, <1>9, <1>10, <1>11 DEF SessionInv

LEMMA DeleteOK ==
  ASSUME SessionInv, NEW c \in Calls, Delete(c)
  PROVE  SessionInv'
<1> DEFINE s == call[c].sid
           old == call[c].old
           wroteS == IF session[s] = None THEN None ELSE s
           wroteT == IF index[old] = None THEN None ELSE old
           touched == Touch(wroteS, wroteT)
<1>1. s \in Sids /\ old \in Tokens /\ call[c].pc = "delete"
  BY DEF SessionInv, TypeOK, Delete
<1>2. \A z \in Sids : session[z] = old => z = s
  BY <1>1 DEF SessionInv, CallInv
<1>3. /\ session' = [session EXCEPT ![s] = None]
      /\ index' = [index EXCEPT ![old] = None]
      /\ call' = [touched EXCEPT ![c] = Idle]
      /\ loggedOut' = Answered(c)
      /\ UNCHANGED <<opened, issued, given, next, expired>>
  BY DEF Delete, End
<1>4. /\ touched \in [Calls -> CallRec]
      /\ \A d \in Calls :
           /\ touched[d].pc = call[d].pc /\ touched[d].op = call[d].op
           /\ touched[d].sid = call[d].sid /\ touched[d].old = call[d].old
           /\ ~touched[d].dirty =>
                /\ ~call[d].dirty
                /\ call[d].pc = "exec" /\ session[s] # None => call[d].sid # s
  <2>1. session[s] # None => wroteS = s
    OBVIOUS
  <2> HIDE DEF wroteS, wroteT
  <2> QED BY <2>1, TouchKeeps DEF SessionInv
<1> HIDE DEF touched
<1>5. loggedOut' \subseteq loggedOut \cup {s} /\ loggedOut' \subseteq opened
  BY <1>1, <1>3 DEF SessionInv, TypeOK, CallInv, Answered
<1>6. TypeOK'
  BY <1>1, <1>3, <1>4, <1>5, SessionAssumption DEF SessionInv, TypeOK, CallRec, Pcs, Idle
<1>7. LiveInv'
  BY <1>1, <1>3 DEF SessionInv, TypeOK, LiveInv
<1>8. IndexInv'
  BY <1>1, <1>3 DEF SessionInv, TypeOK, IndexInv
<1>9. CallInv'
  <2> SUFFICES ASSUME NEW d \in Calls PROVE CallInv!(d)'
    BY DEF CallInv
  <2>1. CASE d = c
    BY <2>1, <1>3, <1>4 DEF CallInv, Idle
  <2>2. CASE d # c
    <3>1. call'[d] = touched[d]
      BY <2>2, <1>3, <1>4
    <3>2. (call[d].pc # "idle" /\ call[d].old # None => call[d].old \in issued)'
      BY <3>1, <1>3, <1>4 DEF SessionInv, CallInv
    <3>3. (call[d].pc = "exec" /\ ~call[d].dirty => session[call[d].sid] = call[d].old)'
      BY <3>1, <1>1, <1>3, <1>4 DEF SessionInv, TypeOK, CallInv
    <3>4. (call[d].pc = "delete" => \A z \in Sids : session[z] = call[d].old => z = call[d].sid)'
      BY <3>1, <1>1, <1>3, <1>4, SessionAssumption DEF SessionInv, TypeOK, CallInv
    <3>5. (call[d].pc # "idle" /\ call[d].op = "logout" => call[d].sid \in opened)'
      BY <3>1, <1>3, <1>4 DEF SessionInv, CallInv
    <3> QED BY <3>2, <3>3, <3>4, <3>5
  <2> QED BY <2>1, <2>2
<1>10. LogoutLasts'
  BY <1>1, <1>3, <1>5 DEF SessionInv, TypeOK, LogoutLasts
<1>11. SpentIsGone'
  BY <1>1, <1>3 DEF SessionInv, TypeOK, SpentIsGone
<1>12. LiveIsReachable'
  BY <1>1, <1>2, <1>3 DEF SessionInv, TypeOK, LiveIsReachable
<1> QED BY <1>6, <1>7, <1>8, <1>9, <1>10, <1>11, <1>12 DEF SessionInv

LEMMA SessionExpiresOK ==
  ASSUME SessionInv, NEW s \in Sids, SessionExpires(s)
  PROVE  SessionInv'
<1>1. /\ session[s] # None
      /\ session' = [session EXCEPT ![s] = None] /\ call' = Touch(s, None)
      /\ UNCHANGED <<index, opened, issued, given, next, loggedOut, expired>>
  BY DEF SessionExpires, past
<1>2. /\ call' \in [Calls -> CallRec]
      /\ \A d \in Calls :
           /\ call'[d].pc = call[d].pc /\ call'[d].op = call[d].op
           /\ call'[d].sid = call[d].sid /\ call'[d].old = call[d].old
           /\ ~call'[d].dirty =>
                ~call[d].dirty /\ (call[d].pc = "exec" => call[d].sid # s)
  BY <1>1, TouchKeeps DEF SessionInv
<1>3. TypeOK'
  BY <1>1, <1>2 DEF SessionInv, TypeOK, CallRec, Pcs
<1>4. LiveInv' /\ IndexInv'
  BY <1>1 DEF SessionInv, TypeOK, LiveInv, IndexInv
<1>5. CallInv'
  BY <1>1, <1>2, SessionAssumption DEF SessionInv, TypeOK, CallInv
<1>6. LogoutLasts' /\ SpentIsGone' /\ LiveIsReachable'
  BY <1>1 DEF SessionInv, TypeOK, LogoutLasts, SpentIsGone, LiveIsReachable
<1> QED BY <1>3, <1>4, <1>5, <1>6 DEF SessionInv

LEMMA TokenExpiresOK ==
  ASSUME SessionInv, NEW t \in Tokens, TokenExpires(t)
  PROVE  SessionInv'
<1>1. /\ index[t] # None /\ t \in issued
      /\ index' = [index EXCEPT ![t] = None] /\ expired' = expired \cup {t}
      /\ call' = Touch(None, t)
      /\ UNCHANGED <<session, opened, issued, given, next, loggedOut>>
  BY DEF TokenExpires, SessionInv, IndexInv
<1>2. /\ call' \in [Calls -> CallRec]
      /\ \A d \in Calls :
           /\ call'[d].pc = call[d].pc /\ call'[d].op = call[d].op
           /\ call'[d].sid = call[d].sid /\ call'[d].old = call[d].old
           /\ ~call'[d].dirty => ~call[d].dirty
  BY <1>1, TouchKeeps DEF SessionInv
<1>3. TypeOK'
  BY <1>1, <1>2 DEF SessionInv, TypeOK, CallRec, Pcs
<1>4. LiveInv' /\ IndexInv'
  BY <1>1 DEF SessionInv, TypeOK, LiveInv, IndexInv
<1>5. CallInv'
  BY <1>1, <1>2 DEF SessionInv, TypeOK, CallInv
<1>6. LogoutLasts' /\ SpentIsGone' /\ LiveIsReachable'
  BY <1>1 DEF SessionInv, TypeOK, LogoutLasts, SpentIsGone, LiveIsReachable
<1> QED BY <1>3, <1>4, <1>5, <1>6 DEF SessionInv

------------------------------------------------------------------------------
(* Every step. *)

LEMMA StepOK == SessionInv /\ [Next]_vars => SessionInv'
<1> SUFFICES ASSUME SessionInv, [Next]_vars PROVE SessionInv'
  OBVIOUS
<1>1. ASSUME NEW s \in Sids, NEW t \in Tokens, Login(s, t) PROVE SessionInv'
  BY <1>1, LoginOK
<1>2. ASSUME NEW c \in Calls, NEW t \in Tokens, Refresh(c, t) \/ Exec(c, t) PROVE SessionInv'
  BY <1>2, RefreshOK, ExecOK
<1>3. ASSUME NEW c \in Calls, NEW s \in Sids, Logout(c, s) PROVE SessionInv'
  BY <1>3, LogoutOK
<1>4. ASSUME NEW c \in Calls, ReadIndex(c) \/ ReadSession(c) \/ Watch(c) PROVE SessionInv'
  BY <1>4, ReadIndexOK, ReadSessionOK, WatchOK
<1>5. ASSUME NEW c \in Calls, ExecFails(c) \/ CallFails(c) PROVE SessionInv'
  BY <1>5, Ends DEF ExecFails, CallFails
<1>6. ASSUME NEW c \in Calls, DeleteRead(c) \/ Delete(c) PROVE SessionInv'
  BY <1>6, DeleteReadOK, DeleteOK
<1>7. ASSUME NEW s \in Sids, SessionExpires(s) PROVE SessionInv'
  BY <1>7, SessionExpiresOK
<1>8. ASSUME NEW t \in Tokens, TokenExpires(t) PROVE SessionInv'
  BY <1>8, TokenExpiresOK
<1>9. CASE UNCHANGED vars
  <2>1. TypeOK' /\ LiveInv' /\ IndexInv' /\ CallInv'
    BY <1>9 DEF SessionInv, TypeOK, LiveInv, IndexInv, CallInv, vars
  <2>2. LogoutLasts' /\ SpentIsGone' /\ LiveIsReachable'
    BY <1>9 DEF SessionInv, LogoutLasts, SpentIsGone, LiveIsReachable, vars
  <2> QED BY <2>1, <2>2 DEF SessionInv
<1> QED BY <1>1, <1>2, <1>3, <1>4, <1>5, <1>6, <1>7, <1>8, <1>9, Zenon DEF Next

LEMMA Inductive == Spec => []SessionInv
BY InitOK, StepOK, PTL DEF Spec

\* The state keeps its type, whatever requests overlap and fail (session_store.go, all of it).
THEOREM SessionsTyped == Spec => []TypeOK
<1>1. SessionInv => TypeOK
  BY DEF SessionInv
<1> QED BY <1>1, Inductive, PTL

(* A session whose logout was answered never has a token again: a refresh under way then
   fails at its EXEC (Rotate, Delete). *)
THEOREM LoggedOutStaysOut == Spec => []LogoutLasts
<1>1. SessionInv => LogoutLasts
  BY DEF SessionInv
<1> QED BY <1>1, Inductive, PTL

\* A token that was replaced leads to no session that lives (Rotate deletes its key).
THEOREM ReplacedIsGone == Spec => []SpentIsGone
<1>1. SessionInv => SpentIsGone
  BY DEF SessionInv
<1> QED BY <1>1, Inductive, PTL

\* The token of a live session is found under its key until that expires (Save, Rotate).
THEOREM LiveIsFound == Spec => []LiveIsReachable
<1>1. SessionInv => LiveIsReachable
  BY DEF SessionInv
<1> QED BY <1>1, Inductive, PTL

------------------------------------------------------------------------------
(* The Redis store implements the book. *)

LEMMA BookStep ==
  ASSUME SessionInv, [Next]_vars
  PROVE  [Book!BookNext]_(Book!bookVars)
<1> USE DEF store, past, Book!bookVars
<1>1. ASSUME NEW s \in Sids, NEW t \in Tokens, Login(s, t) PROVE Book!BookNext
  BY <1>1 DEF Login, Book!BookNext, Book!Open
<1>2. ASSUME NEW c \in Calls, NEW t \in Tokens, Exec(c, t) PROVE Book!BookNext
  <2> DEFINE s == call[c].sid
  <2>1. s \in Sids /\ call[c].old # None /\ session[s] = call[c].old
    BY <1>2 DEF SessionInv, TypeOK, CallInv, Exec
  <2>2. next[session[s]] = None
    BY <2>1 DEF SessionInv, LiveInv
  <2>3. Book!Exchange(s, t)
    BY <1>2, <2>1, <2>2 DEF Exec, Book!Exchange
  <2> QED BY <2>1, <2>3 DEF Book!BookNext
<1>3. ASSUME NEW c \in Calls, Delete(c) PROVE Book!BookNext \/ UNCHANGED Book!bookVars
  <2> DEFINE s == call[c].sid
  <2>1. s \in Sids
    BY <1>3 DEF SessionInv, TypeOK, Delete
  <2>2. session' = [session EXCEPT ![s] = None] /\ UNCHANGED <<next, opened, issued>>
    BY <1>3 DEF Delete
  <2>3. CASE session[s] = None
    BY <2>1, <2>2, <2>3 DEF SessionInv, TypeOK
  <2>4. CASE session[s] # None
    BY <2>1, <2>2, <2>4 DEF Book!BookNext, Book!End
  <2> QED BY <2>3, <2>4
<1>4. ASSUME NEW s \in Sids, SessionExpires(s) PROVE Book!BookNext
  BY <1>4 DEF SessionExpires, Book!BookNext, Book!End
<1>5. ASSUME NEW c \in Calls,
             \/ \E t \in Tokens : Refresh(c, t)
             \/ \E s \in Sids : Logout(c, s)
             \/ ReadIndex(c) \/ ReadSession(c) \/ Watch(c) \/ ExecFails(c)
             \/ DeleteRead(c) \/ CallFails(c)
      PROVE UNCHANGED Book!bookVars
  BY <1>5 DEF Refresh, Logout, ReadIndex, ReadSession, Watch, ExecFails, DeleteRead, CallFails
<1>6. ASSUME NEW t \in Tokens, TokenExpires(t) PROVE UNCHANGED Book!bookVars
  BY <1>6 DEF TokenExpires
<1>7. CASE UNCHANGED vars
  BY <1>7 DEF vars
<1> QED BY <1>1, <1>2, <1>3, <1>4, <1>5, <1>6, <1>7 DEF Next

(* Each step of the Redis store is a step of the in-memory store under its mutex, or none:
   in particular a token is exchanged at most once (Rotate's WATCH). *)
THEOREM StoreActsAsBook == Spec => ActsAsBook
<1>1. Init => Book!BookInit
  BY DEF Init, Book!BookInit
<1>2. SessionInv /\ [Next]_vars => [Book!BookNext]_(Book!bookVars)
  BY BookStep
<1> QED BY <1>1, <1>2, Inductive, PTL DEF Spec, ActsAsBook, Book!BookSpec

------------------------------------------------------------------------------
(* The cache.  That old entries are explained is inductive once the types are known. *)

Views == {None} \cup Shop!SkuRow \cup Shop!ProductView

ShopInv ==
  /\ cache \in [Shop!Keys -> Views]
  /\ read \in [ShopReaders -> [pc : {"idle", "lookup", "row", "skus", "store"}, key : Shop!Keys,
                               row : ShopWriters \cup {None}, got : Views]]
  /\ Shop!TypeOK /\ Shop!StaleExplained

LEMMA ShopConstants ==
  /\ FirstSkus \subseteq ShopSkus /\ ShopReadKeys \subseteq Shop!Keys
  /\ None \notin ShopWriters
  /\ \A w \in ShopWriters : ShopFresh[w] \subseteq ShopSkus
BY ShopAssumption DEF Shop!CatalogAssumption

\* What a SKU row, and a key's entry, may be.
LEMMA Rows ==
  /\ Shop!NoSku \in Shop!SkuRow
  /\ \A w \in ShopWriters \cup {None}, st \in {"on", "off"} :
       [status |-> st, by |-> w] \in Shop!SkuRow \ {Shop!NoSku}
  /\ \A x \in Shop!SkuRow \ {Shop!NoSku} :
       /\ x \in [status : {"on", "off"}, by : ShopWriters \cup {None}]
       /\ [x EXCEPT !.status = "off"] \in Shop!SkuRow \ {Shop!NoSku}
BY DEF Shop!SkuRow, Shop!NoSku

\* The record of a writer.
Writer == [pc : {"new", "commit", "detail", "skus", "lists", "ended"},
           keep : SUBSET ShopSkus, found : SUBSET ShopSkus]

LEMMA WriterShape ==
  ASSUME Shop!TypeOK, NEW w \in ShopWriters
  PROVE  /\ write[w] = [pc |-> write[w].pc, keep |-> write[w].keep, found |-> write[w].found]
         /\ Shop!Wanted(w) \subseteq ShopSkus /\ Shop!Removed(w) \subseteq ShopSkus
         /\ Shop!KeysAt(w) \subseteq Shop!Keys
<1>1. write[w] \in Writer
  BY DEF Shop!TypeOK, Writer
<1> QED
  BY <1>1, ShopConstants DEF Writer, Shop!Wanted, Shop!Removed, Shop!KeysAt, Shop!Keys

(* The step of a writer to `pc`, which changes nothing else of it. *)
LEMMA WriterGoesOn ==
  ASSUME Shop!TypeOK, NEW w \in ShopWriters,
         NEW pc \in {"new", "commit", "detail", "skus", "lists", "ended"},
         write' = [write EXCEPT ![w].pc = pc]
  PROVE  /\ write' \in [ShopWriters -> Writer]
         /\ write'[w].pc = pc /\ Shop!Wanted(w)' = Shop!Wanted(w)
         /\ \A v \in ShopWriters, k \in Shop!Keys : v # w => (Shop!ToDrop(v, k)' <=> Shop!ToDrop(v, k))
<1>1. write \in [ShopWriters -> Writer] /\ write[w] \in Writer
  BY DEF Shop!TypeOK, Writer
<1>2. write' = [write EXCEPT ![w] = [write[w] EXCEPT !.pc = pc]]
  OBVIOUS
<1>3. [write[w] EXCEPT !.pc = pc] = [pc |-> pc, keep |-> write[w].keep, found |-> write[w].found]
  BY <1>1 DEF Writer
<1>4. [write[w] EXCEPT !.pc = pc] \in Writer
  BY <1>1, <1>3 DEF Writer
<1>5. write' \in [ShopWriters -> Writer] /\ write'[w] = [write[w] EXCEPT !.pc = pc]
      /\ \A v \in ShopWriters : v # w => write'[v] = write[v]
  BY <1>1, <1>2, <1>4
<1>6. write'[w].pc = pc /\ write'[w].keep = write[w].keep
  BY <1>3, <1>5
<1> QED
  BY <1>5, <1>6 DEF Shop!Wanted, Shop!ToDrop

\* The record of a reader.
Reader == [pc : {"idle", "lookup", "row", "skus", "store"}, key : Shop!Keys,
           row : ShopWriters \cup {None}, got : Views]

LEMMA ReaderMoves ==
  ASSUME ShopInv, NEW r \in ShopReaders, NEW x \in Reader,
         x.got = None \/ x.got \in Shop!Entry(x.key),
         read' = [read EXCEPT ![r] = x]
  PROVE  /\ read' \in [ShopReaders -> Reader]
         /\ \A q \in ShopReaders :
              /\ read'[q].pc \in {"idle", "lookup", "row", "skus", "store"}
              /\ read'[q].key \in Shop!Keys /\ read'[q].row \in ShopWriters \cup {None}
              /\ read'[q].got = None \/ read'[q].got \in Shop!Entry(read'[q].key)
<1>1. read' \in [ShopReaders -> Reader] /\ read'[r] = x
      /\ \A q \in ShopReaders : q # r => read'[q] = read[q]
  BY DEF ShopInv, Reader
<1> QED
  BY <1>1 DEF ShopInv, Shop!TypeOK, Reader

\* A reader that has loaded something.
LEMMA ReaderLoads ==
  ASSUME NEW x \in Reader, NEW pc \in {"idle", "lookup", "row", "skus", "store"},
         NEW w \in ShopWriters \cup {None}, NEW got \in Views
  PROVE  /\ [x EXCEPT !.pc = pc, !.row = w] \in Reader
         /\ [x EXCEPT !.pc = pc, !.row = w].key = x.key
         /\ [x EXCEPT !.pc = pc, !.row = w].got = x.got
         /\ [x EXCEPT !.pc = pc, !.row = w, !.got = got] \in Reader
         /\ [x EXCEPT !.pc = pc, !.row = w, !.got = got].key = x.key
         /\ [x EXCEPT !.pc = pc, !.row = w, !.got = got].got = got
BY DEF Reader

(* A reader leaves the database and the writers alone. *)
LEMMA ReadKeeps ==
  ASSUME ShopInv, NEW r \in ShopReaders,
         Shop!ReadStep(r) \/ \E k \in ShopReadKeys : Shop!StartRead(r, k)
  PROVE  ShopInv'
<1> DEFINE me == read[r]
           k == me.key
           Fits(x) == x \in Reader /\ (x.got = None \/ x.got \in Shop!Entry(x.key))
<1>1. /\ me \in Reader /\ Fits(me) /\ k \in Shop!Keys
      /\ me = [pc |-> me.pc, key |-> k, row |-> me.row, got |-> me.got]
  BY DEF ShopInv, Reader, Shop!TypeOK
<1>2. \A pc \in {"idle", "lookup", "row", "skus", "store"}, w \in ShopWriters \cup {None},
         key \in Shop!Keys, got \in Views :
        got = None \/ got \in Shop!Entry(key) =>
          Fits([pc |-> pc, key |-> key, row |-> w, got |-> got])
  BY DEF Reader
<1>3. Fits(Shop!NotReading)
  BY <1>2 DEF Shop!NotReading, Shop!Keys, Views
<1>4. ASSUME NEW x, Fits(x), read' = [read EXCEPT ![r] = x],
             UNCHANGED <<row, sku, cache, write, cause>>
      PROVE  ShopInv'
  <2>1. /\ read' \in [ShopReaders -> Reader]
        /\ \A q \in ShopReaders :
             /\ read'[q].pc \in {"idle", "lookup", "row", "skus", "store"}
             /\ read'[q].key \in Shop!Keys /\ read'[q].row \in ShopWriters \cup {None}
             /\ read'[q].got = None \/ read'[q].got \in Shop!Entry(read'[q].key)
    BY <1>4, ReaderMoves
  <2> QED
    BY <1>4, <2>1, SMTT(30)
       DEF ShopInv, Reader, Shop!TypeOK, Shop!StaleExplained, Shop!View, Shop!ToDrop, Shop!Wanted
<1>5. CASE \E key \in ShopReadKeys : Shop!StartRead(r, key)
  <2>1. PICK key \in ShopReadKeys : Shop!StartRead(r, key)
    BY <1>5
  <2>2. Fits([pc |-> "lookup", key |-> key, row |-> None, got |-> None])
    BY <1>2, ShopConstants DEF Views
  <2> QED
    BY <1>4, <2>1, <2>2 DEF Shop!StartRead
<1>6. \A pc \in {"idle", "lookup", "row", "skus", "store"} :
        [me EXCEPT !.pc = pc] = [pc |-> pc, key |-> k, row |-> me.row, got |-> me.got]
        /\ Fits([me EXCEPT !.pc = pc])
  BY <1>1, <1>2 DEF Reader
<1>7. CASE Shop!Lookup(r)
  <2>1. \/ read' = [read EXCEPT ![r] = Shop!NotReading]
        \/ \E pc \in {"skus", "row"} : read' = [read EXCEPT ![r] = [me EXCEPT !.pc = pc]]
    BY <1>7 DEF Shop!Lookup
  <2>2. UNCHANGED <<row, sku, cache, write, cause>>
    BY <1>7 DEF Shop!Lookup
  <2> QED
    BY <1>3, <1>4, <1>6, <2>1, <2>2
<1>8. CASE Shop!LoadRow(r)
  <2>1. read' = [read EXCEPT ![r] = [me EXCEPT !.pc = "skus", !.row = row]]
    BY <1>8 DEF Shop!LoadRow
  <2>2. row \in ShopWriters \cup {None} /\ None \in Views
    BY DEF ShopInv, Shop!TypeOK, Views
  <2>3. Fits([me EXCEPT !.pc = "skus", !.row = row])
    <3> HIDE DEF me
    <3> QED
      BY <1>1, <2>2, ReaderLoads
  <2> QED
    BY <1>4, <1>8, <2>1, <2>3 DEF Shop!LoadRow
<1>9. CASE Shop!LoadSkus(r)
  <2> DEFINE seen == IF k \in ShopSkus THEN sku[k] ELSE [row |-> me.row, skus |-> sku]
             loaded == [me EXCEPT !.pc = "store", !.row = None, !.got = seen]
  <2>1. read' = [read EXCEPT ![r] = IF seen = Shop!NoSku THEN Shop!NotReading ELSE loaded]
    BY <1>9 DEF Shop!LoadSkus
  <2>2. seen = Shop!NoSku \/ seen \in Shop!Entry(k)
    BY <1>1 DEF ShopInv, Shop!TypeOK, Shop!Entry, Shop!ProductView, Reader
  <2>3. seen # Shop!NoSku => seen \in Views
    BY <2>2 DEF Shop!Entry, Views
  <2>4. seen # Shop!NoSku => Fits(loaded)
    <3> HIDE DEF me, seen
    <3> QED
      BY <1>1, <2>2, <2>3, ReaderLoads
  <2> HIDE DEF Fits, seen, loaded
  <2> QED
    BY <1>3, <1>4, <1>9, <2>1, <2>4 DEF Shop!LoadSkus
<1>10. CASE Shop!Store(r)
  <2>1. CASE UNCHANGED <<cache, cause>>
    BY <1>3, <1>4, <1>10, <2>1 DEF Shop!Store
  <2>2. CASE /\ cache' = [cache EXCEPT ![k] = me.got]
             /\ cause' = [cause EXCEPT ![k] = IF me.got = Shop!View(k) THEN {} ELSE {"late"}]
    <3>1. /\ read' \in [ShopReaders -> Reader]
          /\ \A q \in ShopReaders :
               /\ read'[q].pc \in {"idle", "lookup", "row", "skus", "store"}
               /\ read'[q].key \in Shop!Keys /\ read'[q].row \in ShopWriters \cup {None}
               /\ read'[q].got = None \/ read'[q].got \in Shop!Entry(read'[q].key)
      BY <1>3, <1>10, ReaderMoves DEF Shop!Store
    <3>2. UNCHANGED <<row, sku, write>>
      BY <1>10 DEF Shop!Store
    <3>3. /\ cache' \in [Shop!Keys -> Views] /\ cache'[k] = me.got
          /\ \A key \in Shop!Keys : key # k => cache'[key] = cache[key]
      BY <1>1, <2>2 DEF ShopInv, Reader
    <3>4. /\ cause' \in [Shop!Keys -> SUBSET {"late", "failed", "removed"}]
          /\ cause'[k] = IF me.got = Shop!View(k) THEN {} ELSE {"late"}
          /\ \A key \in Shop!Keys : key # k => cause'[key] = cause[key]
      BY <1>1, <2>2 DEF ShopInv, Shop!TypeOK
    <3>5. Shop!TypeOK'
      BY <1>1, <3>1, <3>2, <3>3, <3>4 DEF ShopInv, Shop!TypeOK
    <3>6. \A key \in Shop!Keys : Shop!View(key)' = Shop!View(key)
      BY <3>2 DEF Shop!View
    <3>7. \A w \in ShopWriters, key \in Shop!Keys : Shop!ToDrop(w, key)' <=> Shop!ToDrop(w, key)
      BY <3>2 DEF Shop!ToDrop, Shop!Wanted
    <3>8. Shop!StaleExplained'
      BY <1>1, <3>3, <3>4, <3>6, <3>7 DEF ShopInv, Shop!StaleExplained
    <3> QED
      BY <3>1, <3>3, <3>5, <3>8 DEF ShopInv, Reader
  <2> QED
    BY <1>10, <2>1, <2>2 DEF Shop!Store
<1> QED
  BY <1>5, <1>7, <1>8, <1>9, <1>10 DEF Shop!ReadStep

\* The reason an entry may be old is still there.
CauseKept(k) ==
  /\ cause'[k] = cause[k]
  /\ \A w \in ShopWriters : Shop!ToDrop(w, k) => Shop!ToDrop(w, k)'

(* What the database says does not change, and each entry is dropped or keeps its cause. *)
LEMMA EntriesKeep ==
  ASSUME ShopInv, UNCHANGED <<row, sku, read>>,
         write' \in [ShopWriters -> Writer],
         cache' \in [Shop!Keys -> Views],
         cause' \in [Shop!Keys -> SUBSET {"late", "failed", "removed"}],
         \A k \in Shop!Keys :
           cache'[k] # None => cache'[k] = cache[k] /\ (cause'[k] # {} \/ CauseKept(k))
  PROVE  ShopInv'
<1>1. \A k \in Shop!Keys : Shop!View(k)' = Shop!View(k)
  BY DEF Shop!View
<1>2. Shop!TypeOK'
  BY DEF ShopInv, Shop!TypeOK, Writer
<1>3. Shop!StaleExplained'
  BY <1>1 DEF ShopInv, Shop!StaleExplained, CauseKept
<1> QED
  BY <1>2, <1>3 DEF ShopInv

(* A commit: the entries of what the update wrote are about to be dropped, those of the
   SKUs it took out have their cause, and the others still show their row. *)
LEMMA CommitKeeps ==
  ASSUME ShopInv, NEW w \in ShopWriters, Shop!CommitUpdate(w)
  PROVE  ShopInv'
<1>1. write[w].pc = "commit" /\ UNCHANGED <<cache, read>>
  BY DEF Shop!CommitUpdate
<1>2. CASE write' = [write EXCEPT ![w].pc = "ended"] /\ UNCHANGED <<row, sku, cause>>
  <2>1. /\ write' \in [ShopWriters -> Writer]
        /\ \A v \in ShopWriters, k \in Shop!Keys :
             v # w => (Shop!ToDrop(v, k)' <=> Shop!ToDrop(v, k))
    BY <1>2, WriterGoesOn DEF ShopInv
  <2>2. \A k \in Shop!Keys : ~ Shop!ToDrop(w, k)
    BY <1>1 DEF Shop!ToDrop
  <2>3. \A k \in Shop!Keys : CauseKept(k)
    BY <1>2, <2>1, <2>2 DEF CauseKept
  <2> QED
    BY <1>1, <1>2, <2>1, <2>3, EntriesKeep DEF ShopInv, Shop!TypeOK
<1>3. CASE /\ row' = w
           /\ sku' = [s \in ShopSkus |->
                CASE s \in Shop!Wanted(w) -> [status |-> Shop!StatusOf(w, s), by |-> w]
                  [] s \in Shop!Removed(w) -> [sku[s] EXCEPT !.status = "off"]
                  [] OTHER -> sku[s]]
           /\ cause' = [k \in Shop!Keys |->
                IF k \in Shop!Removed(w) /\ cache[k] # None THEN cause[k] \cup {"removed"}
                ELSE cause[k]]
           /\ write' = [write EXCEPT ![w].pc = "detail"]
  <2>1. /\ write' \in [ShopWriters -> Writer]
        /\ write'[w].pc = "detail" /\ Shop!Wanted(w)' = Shop!Wanted(w)
        /\ \A v \in ShopWriters, k \in Shop!Keys :
             v # w => (Shop!ToDrop(v, k)' <=> Shop!ToDrop(v, k))
    BY <1>3, WriterGoesOn DEF ShopInv
  <2>2. \A s \in ShopSkus : sku'[s] \in Shop!SkuRow
    <3> SUFFICES ASSUME NEW s \in ShopSkus PROVE sku'[s] \in Shop!SkuRow
      OBVIOUS
    <3>1. sku[s] \in Shop!SkuRow
      BY DEF ShopInv, Shop!TypeOK
    <3>2. [status |-> Shop!StatusOf(w, s), by |-> w] \in Shop!SkuRow
      BY DEF Shop!SkuRow, Shop!StatusOf
    <3>3. [sku[s] EXCEPT !.status = "off"] \in Shop!SkuRow
      BY <3>1 DEF Shop!SkuRow, Shop!NoSku
    <3> QED
      BY <1>3, <3>1, <3>2, <3>3
  <2>3. sku' \in [ShopSkus -> Shop!SkuRow]
    BY <1>3, <2>2
  <2>4. cause' \in [Shop!Keys -> SUBSET {"late", "failed", "removed"}]
    BY <1>3 DEF ShopInv, Shop!TypeOK
  <2>5. Shop!TypeOK'
    BY <1>1, <1>3, <2>1, <2>3, <2>4 DEF ShopInv, Shop!TypeOK, Writer
  <2>6. ASSUME NEW k \in Shop!Keys, cache'[k] \notin {None, Shop!View(k)'}
        PROVE  cause'[k] # {} \/ \E v \in ShopWriters : Shop!ToDrop(v, k)'
    <3>1. CASE k \in {"detail", "list"} \/ k \in Shop!Wanted(w)
      BY <2>1, <3>1 DEF Shop!ToDrop
    <3>2. CASE k \in Shop!Removed(w)
      BY <1>1, <1>3, <2>6, <3>2
    <3>3. CASE k \in ShopSkus /\ k \notin Shop!Wanted(w) /\ k \notin Shop!Removed(w)
      <4>1. sku'[k] = sku[k] /\ cause'[k] = cause[k]
        BY <1>3, <3>3
      <4>2. cause[k] # {} \/ \E v \in ShopWriters : Shop!ToDrop(v, k)
        BY <1>1, <2>6, <3>3, <4>1 DEF ShopInv, Shop!StaleExplained, Shop!View
      <4>3. ~ Shop!ToDrop(w, k)
        BY <1>1 DEF Shop!ToDrop
      <4> QED
        BY <2>1, <4>1, <4>2, <4>3
    <3> QED
      BY <3>1, <3>2, <3>3 DEF Shop!Keys
  <2> QED
    BY <1>1, <2>5, <2>6 DEF ShopInv, Shop!StaleExplained
<1> QED
  BY <1>2, <1>3 DEF Shop!CommitUpdate

\* A change of the product's row: what shows it is about to be dropped.
LEMMA ChangeKeeps ==
  ASSUME ShopInv, NEW w \in ShopWriters, Shop!ChangeStatus(w)
  PROVE  ShopInv'
<1>1. /\ write[w].pc = "new" /\ row' = w /\ write' = [write EXCEPT ![w].pc = "detail"]
      /\ UNCHANGED <<sku, cache, read, cause>>
  BY DEF Shop!ChangeStatus
<1>2. /\ write' \in [ShopWriters -> Writer]
      /\ write'[w].pc = "detail"
      /\ \A v \in ShopWriters, k \in Shop!Keys :
           v # w => (Shop!ToDrop(v, k)' <=> Shop!ToDrop(v, k))
  BY <1>1, WriterGoesOn DEF ShopInv
<1>3. Shop!TypeOK'
  BY <1>1, <1>2 DEF ShopInv, Shop!TypeOK
<1>4. ASSUME NEW k \in Shop!Keys, cache'[k] \notin {None, Shop!View(k)'}
      PROVE  cause'[k] # {} \/ \E v \in ShopWriters : Shop!ToDrop(v, k)'
  <2>1. CASE k \in {"detail", "list"}
    BY <1>2, <2>1 DEF Shop!ToDrop
  <2>2. CASE k \in ShopSkus
    <3>1. cause[k] # {} \/ \E v \in ShopWriters : Shop!ToDrop(v, k)
      BY <1>1, <1>4, <2>2 DEF ShopInv, Shop!StaleExplained, Shop!View
    <3>2. ~ Shop!ToDrop(w, k)
      BY <1>1 DEF Shop!ToDrop
    <3> QED
      BY <1>1, <1>2, <3>1, <3>2
  <2> QED
    BY <2>1, <2>2 DEF Shop!Keys
<1> QED
  BY <1>1, <1>3, <1>4 DEF ShopInv, Shop!StaleExplained

LEMMA BeginKeeps ==
  ASSUME ShopInv, NEW w \in ShopWriters, NEW keep \in SUBSET ShopSkus, Shop!BeginUpdate(w, keep)
  PROVE  ShopInv'
<1> DEFINE x == [pc |-> "commit", keep |-> keep,
                 found |-> {s \in ShopSkus : sku[s].status # "none"}]
<1>1. /\ write[w].pc = "new" /\ write' = [write EXCEPT ![w] = x]
      /\ UNCHANGED <<row, sku, cache, read, cause>>
  BY DEF Shop!BeginUpdate
<1>2. x \in Writer
  BY DEF Writer
<1>3. /\ write' \in [ShopWriters -> Writer]
      /\ \A v \in ShopWriters : v # w => write'[v] = write[v]
  <2> HIDE DEF x
  <2> QED
    BY <1>1, <1>2 DEF ShopInv, Shop!TypeOK, Writer
<1>4. \A k \in Shop!Keys : CauseKept(k)
  BY <1>1, <1>3 DEF Shop!ToDrop, Shop!Wanted, CauseKept
<1> QED
  BY <1>1, <1>3, <1>4, EntriesKeep DEF ShopInv, Shop!TypeOK

(* A delete: the keys it is about are gone or have their cause, and the rest is still to
   be deleted. *)
LEMMA DropKeeps ==
  ASSUME ShopInv, NEW w \in ShopWriters, Shop!Drop(w)
  PROVE  ShopInv'
<1>1. /\ write[w].pc \in {"detail", "skus", "lists"} /\ UNCHANGED <<row, sku, read>>
      /\ write' = [write EXCEPT ![w].pc = Shop!After(write[w].pc)]
  BY DEF Shop!Drop
<1>2. Shop!After("detail") = "skus" /\ Shop!After("skus") = "lists" /\ Shop!After("lists") = "ended"
  BY DEF Shop!After
<1>3. /\ write' \in [ShopWriters -> Writer]
      /\ write'[w].pc = Shop!After(write[w].pc) /\ Shop!Wanted(w)' = Shop!Wanted(w)
      /\ \A v \in ShopWriters, k \in Shop!Keys :
           v # w => (Shop!ToDrop(v, k)' <=> Shop!ToDrop(v, k))
  <2> DEFINE pc == Shop!After(write[w].pc)
  <2>1. pc \in {"new", "commit", "detail", "skus", "lists", "ended"}
    BY <1>1, <1>2
  <2>2. write' = [write EXCEPT ![w].pc = pc]
    BY <1>1
  <2> HIDE DEF pc
  <2>3. /\ write' \in [ShopWriters -> Writer]
        /\ write'[w].pc = pc /\ Shop!Wanted(w)' = Shop!Wanted(w)
        /\ \A v \in ShopWriters, k \in Shop!Keys :
             v # w => (Shop!ToDrop(v, k)' <=> Shop!ToDrop(v, k))
    BY <2>1, <2>2, WriterGoesOn DEF ShopInv
  <2> QED
    BY <2>3 DEF pc
<1>4. \A k \in Shop!Keys : k \notin Shop!KeysAt(w) /\ Shop!ToDrop(w, k) => Shop!ToDrop(w, k)'
  BY <1>1, <1>2, <1>3 DEF Shop!KeysAt, Shop!ToDrop
<1>5. \A k \in Shop!Keys : k \notin Shop!KeysAt(w) /\ cause'[k] = cause[k] => CauseKept(k)
  BY <1>3, <1>4 DEF CauseKept
<1>6. CASE /\ cache' = [k \in Shop!Keys |-> IF k \in Shop!KeysAt(w) THEN None ELSE cache[k]]
           /\ cause' = [k \in Shop!Keys |-> IF k \in Shop!KeysAt(w) THEN {} ELSE cause[k]]
  <2>1. \A k \in Shop!Keys :
          /\ cache'[k] = IF k \in Shop!KeysAt(w) THEN None ELSE cache[k]
          /\ cause'[k] = IF k \in Shop!KeysAt(w) THEN {} ELSE cause[k]
    BY <1>6
  <2>2. /\ cache' \in [Shop!Keys -> Views]
        /\ cause' \in [Shop!Keys -> SUBSET {"late", "failed", "removed"}]
    BY <1>6 DEF ShopInv, Shop!TypeOK, Views
  <2>3. \A k \in Shop!Keys : cache'[k] # None => cache'[k] = cache[k] /\ CauseKept(k)
    BY <1>5, <2>1
  <2> QED
    BY <1>1, <1>3, <2>2, <2>3, EntriesKeep
<1>7. CASE /\ cause' = [k \in Shop!Keys |->
                IF k \in Shop!KeysAt(w) THEN cause[k] \cup {"failed"} ELSE cause[k]]
           /\ UNCHANGED cache
  <2>1. \A k \in Shop!Keys :
          cause'[k] = IF k \in Shop!KeysAt(w) THEN cause[k] \cup {"failed"} ELSE cause[k]
    BY <1>7
  <2>2. /\ cache' \in [Shop!Keys -> Views]
        /\ cause' \in [Shop!Keys -> SUBSET {"late", "failed", "removed"}]
    BY <1>7 DEF ShopInv, Shop!TypeOK
  <2>3. \A k \in Shop!Keys : cache'[k] = cache[k] /\ (cause'[k] # {} \/ CauseKept(k))
    BY <1>5, <1>7, <2>1
  <2> QED
    BY <1>1, <1>3, <2>2, <2>3, EntriesKeep
<1> QED
  BY <1>6, <1>7 DEF Shop!Drop

LEMMA CrashKeeps ==
  ASSUME ShopInv, NEW w \in ShopWriters, Shop!WriterCrash(w)
  PROVE  ShopInv'
<1>1. /\ write' = [write EXCEPT ![w].pc = "ended"] /\ UNCHANGED <<row, sku, cache, read>>
      /\ cause' = [k \in Shop!Keys |->
           IF Shop!ToDrop(w, k) THEN cause[k] \cup {"failed"} ELSE cause[k]]
  BY DEF Shop!WriterCrash
<1>2. /\ write' \in [ShopWriters -> Writer]
      /\ \A v \in ShopWriters, k \in Shop!Keys :
           v # w => (Shop!ToDrop(v, k)' <=> Shop!ToDrop(v, k))
  BY <1>1, WriterGoesOn DEF ShopInv
<1>3. cause' \in [Shop!Keys -> SUBSET {"late", "failed", "removed"}]
  BY <1>1 DEF ShopInv, Shop!TypeOK
<1>4. \A k \in Shop!Keys : cache'[k] = cache[k] /\ (cause'[k] # {} \/ CauseKept(k))
  <2>1. \A k \in Shop!Keys : Shop!ToDrop(w, k) => cause'[k] # {}
    BY <1>1
  <2>2. \A k \in Shop!Keys : ~ Shop!ToDrop(w, k) => cause'[k] = cause[k]
    BY <1>1
  <2> QED
    BY <1>1, <1>2, <2>1, <2>2 DEF CauseKept
<1> QED
  BY <1>1, <1>2, <1>3, <1>4, EntriesKeep DEF ShopInv

LEMMA ExpireKeeps ==
  ASSUME ShopInv, NEW k \in Shop!Keys, Shop!Expire(k)
  PROVE  ShopInv'
<1>1. /\ cache' = [cache EXCEPT ![k] = None] /\ cause' = [cause EXCEPT ![k] = {}]
      /\ UNCHANGED <<row, sku, read, write>>
  BY DEF Shop!Expire
<1>2. /\ cache' \in [Shop!Keys -> Views] /\ cache'[k] = None
      /\ cause' \in [Shop!Keys -> SUBSET {"late", "failed", "removed"}]
      /\ \A key \in Shop!Keys : key # k => cache'[key] = cache[key] /\ cause'[key] = cause[key]
  BY <1>1 DEF ShopInv, Shop!TypeOK, Views
<1>3. \A key \in Shop!Keys :
        cache'[key] # None => cache'[key] = cache[key] /\ CauseKept(key)
  BY <1>1, <1>2 DEF Shop!ToDrop, Shop!Wanted, CauseKept
<1>4. write' \in [ShopWriters -> Writer]
  BY <1>1 DEF ShopInv, Shop!TypeOK, Writer
<1> QED
  BY <1>1, <1>2, <1>3, <1>4, EntriesKeep

LEMMA ShopStep ==
  ASSUME ShopInv, [Shop!Next]_shopVars
  PROVE  ShopInv'
<1>1. CASE UNCHANGED shopVars
  BY <1>1 DEF shopVars, ShopInv, Shop!TypeOK, Shop!StaleExplained, Shop!View, Shop!ToDrop,
              Shop!Wanted
<1>2. CASE Shop!Next
  BY <1>2, ReadKeeps, CommitKeeps, ChangeKeeps, BeginKeeps, DropKeeps, CrashKeeps, ExpireKeeps
     DEF Shop!Next, Shop!WriteStep
<1> QED
  BY <1>1, <1>2

LEMMA ShopStart == Shop!Init => ShopInv
<1> SUFFICES ASSUME Shop!Init PROVE ShopInv
  OBVIOUS
<1>1. cache \in [Shop!Keys -> Views] /\ \A k \in Shop!Keys : cache[k] = None
  BY DEF Shop!Init, Views
<1>2. /\ read \in [ShopReaders -> Reader]
      /\ \A r \in ShopReaders : read[r] = Shop!NotReading
  BY DEF Shop!Init, Shop!NotReading, Reader, Views, Shop!Keys
<1>3. sku \in [ShopSkus -> Shop!SkuRow]
  BY DEF Shop!Init, Shop!SkuRow, Shop!NoSku
<1>4. write \in [ShopWriters -> Writer]
  BY DEF Shop!Init, Writer
<1>5. Shop!TypeOK
  BY <1>1, <1>2, <1>3, <1>4 DEF Shop!Init, Shop!TypeOK, Shop!NotReading, Shop!Keys, Writer
<1> QED
  BY <1>1, <1>2, <1>5 DEF ShopInv, Reader, Shop!StaleExplained

(* StaleExplained: whatever readers and writers overlap and fail, an old cache entry is about
   to be deleted, its delete failed, it was stored late, or it is of a SKU taken out. *)
THEOREM StaleIsExplained == GatewaySpec => []StaleExplained
<1> DEFINE Inv == part = "catalog" => ShopInv
<1>1. GatewayInit => Inv
  BY ShopStart DEF GatewayInit
<1>2. Inv /\ [GatewayNext]_gatewayVars => Inv'
  <2> SUFFICES ASSUME Inv, [GatewayNext]_gatewayVars, part' = "catalog" PROVE ShopInv'
    OBVIOUS
  <2>1. part = "catalog" /\ [Shop!Next]_shopVars
    BY DEF GatewayNext, gatewayVars, shopVars
  <2> QED
    BY <2>1, ShopStep
<1>3. Inv => StaleExplained
  BY DEF ShopInv, StaleExplained
<1> QED
  BY <1>1, <1>2, <1>3, PTL DEF GatewaySpec

------------------------------------------------------------------------------
(* The rate limiter.  What was let in since the start of the window, and what is left in the
   bucket, was paid for by a full bucket and the time since; a key is forgotten only when
   the bucket would be full again, and not while a request holds it. *)

\* What the code's default satisfies: ten minutes, and a bucket is full again after seconds.
EntriesOutlast ==
  EntryTTL > 0 /\ CleanupInterval > 0 => Burst * Cost + 2 * MaxLag <= EntryTTL + 1

Spent(k) == admitted[k] * Cost
HasEntry(k) == entry[k].limiter # 0
BucketOf(k) == bucket[entry[k].limiter]

\* A request is not older than MaxLag, and the bucket it got is that of its key.
CallsAreFresh ==
  \A w \in Goroutines :
    LET k == limited[w].key  now == limited[w].now IN
    /\ limited[w].pc # "idle" => k \in LimitKeys /\ now <= clock /\ clock <= now + MaxLag
    /\ limited[w].pc # "entered" => limited[w].limiter = 0
    /\ limited[w].pc = "entered" =>
         /\ limited[w].limiter = entry[k].limiter /\ HasEntry(k)
         /\ now <= entry[k].lastSeen + MaxLag /\ entry[k].lastSeen <= now + MaxLag

EntriesDiffer ==
  \A k \in LimitKeys :
    /\ ~ HasEntry(k) => entry[k] = Limiter!NoEntry
    /\ HasEntry(k) => \A l \in LimitKeys : entry[k].limiter = entry[l].limiter => k = l

\* Bucket b of key k, which was last seen at `seen`.
Fits(b, k, seen) ==
  /\ b.lastRefill <= clock /\ b.lastRefill <= seen + MaxLag
  /\ b.tokens >= Cost \/ b.lastRefill - b.tokens <= lastIn[k]
  /\ Spent(k) > 0 => /\ b.lastRefill >= since
                     /\ Spent(k) + b.tokens <= Burst * Cost + b.lastRefill - since

BucketsFit ==
  \A k \in LimitKeys :
    /\ entry[k].lastSeen <= clock
    /\ HasEntry(k) => Fits(BucketOf(k), k, entry[k].lastSeen)
    /\ ~ HasEntry(k) /\ Spent(k) > 0 => Spent(k) <= clock - MaxLag - since

LimitInv == Limiter!TypeOK /\ CallsAreFresh /\ EntriesDiffer /\ BucketsFit

LEMMA LimiterConstants ==
  /\ Cost \in Nat \ {0} /\ Burst \in Nat \ {0}
  /\ Burst * Cost \in Nat /\ Cost <= Burst * Cost
  /\ EntryTTL \in Nat /\ CleanupInterval \in Nat /\ MaxClock \in Nat /\ MaxLag \in Nat
  /\ None \notin LimitKeys /\ IsFiniteSet(LimitKeys) /\ IsFiniteSet(Goroutines)
<1>1. Limiter!IsFiniteSet(LimitKeys) = IsFiniteSet(LimitKeys)
      /\ Limiter!IsFiniteSet(Goroutines) = IsFiniteSet(Goroutines)
  BY DEF Limiter!IsFiniteSet, IsFiniteSet
<1>2. /\ Cost \in Nat \ {0} /\ Burst \in Nat \ {0}
      /\ EntryTTL \in Nat /\ CleanupInterval \in Nat /\ MaxClock \in Nat /\ MaxLag \in Nat
      /\ None \notin LimitKeys /\ IsFiniteSet(LimitKeys) /\ IsFiniteSet(Goroutines)
  BY <1>1, LimiterAssumption DEF Limiter!RuleAssumption
<1>3. Burst * Cost = (Burst - 1) * Cost + Cost
  BY <1>2
<1>4. (Burst - 1) * Cost \in Nat
  BY <1>2
<1> QED
  BY <1>2, <1>3, <1>4

LEMMA SpentCounts ==
  ASSUME Limiter!TypeOK, NEW k \in LimitKeys
  PROVE  /\ Spent(k) \in Nat
         /\ admitted'[k] = admitted[k] + 1 => Spent(k)' = Spent(k) + Cost
         /\ admitted'[k] = admitted[k] => Spent(k)' = Spent(k)
<1>1. admitted[k] \in Nat /\ Cost \in Nat
  BY LimiterConstants DEF Limiter!TypeOK
<1>2. (admitted[k] + 1) * Cost = admitted[k] * Cost + Cost
  BY <1>1
<1> QED
  BY <1>1, <1>2 DEF Spent

LEMMA SameCardinality == \A S : Limiter!Cardinality(S) = Cardinality(S)
BY DEF Limiter!Cardinality, Cardinality

LEMMA BucketsAreThere ==
  ASSUME Limiter!TypeOK
  PROVE  /\ Cardinality(LimitKeys) \in Nat /\ Cardinality(Goroutines) \in Nat
         /\ Limiter!Ids = 1 .. Cardinality(LimitKeys) + Cardinality(Goroutines)
         /\ Limiter!Ids \subseteq Nat \ {0}
BY LimiterConstants, FS_CardinalityType, SameCardinality DEF Limiter!Ids

(* A request that is about to enter finds a bucket of its own. *)
LEMMA UnusedExists ==
  ASSUME Limiter!TypeOK, CallsAreFresh, NEW w \in Goroutines
  PROVE  Limiter!Unused # {}
<1> DEFINE E == {entry[k].limiter : k \in LimitKeys}
           f == [k \in LimitKeys |-> entry[k].limiter]
<1> SUFFICES ASSUME Limiter!Unused = {} PROVE FALSE
  OBVIOUS
<1>1. ASSUME NEW i \in Limiter!Ids PROVE i \in E
  <2>1. CASE \E v \in Goroutines : i = limited[v].limiter
    <3>1. PICK v \in Goroutines : i = limited[v].limiter
      BY <2>1
    <3>2. i # 0
      BY BucketsAreThere
    <3>3. limited[v].pc = "entered"
      BY <3>1, <3>2 DEF CallsAreFresh
    <3>4. limited[v].key \in LimitKeys /\ entry[limited[v].key].limiter = i
      BY <3>1, <3>3 DEF CallsAreFresh
    <3> QED
      BY <3>4
  <2> QED
    BY <2>1 DEF Limiter!Unused
<1>2. f \in Surjection(LimitKeys, E)
  BY DEF Surjection
<1>3. IsFiniteSet(E) /\ Cardinality(E) <= Cardinality(LimitKeys)
  <2> HIDE DEF E, f
  <2> QED
    BY <1>2, FS_Surjection, LimiterConstants
<1>4. IsFiniteSet(Limiter!Ids) /\ Cardinality(Limiter!Ids) <= Cardinality(E)
  <2>1. Limiter!Ids \in SUBSET E
    BY <1>1
  <2> HIDE DEF E
  <2> QED
    BY <1>3, <2>1, FS_Subset
<1>5. Cardinality(Limiter!Ids) = Cardinality(LimitKeys) + Cardinality(Goroutines)
  BY BucketsAreThere, FS_Interval
<1>6. Cardinality(Goroutines) # 0
  BY LimiterConstants, FS_EmptySet
<1>7. Cardinality(E) \in Nat
  BY <1>3, FS_CardinalityType
<1> HIDE DEF E
<1> QED
  BY <1>3, <1>4, <1>5, <1>6, <1>7, BucketsAreThere

(* Forgetting.  A key is forgotten long after it was last seen ... *)
LEMMA DroppedIsOld ==
  ASSUME EntriesOutlast, Limiter!TypeOK, NEW k \in LimitKeys, NEW now \in Nat,
         Limiter!Dropped(k, now)
  PROVE  entry[k].lastSeen + Burst * Cost + 2 * MaxLag <= now
<1>1. EntryTTL > 0 /\ CleanupInterval > 0 /\ now - entry[k].lastSeen > EntryTTL
  BY DEF Limiter!Dropped, Limiter!CleanupDue
<1>2. entry[k].lastSeen \in Nat
  BY LimiterConstants DEF Limiter!TypeOK
<1> QED
  BY <1>1, <1>2, LimiterConstants DEF EntriesOutlast

\* ... and not while a request holds its bucket.
LEMMA HeldIsKept ==
  ASSUME EntriesOutlast, Limiter!TypeOK, CallsAreFresh,
         NEW w \in Goroutines, limited[w].pc # "idle",
         NEW v \in Goroutines, limited[v].pc = "entered"
  PROVE  ~ Limiter!Dropped(limited[v].key, limited[w].now)
<1> DEFINE k == limited[v].key  old == limited[v].now  now == limited[w].now
<1>1. /\ k \in LimitKeys /\ old \in Nat /\ now \in Nat /\ clock \in Nat
      /\ entry[k].lastSeen \in Nat
  BY LimiterConstants DEF Limiter!TypeOK, CallsAreFresh
<1>2. now <= clock /\ clock <= old + MaxLag /\ old <= entry[k].lastSeen + MaxLag
  BY DEF CallsAreFresh
<1>3. ~ (entry[k].lastSeen + Burst * Cost + 2 * MaxLag <= now)
  BY <1>1, <1>2, LimiterConstants
<1> QED
  BY <1>1, <1>3, DroppedIsOld

Bucket == [tokens : 0 .. Burst * Cost, lastRefill : 0 .. MaxClock]
Call == [pc : {"idle", "arrived", "entered"}, key : LimitKeys \cup {None},
         now : 0 .. MaxClock, limiter : Limiter!Ids \cup {0}]

LEMMA CallTypes ==
  ASSUME Limiter!TypeOK, NEW w \in Goroutines
  PROVE  /\ limited \in [Goroutines -> Call] /\ limited[w] \in Call
         /\ limited[w].now \in Nat /\ limited[w].now <= MaxClock /\ clock \in Nat /\ since \in Nat
         /\ Limiter!Idle \in Call
BY LimiterConstants DEF Limiter!TypeOK, Call, Limiter!Idle

LEMMA TickKeeps ==
  ASSUME LimitInv, Limiter!Tick
  PROVE  LimitInv'
<1>1. /\ clock' = clock + 1 /\ clock < MaxClock /\ clock \in Nat /\ since \in Nat
      /\ UNCHANGED <<entry, bucket, lastCleanup, limited, since, admitted, lastIn>>
  BY LimiterConstants DEF Limiter!Tick, LimitInv, Limiter!TypeOK
<1>2. Limiter!TypeOK'
  BY <1>1, LimiterConstants DEF LimitInv, Limiter!TypeOK
<1>3. CallsAreFresh'
  <2>1. \A w \in Goroutines : limited[w].pc # "idle" => clock < limited[w].now + MaxLag
    BY DEF Limiter!Tick
  <2>2. \A w \in Goroutines : limited[w].now \in Nat
    BY CallTypes DEF LimitInv
  <2> QED
    BY <1>1, <2>1, <2>2, LimiterConstants DEF LimitInv, CallsAreFresh, HasEntry
<1>4. EntriesDiffer'
  BY <1>1 DEF LimitInv, EntriesDiffer, HasEntry
<1>5. BucketsFit'
  <2> SUFFICES ASSUME NEW k \in LimitKeys
               PROVE  (/\ entry[k].lastSeen <= clock
                       /\ HasEntry(k) => Fits(BucketOf(k), k, entry[k].lastSeen)
                       /\ ~ HasEntry(k) /\ Spent(k) > 0 => Spent(k) <= clock - MaxLag - since)'
    BY DEF BucketsFit
  <2>1. Spent(k)' = Spent(k) /\ Spent(k) \in Nat /\ BucketOf(k)' = BucketOf(k)
        /\ (HasEntry(k)' <=> HasEntry(k))
    BY <1>1, SpentCounts DEF LimitInv, BucketOf, HasEntry
  <2>2. entry[k].lastSeen \in Nat /\ (HasEntry(k) => BucketOf(k) \in Bucket)
    BY LimiterConstants DEF LimitInv, Limiter!TypeOK, BucketOf, HasEntry, Bucket
  <2>3. entry[k].lastSeen' <= clock'
    BY <1>1, <2>2 DEF LimitInv, BucketsFit
  <2>4. HasEntry(k) => Fits(BucketOf(k), k, entry[k].lastSeen)'
    <3>1. HasEntry(k) => BucketOf(k).lastRefill \in Nat /\ BucketOf(k).lastRefill <= clock
      BY <2>2, LimiterConstants DEF Bucket, LimitInv, BucketsFit, Fits
    <3> QED
      BY <1>1, <2>1, <3>1 DEF LimitInv, BucketsFit, Fits
  <2>5. ~ HasEntry(k) /\ Spent(k) > 0 => Spent(k) <= clock' - MaxLag - since
    BY <1>1, <2>1, LimiterConstants DEF LimitInv, BucketsFit
  <2> QED
    BY <1>1, <2>1, <2>3, <2>4, <2>5
<1> QED
  BY <1>2, <1>3, <1>4, <1>5 DEF LimitInv

\* The map and the buckets do not change.
LEMMA MapKeeps ==
  ASSUME LimitInv, UNCHANGED <<clock, entry, bucket, since, admitted, lastIn>>
  PROVE  EntriesDiffer' /\ BucketsFit'
BY DEF LimitInv, EntriesDiffer, BucketsFit, Fits, HasEntry, BucketOf, Spent

LEMMA ArriveKeeps ==
  ASSUME LimitInv, NEW w \in Goroutines, NEW k \in LimitKeys, Limiter!Arrive(w, k)
  PROVE  LimitInv'
<1> DEFINE x == [pc |-> "arrived", key |-> k, now |-> clock, limiter |-> 0]
<1>1. /\ limited' = [limited EXCEPT ![w] = x]
      /\ UNCHANGED <<clock, entry, bucket, lastCleanup, since, admitted, lastIn>>
  BY DEF Limiter!Arrive
<1>2. x \in Call /\ x.pc = "arrived" /\ x.key = k /\ x.now = clock /\ x.limiter = 0
  BY DEF LimitInv, Limiter!TypeOK, Call
<1> HIDE DEF x
<1>3. /\ limited' \in [Goroutines -> Call] /\ limited'[w] = x
      /\ \A v \in Goroutines : v # w => limited'[v] = limited[v]
  BY <1>1, <1>2, CallTypes DEF LimitInv
<1>4. Limiter!TypeOK'
  BY <1>1, <1>3 DEF LimitInv, Limiter!TypeOK, Call
<1>5. CallsAreFresh'
  <2>1. clock <= clock + MaxLag /\ clock <= clock
    BY CallTypes, LimiterConstants DEF LimitInv
  <2> QED
    BY <1>1, <1>2, <1>3, <2>1 DEF LimitInv, CallsAreFresh, HasEntry
<1> QED
  BY <1>1, <1>4, <1>5, MapKeeps DEF LimitInv

(* Time refills a bucket and leaves the account of its key as it was. *)
LEMMA RefillFits ==
  ASSUME Limiter!TypeOK, NEW k \in LimitKeys, NEW seen \in Nat, NEW now \in Nat, NEW b \in Bucket,
         Fits(b, k, seen), now <= clock, now <= seen + MaxLag
  PROVE  /\ Limiter!Refilled(b, now) \in Bucket
         /\ now <= Limiter!Refilled(b, now).lastRefill
         /\ Fits(Limiter!Refilled(b, now), k, seen)
<1> DEFINE c == Limiter!Refilled(b, now)
           full == Burst * Cost
<1>1. /\ b.tokens \in Nat /\ b.tokens <= full /\ b.lastRefill \in Nat /\ b.lastRefill <= MaxClock
      /\ clock \in Nat /\ clock <= MaxClock /\ since \in Nat /\ lastIn[k] \in Int
  BY LimiterConstants DEF Bucket, Limiter!TypeOK
<1>2. full \in Nat /\ Cost \in Nat /\ Cost <= full
  BY LimiterConstants
<1> HIDE DEF full
<1>3. CASE now > b.lastRefill
  <2>1. c = [tokens |-> IF full < b.tokens + now - b.lastRefill THEN full
                        ELSE b.tokens + now - b.lastRefill, lastRefill |-> now]
    BY <1>3 DEF Limiter!Refilled, Limiter!Least, full
  <2>2. c.lastRefill = now /\ c.tokens \in Nat /\ c.tokens <= full
        /\ c.tokens >= b.tokens /\ c.tokens <= b.tokens + now - b.lastRefill
        /\ (c.tokens = full \/ c.tokens = b.tokens + now - b.lastRefill)
    BY <1>1, <1>2, <1>3, <2>1
  <2>3. c \in Bucket
    BY <1>1, <1>2, <2>1, <2>2, LimiterConstants DEF Bucket, full
  <2> HIDE DEF c
  <2>4. c.tokens >= Cost \/ c.lastRefill - c.tokens <= lastIn[k]
    BY <1>1, <1>2, <1>3, <2>2 DEF Fits
  <2>5. ASSUME Spent(k) > 0
        PROVE  c.lastRefill >= since /\ Spent(k) + c.tokens <= full + c.lastRefill - since
    <3>1. Spent(k) \in Nat
      BY SpentCounts
    <3>2. b.lastRefill >= since /\ Spent(k) + b.tokens <= full + b.lastRefill - since
      BY <2>5 DEF Fits, full
    <3> QED
      BY <1>1, <1>2, <1>3, <2>2, <3>1, <3>2
  <2>6. Fits(c, k, seen)
    BY <2>2, <2>4, <2>5 DEF Fits, full
  <2>7. now <= c.lastRefill
    BY <2>2
  <2> QED
    BY <2>3, <2>6, <2>7 DEF c
<1>4. CASE ~ (now > b.lastRefill)
  <2>1. c = b
    BY <1>4 DEF Limiter!Refilled
  <2>2. now <= b.lastRefill
    BY <1>1, <1>4
  <2> QED
    BY <2>1, <2>2
<1> QED
  BY <1>3, <1>4

(* A request ends: only the bucket of its key has changed. *)
LEMMA CallEnds ==
  ASSUME LimitInv, NEW w \in Goroutines, limited[w].pc = "entered",
         NEW k \in LimitKeys, k = limited[w].key, NEW c \in Bucket,
         bucket' = [bucket EXCEPT ![limited[w].limiter] = c],
         limited' = [limited EXCEPT ![w] = Limiter!Idle],
         UNCHANGED <<clock, entry, lastCleanup, since>>,
         admitted' \in [LimitKeys -> Nat], lastIn' \in [LimitKeys -> -Cost .. MaxClock],
         \A l \in LimitKeys : l # k => admitted'[l] = admitted[l] /\ lastIn'[l] = lastIn[l],
         c.lastRefill <= clock, c.lastRefill <= entry[k].lastSeen + MaxLag,
         c.tokens >= Cost \/ c.lastRefill - c.tokens <= lastIn'[k],
         Spent(k)' > 0 => /\ c.lastRefill >= since
                          /\ Spent(k)' + c.tokens <= Burst * Cost + c.lastRefill - since
  PROVE  LimitInv'
<1> DEFINE i == limited[w].limiter
<1>1. i = entry[k].limiter /\ HasEntry(k) /\ i \in Limiter!Ids
  <2>1. i = entry[k].limiter /\ HasEntry(k)
    BY DEF LimitInv, CallsAreFresh
  <2> QED
    BY <2>1 DEF LimitInv, Limiter!TypeOK, HasEntry
<1>2. /\ limited' \in [Goroutines -> Call] /\ limited'[w] = Limiter!Idle
      /\ \A v \in Goroutines : v # w => limited'[v] = limited[v]
  BY CallTypes DEF LimitInv
<1>3. /\ bucket' \in [Limiter!Ids -> Bucket] /\ bucket'[i] = c
      /\ \A j \in Limiter!Ids : j # i => bucket'[j] = bucket[j]
  <2>1. bucket \in [Limiter!Ids -> Bucket]
    BY DEF LimitInv, Limiter!TypeOK, Bucket
  <2> QED
    BY <1>1, <2>1
<1>4. Limiter!TypeOK'
  BY <1>2, <1>3 DEF LimitInv, Limiter!TypeOK, Call, Bucket
<1>5. CallsAreFresh'
  BY <1>2 DEF LimitInv, CallsAreFresh, HasEntry, Limiter!Idle
<1>6. EntriesDiffer'
  BY DEF LimitInv, EntriesDiffer, HasEntry
<1>7. ASSUME NEW l \in LimitKeys
      PROVE  (/\ entry[l].lastSeen <= clock
              /\ HasEntry(l) => Fits(BucketOf(l), l, entry[l].lastSeen)
              /\ ~ HasEntry(l) /\ Spent(l) > 0 => Spent(l) <= clock - MaxLag - since)'
  <2>1. CASE l = k
    BY <1>1, <1>3, <2>1 DEF LimitInv, BucketsFit, Fits, BucketOf, HasEntry
  <2>2. CASE l # k
    <3>1. Spent(l)' = Spent(l) /\ lastIn'[l] = lastIn[l]
      BY <2>2, SpentCounts DEF LimitInv
    <3>2. HasEntry(l)' <=> HasEntry(l)
      BY DEF HasEntry
    <3>3. HasEntry(l) => BucketOf(l)' = BucketOf(l)
      BY <1>1, <1>3, <2>2 DEF LimitInv, EntriesDiffer, HasEntry, BucketOf, Limiter!TypeOK
    <3> QED
      BY <3>1, <3>2, <3>3 DEF LimitInv, BucketsFit, Fits
  <2> QED
    BY <2>1, <2>2
<1>8. BucketsFit'
  BY <1>7 DEF BucketsFit
<1> QED
  BY <1>4, <1>5, <1>6, <1>8 DEF LimitInv

(* The bucket of a request that has entered, refilled. *)
LEMMA HeldRefilled ==
  ASSUME LimitInv, NEW w \in Goroutines, limited[w].pc = "entered"
  PROVE  LET k == limited[w].key
             b == Limiter!Refilled(bucket[limited[w].limiter], limited[w].now) IN
         k \in LimitKeys /\ b \in Bucket /\ limited[w].now <= b.lastRefill
         /\ Fits(b, k, entry[k].lastSeen)
<1> DEFINE k == limited[w].key  now == limited[w].now
<1>1. k \in LimitKeys /\ HasEntry(k) /\ limited[w].limiter = entry[k].limiter
      /\ now <= clock /\ now <= entry[k].lastSeen + MaxLag
  BY DEF LimitInv, CallsAreFresh
<1>2. now \in Nat /\ entry[k].lastSeen \in Nat /\ BucketOf(k) \in Bucket
  BY <1>1, CallTypes DEF LimitInv, Limiter!TypeOK, BucketOf, HasEntry, Bucket
<1>3. Fits(BucketOf(k), k, entry[k].lastSeen)
  BY <1>1 DEF LimitInv, BucketsFit
<1> QED
  BY <1>1, <1>2, <1>3, RefillFits DEF LimitInv, BucketOf

LEMMA AdmitKeeps ==
  ASSUME LimitInv, NEW w \in Goroutines, Limiter!Admit(w)
  PROVE  LimitInv'
<1>0. PICK k \in LimitKeys : k = limited[w].key
  BY HeldRefilled DEF LimitInv, CallsAreFresh, Limiter!Admit
<1> DEFINE now == limited[w].now
           b == Limiter!Refilled(bucket[limited[w].limiter], now)
           c == [b EXCEPT !.tokens = @ - Cost]
<1>1. /\ limited[w].pc = "entered" /\ b.tokens >= Cost
      /\ bucket' = [bucket EXCEPT ![limited[w].limiter] = c]
      /\ limited' = [limited EXCEPT ![w] = Limiter!Idle]
      /\ admitted' = [admitted EXCEPT ![k] = IF now >= since THEN @ + 1 ELSE @]
      /\ lastIn' = [lastIn EXCEPT ![k] = clock]
      /\ UNCHANGED <<clock, entry, lastCleanup, since>>
  BY <1>0 DEF Limiter!Admit
<1>2. /\ k \in LimitKeys /\ b \in Bucket /\ now <= b.lastRefill
      /\ Fits(b, k, entry[k].lastSeen)
  BY <1>0, <1>1, HeldRefilled
<1>3. now \in Nat /\ clock \in Nat /\ clock <= MaxClock /\ since \in Nat /\ Cost \in Nat
      /\ entry[k].lastSeen \in Nat
  BY <1>2, CallTypes, LimiterConstants DEF LimitInv, Limiter!TypeOK
<1> HIDE DEF b
<1>4. /\ c = [tokens |-> b.tokens - Cost, lastRefill |-> b.lastRefill]
      /\ b.tokens \in Nat /\ b.lastRefill \in Nat /\ b.tokens <= Burst * Cost
  BY <1>2, LimiterConstants DEF Bucket
<1>5. c \in Bucket /\ c.tokens = b.tokens - Cost /\ c.lastRefill = b.lastRefill
  BY <1>1, <1>2, <1>3, <1>4, LimiterConstants DEF Bucket
<1>6. /\ admitted' \in [LimitKeys -> Nat]
      /\ admitted'[k] = IF now >= since THEN admitted[k] + 1 ELSE admitted[k]
      /\ \A l \in LimitKeys : l # k => admitted'[l] = admitted[l]
  BY <1>1, <1>2 DEF LimitInv, Limiter!TypeOK
<1>7. /\ lastIn' \in [LimitKeys -> -Cost .. MaxClock] /\ lastIn'[k] = clock
      /\ \A l \in LimitKeys : l # k => lastIn'[l] = lastIn[l]
  <2>1. clock \in -Cost .. MaxClock
    BY <1>3
  <2> QED
    BY <1>1, <1>2, <2>1 DEF LimitInv, Limiter!TypeOK
<1>8. c.lastRefill <= clock /\ c.lastRefill <= entry[k].lastSeen + MaxLag
  BY <1>2, <1>5 DEF Fits
<1>9. c.lastRefill - c.tokens <= lastIn'[k]
  BY <1>1, <1>3, <1>4, <1>5, <1>7, <1>8
<1>10. ASSUME Spent(k)' > 0
       PROVE  c.lastRefill >= since /\ Spent(k)' + c.tokens <= Burst * Cost + c.lastRefill - since
  <2> DEFINE full == Burst * Cost
  <2>1. full \in Nat /\ Spent(k) \in Nat
    BY <1>2, LimiterConstants, SpentCounts DEF LimitInv
  <2>2. Spent(k) > 0 => b.lastRefill >= since /\ Spent(k) + b.tokens <= full + b.lastRefill - since
    BY <1>2 DEF Fits
  <2>3. b.tokens <= full
    BY <1>4
  <2> HIDE DEF full
  <2>4. CASE now >= since
    <3>1. Spent(k)' = Spent(k) + Cost
      BY <1>2, <1>6, <2>4, SpentCounts DEF LimitInv
    <3>2. b.lastRefill >= since
      BY <1>2, <1>3, <1>4, <2>4
    <3>3. Spent(k)' + c.tokens = Spent(k) + b.tokens
      BY <1>3, <1>4, <1>5, <2>1, <3>1
    <3> QED
      BY <1>3, <1>4, <1>5, <2>1, <2>2, <2>3, <3>2, <3>3 DEF full
  <2>5. CASE ~ (now >= since)
    <3>1. Spent(k)' = Spent(k)
      BY <1>2, <1>6, <2>5, SpentCounts DEF LimitInv
    <3> QED
      BY <1>3, <1>4, <1>5, <1>10, <2>1, <2>2, <3>1 DEF full
  <2> QED
    BY <2>4, <2>5
<1> HIDE DEF c
<1>11. \A l \in LimitKeys : l # k => admitted'[l] = admitted[l] /\ lastIn'[l] = lastIn[l]
  BY <1>6, <1>7
<1> QED
  BY <1>0, <1>1, <1>2, <1>5, <1>6, <1>7, <1>8, <1>9, <1>10, <1>11, CallEnds

LEMMA RefuseKeeps ==
  ASSUME LimitInv, NEW w \in Goroutines, Limiter!Refuse(w)
  PROVE  LimitInv' /\ limited[w].now - lastIn[limited[w].key] < Cost
<1>0. PICK k \in LimitKeys : k = limited[w].key
  BY HeldRefilled DEF LimitInv, CallsAreFresh, Limiter!Refuse
<1> DEFINE now == limited[w].now
           b == Limiter!Refilled(bucket[limited[w].limiter], now)
<1>1. /\ limited[w].pc = "entered" /\ b.tokens < Cost
      /\ bucket' = [bucket EXCEPT ![limited[w].limiter] = b]
      /\ limited' = [limited EXCEPT ![w] = Limiter!Idle]
      /\ UNCHANGED <<clock, entry, lastCleanup, since, admitted, lastIn>>
  BY <1>0 DEF Limiter!Refuse
<1>2. /\ k \in LimitKeys /\ b \in Bucket /\ now <= b.lastRefill
      /\ Fits(b, k, entry[k].lastSeen)
  BY <1>0, <1>1, HeldRefilled
<1> HIDE DEF b
<1>3. now - lastIn[k] < Cost
  <2>1. now \in Nat /\ lastIn[k] \in Int /\ Cost \in Nat /\ b.tokens \in Nat /\ b.lastRefill \in Nat
    BY <1>2, CallTypes, LimiterConstants DEF LimitInv, Limiter!TypeOK, Bucket
  <2>2. b.lastRefill - b.tokens <= lastIn[k]
    BY <1>1, <1>2, <2>1 DEF Fits
  <2> QED
    BY <1>1, <1>2, <2>1, <2>2
<1>4. Spent(k)' = Spent(k)
  BY <1>1 DEF Spent
<1>5. LimitInv'
  <2>1. /\ admitted' \in [LimitKeys -> Nat] /\ lastIn' \in [LimitKeys -> -Cost .. MaxClock]
        /\ \A l \in LimitKeys : l # k => admitted'[l] = admitted[l] /\ lastIn'[l] = lastIn[l]
    BY <1>1 DEF LimitInv, Limiter!TypeOK
  <2>2. /\ b.lastRefill <= clock /\ b.lastRefill <= entry[k].lastSeen + MaxLag
        /\ b.tokens >= Cost \/ b.lastRefill - b.tokens <= lastIn'[k]
        /\ Spent(k)' > 0 => /\ b.lastRefill >= since
                            /\ Spent(k)' + b.tokens <= Burst * Cost + b.lastRefill - since
    BY <1>1, <1>2, <1>4 DEF Fits
  <2> QED
    BY <1>0, <1>1, <1>2, <2>1, <2>2, CallEnds
<1> QED
  BY <1>0, <1>3, <1>5

(* The time that passed before a key was forgotten has paid for what was let in. *)
LEMMA ForgottenIsPaid ==
  ASSUME EntriesOutlast, LimitInv, NEW k \in LimitKeys, NEW now \in Nat, now <= clock,
         ~ HasEntry(k) \/ Limiter!Dropped(k, now), Spent(k) > 0
  PROVE  Spent(k) <= clock - MaxLag - since
<1>1. CASE ~ HasEntry(k)
  BY <1>1 DEF LimitInv, BucketsFit
<1>2. CASE HasEntry(k) /\ Limiter!Dropped(k, now)
  <2> DEFINE b == BucketOf(k)  seen == entry[k].lastSeen  full == Burst * Cost
  <2>1. b \in Bucket /\ seen \in Nat /\ clock \in Nat /\ since \in Nat /\ Spent(k) \in Nat
    BY <1>2, LimiterConstants, SpentCounts
       DEF LimitInv, Limiter!TypeOK, BucketOf, HasEntry, Bucket
  <2>2. b.tokens \in Nat /\ b.lastRefill \in Nat /\ full \in Nat /\ MaxLag \in Nat
    BY <2>1, LimiterConstants DEF Bucket
  <2>3. b.lastRefill <= seen + MaxLag /\ Spent(k) + b.tokens <= full + b.lastRefill - since
    BY <1>2 DEF LimitInv, BucketsFit, Fits
  <2>4. seen + full + 2 * MaxLag <= now
    BY <1>2, DroppedIsOld DEF LimitInv
  <2> HIDE DEF b, seen, full
  <2> QED
    BY <2>1, <2>2, <2>3, <2>4
<1> QED
  BY <1>1, <1>2

\* A request for k has to make a bucket.
Unknown(k, now) == ~ HasEntry(k) \/ Limiter!Dropped(k, now)

(* What goroutine w, whose request for key k read the clock at `now`, does to the map when it
   enters and gets bucket i. *)
Enters(w, k, now, i) ==
  /\ entry'[k] = [limiter |-> i, lastSeen |-> now]
  /\ \A l \in LimitKeys : l # k =>
       entry'[l] = IF Limiter!Dropped(l, now) THEN Limiter!NoEntry ELSE entry[l]
  /\ entry' \in [LimitKeys -> [limiter : Limiter!Ids \cup {0}, lastSeen : 0 .. MaxClock]]
  /\ bucket' \in [Limiter!Ids -> Bucket]
  /\ limited' \in [Goroutines -> Call]
  /\ limited'[w].pc = "entered" /\ limited'[w].key = k
  /\ limited'[w].now = now /\ limited'[w].limiter = i
  /\ \A v \in Goroutines : v # w => limited'[v] = limited[v]
  /\ Unknown(k, now) => /\ bucket'[i] = Limiter!NewTokenBucket(now)
                        /\ \A l \in LimitKeys : i # entry[l].limiter
                        /\ \A j \in Limiter!Ids : j # i => bucket'[j] = bucket[j]
  /\ ~ Unknown(k, now) => i = entry[k].limiter /\ bucket' = bucket

LEMMA EnterMap ==
  ASSUME LimitInv, NEW w \in Goroutines, Limiter!Enter(w),
         NEW k \in LimitKeys, k = limited[w].key, NEW now \in Nat, now = limited[w].now
  PROVE  \E i \in Limiter!Ids : Enters(w, k, now, i)
<1> DEFINE kept == [l \in LimitKeys |->
                      IF Limiter!Dropped(l, now) THEN Limiter!NoEntry ELSE entry[l]]
           fresh == CHOOSE i \in Limiter!Unused : TRUE
           i == IF kept[k] = Limiter!NoEntry THEN fresh ELSE kept[k].limiter
<1>1. /\ limited[w].pc = "arrived"
      /\ entry' = [kept EXCEPT ![k] = [limiter |-> i, lastSeen |-> now]]
      /\ bucket' = IF kept[k] = Limiter!NoEntry
                   THEN [bucket EXCEPT ![fresh] = Limiter!NewTokenBucket(now)] ELSE bucket
      /\ limited' = [limited EXCEPT ![w].pc = "entered", ![w].limiter = i]
  BY DEF Limiter!Enter
<1>2. fresh \in Limiter!Ids /\ \A l \in LimitKeys : fresh # entry[l].limiter
  <2>1. fresh \in Limiter!Unused
    BY UnusedExists DEF LimitInv
  <2> HIDE DEF fresh
  <2> QED
    BY <2>1 DEF Limiter!Unused
<1>3. entry \in [LimitKeys -> [limiter : Limiter!Ids \cup {0}, lastSeen : 0 .. MaxClock]]
      /\ bucket \in [Limiter!Ids -> Bucket]
  BY DEF LimitInv, Limiter!TypeOK, Bucket
<1>4. /\ HasEntry(k) => entry[k] # Limiter!NoEntry /\ entry[k].limiter \in Limiter!Ids
      /\ ~ HasEntry(k) => entry[k] = Limiter!NoEntry
  BY <1>3 DEF HasEntry, Limiter!NoEntry, LimitInv, EntriesDiffer
<1>5. kept[k] = Limiter!NoEntry <=> Unknown(k, now)
  BY <1>4 DEF Unknown
<1>6. /\ Unknown(k, now) => i = fresh
      /\ ~ Unknown(k, now) => i = entry[k].limiter
      /\ i \in Limiter!Ids
  BY <1>2, <1>4, <1>5
<1>7. kept \in [LimitKeys -> [limiter : Limiter!Ids \cup {0}, lastSeen : 0 .. MaxClock]]
  <2>1. Limiter!NoEntry \in [limiter : Limiter!Ids \cup {0}, lastSeen : 0 .. MaxClock]
    BY LimiterConstants DEF Limiter!NoEntry
  <2> QED
    BY <1>3, <2>1
<1>8. now \in 0 .. MaxClock
  BY CallTypes DEF LimitInv
<1>9. Limiter!NewTokenBucket(now) \in Bucket
  BY <1>8, LimiterConstants DEF Limiter!NewTokenBucket, Bucket
<1> HIDE DEF fresh, i
<1>10. /\ bucket' \in [Limiter!Ids -> Bucket]
       /\ Unknown(k, now) => bucket'[i] = Limiter!NewTokenBucket(now)
                 /\ \A j \in Limiter!Ids : j # i => bucket'[j] = bucket[j]
       /\ ~ Unknown(k, now) => bucket' = bucket
  BY <1>1, <1>2, <1>3, <1>5, <1>6, <1>9
<1>11. /\ \A l \in LimitKeys :
            kept[l] = IF Limiter!Dropped(l, now) THEN Limiter!NoEntry ELSE entry[l]
       /\ [limiter |-> i, lastSeen |-> now] \in [limiter : Limiter!Ids \cup {0}, lastSeen : 0 .. MaxClock]
  BY <1>6, <1>8
<1> HIDE DEF kept
<1>12. /\ entry'[k] = [limiter |-> i, lastSeen |-> now]
       /\ \A l \in LimitKeys : l # k => entry'[l] = kept[l]
       /\ entry' \in [LimitKeys -> [limiter : Limiter!Ids \cup {0}, lastSeen : 0 .. MaxClock]]
  BY <1>1, <1>7, <1>11
<1>13. /\ limited' \in [Goroutines -> Call]
       /\ limited'[w].pc = "entered" /\ limited'[w].key = k
       /\ limited'[w].now = now /\ limited'[w].limiter = i
       /\ \A v \in Goroutines : v # w => limited'[v] = limited[v]
  <2> DEFINE mid == [limited EXCEPT ![w].pc = "entered"]
  <2>1. limited \in [Goroutines -> Call] /\ limited[w] \in Call
    BY CallTypes DEF LimitInv
  <2>2. mid \in [Goroutines -> Call] /\ mid[w] = [limited[w] EXCEPT !.pc = "entered"]
        /\ \A v \in Goroutines : v # w => mid[v] = limited[v]
    BY <2>1 DEF Call
  <2>3. mid[w].pc = "entered" /\ mid[w].key = k /\ mid[w].now = now /\ mid[w] \in Call
    BY <2>1, <2>2 DEF Call
  <2>4. limited' = [mid EXCEPT ![w].limiter = i]
    BY <1>1
  <2> HIDE DEF mid
  <2>5. limited'[w] = [mid[w] EXCEPT !.limiter = i] /\ \A v \in Goroutines : v # w => limited'[v] = mid[v]
    BY <2>2, <2>4
  <2>6. /\ limited'[w].pc = "entered" /\ limited'[w].key = k
        /\ limited'[w].now = now /\ limited'[w].limiter = i /\ limited'[w] \in Call
    BY <1>6, <2>3, <2>5 DEF Call
  <2>7. limited' \in [Goroutines -> Call]
    <3>1. [mid[w] EXCEPT !.limiter = i] \in Call
      BY <2>5, <2>6
    <3> QED
      BY <2>2, <2>4, <3>1
  <2> QED
    BY <2>2, <2>5, <2>6, <2>7
<1>14. Unknown(k, now) => \A l \in LimitKeys : i # entry[l].limiter
  BY <1>2, <1>6
<1>15. \A l \in LimitKeys : l # k =>
         entry'[l] = IF Limiter!Dropped(l, now) THEN Limiter!NoEntry ELSE entry[l]
  BY <1>11, <1>12
<1>16. /\ Unknown(k, now) => /\ bucket'[i] = Limiter!NewTokenBucket(now)
                             /\ \A l \in LimitKeys : i # entry[l].limiter
                             /\ \A j \in Limiter!Ids : j # i => bucket'[j] = bucket[j]
       /\ ~ Unknown(k, now) => i = entry[k].limiter /\ bucket' = bucket
  BY <1>6, <1>10, <1>14
<1>17. Enters(w, k, now, i)
  BY <1>10, <1>12, <1>13, <1>15, <1>16 DEF Enters
<1> QED
  BY <1>6, <1>17

LEMMA EnterKeeps ==
  ASSUME EntriesOutlast, LimitInv, NEW w \in Goroutines, Limiter!Enter(w)
  PROVE  LimitInv'
<1>1. PICK k \in LimitKeys, now \in Nat :
        k = limited[w].key /\ now = limited[w].now /\ now <= clock /\ clock <= now + MaxLag
  BY CallTypes DEF Limiter!Enter, LimitInv, CallsAreFresh
<1>2. PICK i \in Limiter!Ids : Enters(w, k, now, i)
  BY <1>1, EnterMap
<1>3. /\ entry'[k] = [limiter |-> i, lastSeen |-> now]
      /\ \A l \in LimitKeys : l # k =>
           entry'[l] = IF Limiter!Dropped(l, now) THEN Limiter!NoEntry ELSE entry[l]
      /\ entry' \in [LimitKeys -> [limiter : Limiter!Ids \cup {0}, lastSeen : 0 .. MaxClock]]
      /\ bucket' \in [Limiter!Ids -> Bucket]
      /\ limited' \in [Goroutines -> Call]
      /\ limited'[w].pc = "entered" /\ limited'[w].key = k
      /\ limited'[w].now = now /\ limited'[w].limiter = i
      /\ \A v \in Goroutines : v # w => limited'[v] = limited[v]
      /\ Unknown(k, now) => /\ bucket'[i] = Limiter!NewTokenBucket(now)
                            /\ \A l \in LimitKeys : i # entry[l].limiter
                            /\ \A j \in Limiter!Ids : j # i => bucket'[j] = bucket[j]
      /\ ~ Unknown(k, now) => i = entry[k].limiter /\ bucket' = bucket
  BY <1>2 DEF Enters
<1>4. i # 0 /\ entry'[k].limiter = i /\ entry'[k].lastSeen = now /\ HasEntry(k)'
  BY <1>3, BucketsAreThere DEF LimitInv, HasEntry
<1>5. UNCHANGED <<clock, since, admitted, lastIn>>
      /\ lastCleanup' \in {lastCleanup, limited[w].now}
  BY DEF Limiter!Enter
<1>6. \A l \in LimitKeys :
        /\ entry[l].lastSeen \in Nat
        /\ HasEntry(l) => entry[l].limiter \in Limiter!Ids /\ BucketOf(l) \in Bucket
  BY LimiterConstants DEF LimitInv, Limiter!TypeOK, HasEntry, BucketOf, Bucket
<1>7. Limiter!NoEntry.limiter = 0 /\ Limiter!NoEntry.lastSeen = 0
  BY DEF Limiter!NoEntry
<1>8. \A l \in LimitKeys : l # k =>
        /\ HasEntry(l)' <=> HasEntry(l) /\ ~ Limiter!Dropped(l, now)
        /\ HasEntry(l)' => entry'[l] = entry[l] /\ BucketOf(l)' = BucketOf(l)
        /\ ~ HasEntry(l)' => entry'[l] = Limiter!NoEntry
  <2> SUFFICES ASSUME NEW l \in LimitKeys, l # k
               PROVE  /\ HasEntry(l)' <=> HasEntry(l) /\ ~ Limiter!Dropped(l, now)
                      /\ HasEntry(l)' => entry'[l] = entry[l] /\ BucketOf(l)' = BucketOf(l)
                      /\ ~ HasEntry(l)' => entry'[l] = Limiter!NoEntry
    OBVIOUS
  <2>1. entry'[l] = IF Limiter!Dropped(l, now) THEN Limiter!NoEntry ELSE entry[l]
    BY <1>3
  <2>2. HasEntry(l)' <=> HasEntry(l) /\ ~ Limiter!Dropped(l, now)
    BY <1>7, <2>1 DEF HasEntry
  <2>3. HasEntry(l)' => entry'[l] = entry[l]
    BY <2>1, <2>2
  <2>4. HasEntry(l) => bucket'[entry[l].limiter] = bucket[entry[l].limiter]
    BY <1>3, <1>6
  <2>5. HasEntry(l)' => BucketOf(l)' = BucketOf(l)
    BY <2>2, <2>3, <2>4 DEF BucketOf
  <2>6. ~ HasEntry(l) => entry[l] = Limiter!NoEntry
    BY DEF LimitInv, EntriesDiffer
  <2> QED
    BY <2>1, <2>2, <2>3, <2>5, <2>6
<1>9. Limiter!TypeOK'
  <2>1. lastCleanup' \in 0 .. MaxClock
    BY <1>5 DEF LimitInv, Limiter!TypeOK
  <2> QED
    BY <1>3, <1>5, <2>1 DEF LimitInv, Limiter!TypeOK, Call, Bucket
<1>10. CallsAreFresh'
  <2> SUFFICES ASSUME NEW v \in Goroutines
               PROVE  (LET l == limited[v].key  t == limited[v].now IN
                       /\ limited[v].pc # "idle" => l \in LimitKeys /\ t <= clock /\ clock <= t + MaxLag
                       /\ limited[v].pc # "entered" => limited[v].limiter = 0
                       /\ limited[v].pc = "entered" =>
                            /\ limited[v].limiter = entry[l].limiter /\ HasEntry(l)
                            /\ t <= entry[l].lastSeen + MaxLag /\ entry[l].lastSeen <= t + MaxLag)'
    BY DEF CallsAreFresh
  <2>1. CASE v = w
    <3>1. now <= now + MaxLag
      BY LimiterConstants
    <3> QED
      BY <1>1, <1>3, <1>4, <1>5, <2>1, <3>1
  <2>2. CASE v # w /\ limited[v].pc # "entered"
    BY <1>3, <1>5, <2>2 DEF LimitInv, CallsAreFresh
  <2>3. CASE v # w /\ limited[v].pc = "entered"
    <3>0. PICK l \in LimitKeys : l = limited[v].key
      BY <2>3 DEF LimitInv, CallsAreFresh
    <3> DEFINE t == limited[v].now
    <3>1. /\ l \in LimitKeys /\ t <= clock /\ clock <= t + MaxLag
          /\ limited[v].limiter = entry[l].limiter /\ HasEntry(l)
          /\ t <= entry[l].lastSeen + MaxLag /\ entry[l].lastSeen <= t + MaxLag
      BY <2>3, <3>0 DEF LimitInv, CallsAreFresh
    <3>2. ~ Limiter!Dropped(l, now)
      BY <1>1, <2>3, <3>0, HeldIsKept DEF LimitInv, Limiter!Enter
    <3>3. limited'[v] = limited[v]
      BY <1>3, <2>3
    <3>4. CASE l # k
      <4>1. HasEntry(l)' /\ entry'[l] = entry[l]
        BY <1>8, <3>1, <3>2, <3>4
      <4> QED
        BY <1>5, <2>3, <3>0, <3>1, <3>3, <4>1 DEF HasEntry
    <3>5. CASE l = k
      <4>1. ~ Unknown(k, now) /\ i = entry[k].limiter
        BY <1>3, <3>1, <3>2, <3>5 DEF Unknown
      <4>2. t <= now + MaxLag /\ now <= t + MaxLag
        BY <1>1, <3>1, CallTypes, LimiterConstants DEF LimitInv
      <4> QED
        BY <1>4, <1>5, <2>3, <3>0, <3>1, <3>3, <3>5, <4>1, <4>2 DEF HasEntry
    <3> QED
      BY <3>4, <3>5
  <2> QED
    BY <2>1, <2>2, <2>3
<1>11. EntriesDiffer'
  <2>1. ASSUME NEW l \in LimitKeys, NEW m \in LimitKeys, HasEntry(l)',
               entry'[l].limiter = entry'[m].limiter
        PROVE  l = m
    <3>1. HasEntry(m)'
      BY <2>1 DEF HasEntry
    <3>2. \A j \in LimitKeys : j # k /\ HasEntry(j)' => entry'[j].limiter # i
      <4> SUFFICES ASSUME NEW j \in LimitKeys, j # k, HasEntry(j)', entry'[j].limiter = i
                   PROVE  FALSE
        OBVIOUS
      <4>1. HasEntry(j) /\ entry[j].limiter = i
        BY <1>8
      <4>2. ~ Unknown(k, now) /\ i = entry[k].limiter
        BY <1>3, <4>1
      <4> QED
        BY <4>1, <4>2 DEF LimitInv, EntriesDiffer
    <3>3. CASE l # k /\ m # k
      BY <1>8, <2>1, <3>1, <3>3 DEF LimitInv, EntriesDiffer
    <3> QED
      BY <1>4, <2>1, <3>1, <3>2, <3>3
  <2>2. \A l \in LimitKeys : ~ HasEntry(l)' => entry'[l] = Limiter!NoEntry
    BY <1>4, <1>8
  <2> QED
    BY <2>1, <2>2 DEF EntriesDiffer, HasEntry
<1>12. ASSUME NEW l \in LimitKeys
       PROVE  (/\ entry[l].lastSeen <= clock
               /\ HasEntry(l) => Fits(BucketOf(l), l, entry[l].lastSeen)
               /\ ~ HasEntry(l) /\ Spent(l) > 0 => Spent(l) <= clock - MaxLag - since)'
  <2>1. Spent(l)' = Spent(l) /\ Spent(l) \in Nat /\ clock \in Nat /\ since \in Nat
    BY <1>5, SpentCounts, CallTypes DEF LimitInv, Spent
  <2>2. CASE l # k /\ HasEntry(l)'
    BY <1>5, <1>8, <2>1, <2>2 DEF LimitInv, BucketsFit, Fits
  <2>3. CASE l # k /\ ~ HasEntry(l)'
    <3>1. Spent(l) > 0 => Spent(l) <= clock - MaxLag - since
      BY <1>1, <1>8, <2>3, ForgottenIsPaid
    <3>2. entry'[l].lastSeen = 0
      BY <1>7, <1>8, <2>3
    <3> QED
      BY <1>5, <2>1, <2>3, <3>1, <3>2
  <2>4. CASE l = k /\ Unknown(k, now)
    <3> DEFINE full == Burst * Cost
    <3>1. BucketOf(k)' = [tokens |-> full, lastRefill |-> now]
      BY <1>3, <1>4, <2>4 DEF BucketOf, Limiter!NewTokenBucket
    <3>2. Spent(k) > 0 => Spent(k) <= clock - MaxLag - since
      BY <1>1, <2>4, ForgottenIsPaid DEF Unknown
    <3>3. full \in Nat /\ Cost <= full /\ Cost \in Nat /\ MaxLag \in Nat
      BY LimiterConstants
    <3>4. BucketOf(k)'.tokens = full /\ BucketOf(k)'.lastRefill = now
      BY <3>1
    <3> HIDE DEF full
    <3>5. Spent(k) > 0 => now >= since /\ Spent(k) + full <= full + now - since
      BY <1>1, <2>1, <2>4, <3>2, <3>3
    <3>6. now <= now + MaxLag
      BY <3>3
    <3>7. Fits(BucketOf(k), k, entry[k].lastSeen)'
      BY <1>1, <1>4, <1>5, <2>1, <2>4, <3>3, <3>4, <3>5, <3>6 DEF Fits, full
    <3> QED
      BY <1>1, <1>4, <1>5, <2>4, <3>7
  <2>5. CASE l = k /\ ~ Unknown(k, now)
    <3>1. BucketOf(k)' = BucketOf(k) /\ HasEntry(k)
      BY <1>3, <1>4, <2>5 DEF BucketOf, Unknown
    <3>2. Fits(BucketOf(k), k, entry[k].lastSeen) /\ BucketOf(k).lastRefill \in Nat
      BY <1>6, <3>1, LimiterConstants DEF LimitInv, BucketsFit, Bucket
    <3>3. BucketOf(k).lastRefill <= now + MaxLag
      BY <1>1, <2>1, <3>2, LimiterConstants DEF Fits
    <3>4. Fits(BucketOf(k), k, entry[k].lastSeen)'
      BY <1>4, <1>5, <2>1, <2>5, <3>1, <3>2, <3>3 DEF Fits
    <3> QED
      BY <1>1, <1>4, <1>5, <2>5, <3>4
  <2> QED
    BY <2>2, <2>3, <2>4, <2>5
<1>13. BucketsFit'
  BY <1>12 DEF BucketsFit
<1> QED
  BY <1>9, <1>10, <1>11, <1>13 DEF LimitInv

LEMMA LimitStep ==
  ASSUME EntriesOutlast, LimitInv, [Limiter!Next]_limitVars
  PROVE  LimitInv'
<1>1. CASE UNCHANGED limitVars
  <2>1. Limiter!TypeOK' /\ CallsAreFresh'
    BY <1>1 DEF limitVars, LimitInv, Limiter!TypeOK, CallsAreFresh, HasEntry
  <2> QED
    BY <1>1, <2>1, MapKeeps DEF limitVars, LimitInv
<1>2. CASE Limiter!Next
  BY <1>2, TickKeeps, ArriveKeeps, EnterKeeps, AdmitKeeps, RefuseKeeps DEF Limiter!Next
<1> QED
  BY <1>1, <1>2

LEMMA LimitStart == Limiter!Init => LimitInv
<1> SUFFICES ASSUME Limiter!Init PROVE LimitInv
  OBVIOUS
<1>1. /\ clock = 0 /\ since \in 0 .. MaxClock
      /\ \A k \in LimitKeys : entry[k] = Limiter!NoEntry /\ admitted[k] = 0
      /\ \A w \in Goroutines : limited[w] = Limiter!Idle
  BY DEF Limiter!Init
<1>2. \A k \in LimitKeys : Spent(k) = 0
  BY <1>1, LimiterConstants DEF Spent
<1>3. Limiter!TypeOK
  <2>1. /\ -Cost \in -Cost .. MaxClock /\ 0 \in 0 .. MaxClock
        /\ [tokens |-> 0, lastRefill |-> 0] \in Bucket
    BY LimiterConstants DEF Bucket
  <2> QED
    BY <2>1, LimiterConstants
       DEF Limiter!Init, Limiter!TypeOK, Limiter!NoEntry, Limiter!Idle, Bucket
<1>4. CallsAreFresh
  BY <1>1 DEF CallsAreFresh, Limiter!Idle
<1>5. EntriesDiffer
  BY <1>1 DEF EntriesDiffer, HasEntry, Limiter!NoEntry
<1>6. BucketsFit
  BY <1>1, <1>2 DEF BucketsFit, HasEntry, Limiter!NoEntry
<1> QED
  BY <1>3, <1>4, <1>5, <1>6 DEF LimitInv

LEMMA LimitInvKeeps ==
  ASSUME LimitInv
  PROVE  Limiter!TypeOK /\ Limiter!Allowance
<1> DEFINE full == Burst * Cost
<1>1. ASSUME NEW k \in LimitKeys
      PROVE  Spent(k) <= full + (IF clock > since THEN clock - since ELSE 0)
  <2>1. /\ full \in Nat /\ Cost \in Nat /\ MaxLag \in Nat /\ Spent(k) \in Nat
        /\ clock \in Nat /\ since \in Nat
    BY LimiterConstants, SpentCounts DEF LimitInv, Limiter!TypeOK
  <2>2. CASE Spent(k) > 0 /\ HasEntry(k)
    <3> DEFINE b == BucketOf(k)
    <3>1. b \in Bucket
      BY <2>2 DEF LimitInv, Limiter!TypeOK, BucketOf, HasEntry, Bucket
    <3>2. b.tokens \in Nat /\ b.lastRefill \in Nat
      BY <3>1, LimiterConstants DEF Bucket
    <3>3. b.lastRefill <= clock /\ Spent(k) + b.tokens <= full + b.lastRefill - since
      BY <2>2 DEF LimitInv, BucketsFit, Fits
    <3> HIDE DEF b, full
    <3> QED
      BY <2>1, <3>2, <3>3
  <2>3. CASE Spent(k) > 0 /\ ~ HasEntry(k)
    <3>1. Spent(k) <= clock - MaxLag - since
      BY <2>3 DEF LimitInv, BucketsFit
    <3> HIDE DEF full
    <3> QED
      BY <2>1, <3>1
  <2>4. CASE Spent(k) = 0
    <3> HIDE DEF full
    <3> QED
      BY <2>1, <2>4
  <2> QED
    BY <2>1, <2>2, <2>3, <2>4
<1> QED
  BY <1>1 DEF LimitInv, Limiter!Allowance, Spent

(* LimitKept, where an entry is kept until its bucket would be full again (the code's default
   keeps it ten minutes): however requests overlap and clocks are read out of order, a key's
   requests are let in within its rate, and refused only close after one that was let in. *)
THEOREM LimitIsKept == EntriesOutlast => (GatewaySpec => LimitKept)
<1> DEFINE Inv == part = "limiter" => LimitInv
           Cause == \A w \in Goroutines :
                      Limiter!Refuse(w) => limited[w].now - lastIn[limited[w].key] < Cost
<1> SUFFICES ASSUME EntriesOutlast PROVE GatewaySpec => LimitKept
  OBVIOUS
<1>1. GatewayInit => Inv
  BY LimitStart DEF GatewayInit
<1>2. Inv /\ [GatewayNext]_gatewayVars => Inv'
  <2> SUFFICES ASSUME Inv, [GatewayNext]_gatewayVars, part' = "limiter" PROVE LimitInv'
    OBVIOUS
  <2>1. part = "limiter" /\ [Limiter!Next]_limitVars
    BY DEF GatewayNext, gatewayVars
  <2> QED
    BY <2>1, LimitStep
<1>3. Inv => (part = "limiter" => Limiter!TypeOK /\ Limiter!Allowance)
  BY LimitInvKeeps
<1>4. Inv /\ [GatewayNext]_gatewayVars => [Cause]_Limiter!vars
  <2> SUFFICES ASSUME Inv, [GatewayNext]_gatewayVars PROVE [Cause]_Limiter!vars
    OBVIOUS
  <2>1. CASE part = "limiter"
    BY <2>1, RefuseKeeps
  <2>2. CASE part # "limiter"
    BY <2>2 DEF GatewayNext, gatewayVars, limitVars, Limiter!vars
  <2> QED
    BY <2>1, <2>2
<1> QED
  BY <1>1, <1>2, <1>3, <1>4, PTL DEF GatewaySpec, LimitKept, Limiter!RefusedForCause

------------------------------------------------------------------------------
(* The creation of a product.  A call that was compensated and still had an effect was under
   way without anyone waiting for it, or was made by a run that began after a rollback. *)

At(pcs) == run.pc \in pcs
Forwards == {"forward", "waitForward"}
Rollbacks == {"rollback", "waitRollback"}

Called(op) == \E k \in DOMAIN calls : calls[k].op = op
CallEnded(k) == calls[k].pc \in {"ok", "error"}
UnderWay(op) == \E k \in DOMAIN calls : calls[k].op = op /\ ~ CallEnded(k)
Went(op) == \E k \in DOMAIN calls : calls[k].op = op /\ calls[k].pc = "ok"
Awaited(k) == Saga!Waiting /\ k = Len(calls)

\* The stock's initialisation is undone, or was never called.
InitUndone == "uninit" \in recorded \/ "create" \notin recorded

\* The first n forward steps are done.
AllDone(n) ==
  /\ n >= 1 => "create" \in recorded
  /\ n >= 2 => "init" \in recorded
  /\ n >= 3 /\ TargetOnline => "publish" \in recorded

RunFits ==
  /\ Saga!Waiting => calls # << >> /\ run.at \in 1 .. Saga!Steps
                     /\ calls[Len(calls)].op = Saga!Op
  /\ run.at >= 3 => run.inited
  /\ run.inited => "init" \in recorded
  /\ At(Forwards) => run.at >= 1 /\ AllDone(run.at - 1)
  /\ At({"waitForward"}) => Saga!Op \notin recorded
  /\ At(Rollbacks) /\ run.at = 2 /\ ~ run.inited => "init" \notin recorded
  /\ At(Rollbacks) /\ run.at <= 1 => InitUndone
  /\ At(Rollbacks) /\ run.at = 0 => "uncreate" \in recorded
  /\ Saga!RollbackBegun /\ At(Forwards) => "rerun" \in causes

OutcomeFits ==
  /\ outcome # "open" => At({"stopped"})
  /\ outcome = "failed" => "uncreate" \in recorded /\ InitUndone
  /\ outcome = "succeeded" => AllDone(3) /\ (Saga!RollbackBegun => "rerun" \in causes)

CallFits(k) ==
  LET op == calls[k].op IN
  /\ calls[k].pc = "ok" => op \in branch \cup {"publish", "unpublish"}
  /\ op = "init" => "create" \in recorded
  /\ op = "uninit" => "init" \in recorded
  /\ op = "publish" => TargetOnline
  /\ op \in {"publish", "unpublish"} => calls[k].pc \in {"check", "ok", "error"}
  /\ op = "uncreate" /\ calls[k].pc = "commit" =>
       IF calls[k].found THEN "create" \in branch
       ELSE "create" \in branch => causes \cap {"create", "rerun"} # {}
  /\ op \in {"create", "init"} /\ ~ CallEnded(k) => Awaited(k) \/ op \in causes

CallsFit == \A k \in DOMAIN calls : CallFits(k)

\* Why a rollback that is recorded may have left the stock, or has none to undo.
InitExcused ==
  \/ causes \cap {"init", "rerun"} # {}
  \/ "init" \notin branch \cup recorded /\ ~ UnderWay("init")

RecordedFits ==
  /\ recorded \cap {"create", "init", "uncreate"} \subseteq branch
  /\ "publish" \in recorded => Went("publish")
  /\ \A op \in branch : Called(op)
  /\ "init" \in branch =>
       \/ "init" \in recorded \cup causes
       \/ Saga!Waiting /\ calls[Len(calls)].op = "init" /\ calls[Len(calls)].pc = "ok"
  /\ "uninit" \in recorded => "uninit" \in branch \/ InitExcused

RowsFit ==
  /\ stocked <=> "init" \in branch /\ "uninit" \notin branch
  /\ product # "none" => "create" \in branch
  /\ "create" \in branch /\ "uncreate" \notin branch => product # "none"
  /\ "uncreate" \in branch /\ product # "none" => causes \cap {"create", "rerun"} # {}
  /\ Called("uncreate") /\ UnderWay("create") => causes \cap {"create", "rerun"} # {}
  /\ Went("publish") => "create" \in branch /\ (product = "offline" => Called("unpublish"))
  /\ product = "online" => Called("publish")

SagaCall == [op : Saga!Ops, pc : {"check", "seen", "commit", "ok", "error"}, found : BOOLEAN]

SagaInv ==
  /\ Saga!TypeOK /\ calls \in Seq(SagaCall)
  /\ RunFits /\ OutcomeFits /\ CallsFit /\ RecordedFits /\ RowsFit

LEMMA SagaConstants ==
  /\ TargetOnline \in BOOLEAN /\ SagaRuns \in Nat \ {0}
  /\ Saga!Steps \in {2, 3} /\ (Saga!Steps = 3 <=> TargetOnline)
  /\ Saga!Ops = {"create", "init", "publish", "uncreate", "uninit", "unpublish"}
  /\ Saga!Undone = {"uncreate", "uninit", "unpublish"}
<1>1. TargetOnline \in BOOLEAN /\ SagaRuns \in Nat \ {0}
  BY CreationAssumption DEF Saga!SagaAssumption
<1>2. DOMAIN Saga!Undo = {"create", "init", "publish"}
      /\ Saga!Undo["create"] = "uncreate" /\ Saga!Undo["init"] = "uninit"
      /\ Saga!Undo["publish"] = "unpublish"
  BY DEF Saga!Undo
<1> QED
  BY <1>1, <1>2 DEF Saga!Steps, Saga!Ops, Saga!Undone

\* What the run is about to do, or waits for.
LEMMA OpAt ==
  /\ At(Forwards) =>
       /\ run.at = 1 => Saga!Op = "create"
       /\ run.at = 2 => Saga!Op = "init"
       /\ run.at = 3 => Saga!Op = "publish"
  /\ At(Rollbacks) =>
       /\ run.at = 1 => Saga!Op = "uncreate"
       /\ run.at = 2 => Saga!Op = "uninit"
       /\ run.at = 3 => Saga!Op = "unpublish"
BY DEF At, Forwards, Rollbacks, Saga!Op, Saga!Forward, Saga!Undo

LEMMA SagaTyped ==
  ASSUME Saga!TypeOK
  PROVE  /\ run \in [pc : {"stopped"} \cup Forwards \cup Rollbacks, at : 0 .. Saga!Steps + 1,
                     inited : BOOLEAN]
         /\ run.at \in Nat /\ run.at <= Saga!Steps + 1 /\ run.inited \in BOOLEAN
         /\ At({"stopped"}) \/ At(Forwards) \/ At(Rollbacks)
         /\ Saga!Waiting <=> At({"waitForward", "waitRollback"})
         /\ run.at \in 1 .. Saga!Steps => run.at \in {1, 2, 3} /\ (run.at = 3 => TargetOnline)
<1>1. run \in [pc : {"stopped"} \cup Forwards \cup Rollbacks, at : 0 .. Saga!Steps + 1,
               inited : BOOLEAN]
  BY DEF Saga!TypeOK, Forwards, Rollbacks
<1> QED
  BY <1>1, SagaConstants DEF At, Forwards, Rollbacks, Saga!Waiting

LEMMA CallChanges ==
  ASSUME calls \in Seq(SagaCall), NEW k \in DOMAIN calls, NEW x \in SagaCall,
         calls' = [calls EXCEPT ![k] = x]
  PROVE  /\ calls' \in Seq(SagaCall) /\ calls' # << >> /\ calls # << >>
         /\ Len(calls') = Len(calls) /\ DOMAIN calls' = DOMAIN calls
         /\ calls'[k] = x /\ \A j \in DOMAIN calls : j # k => calls'[j] = calls[j]
OBVIOUS

LEMMA CallSent ==
  ASSUME calls \in Seq(SagaCall), NEW x \in SagaCall, calls' = Append(calls, x)
  PROVE  /\ calls' \in Seq(SagaCall) /\ calls' # << >>
         /\ Len(calls') = Len(calls) + 1 /\ DOMAIN calls' = DOMAIN calls \cup {Len(calls')}
         /\ calls'[Len(calls')] = x /\ Len(calls') \notin DOMAIN calls
         /\ \A j \in DOMAIN calls : calls'[j] = calls[j]
OBVIOUS

LEMMA CallFields ==
  ASSUME calls \in Seq(SagaCall), NEW k \in DOMAIN calls
  PROVE  /\ calls[k] \in SagaCall /\ calls[k].op \in Saga!Ops /\ calls[k].found \in BOOLEAN
         /\ calls[k].pc \in {"check", "seen", "commit", "ok", "error"}
         /\ \A pc \in {"check", "seen", "commit", "ok", "error"} :
              /\ [calls[k] EXCEPT !.pc = pc] \in SagaCall
              /\ [calls[k] EXCEPT !.pc = pc].op = calls[k].op
              /\ [calls[k] EXCEPT !.pc = pc].pc = pc
              /\ [calls[k] EXCEPT !.pc = pc].found = calls[k].found
<1>1. calls[k] \in SagaCall
  OBVIOUS
<1> QED
  BY <1>1 DEF SagaCall

(* What there is to show of the calls and the rows when they do not change and the run
   goes on, having perhaps recorded a step or noted a cause. *)
LEMMA RunGoesOn ==
  ASSUME SagaInv, UNCHANGED <<product, stocked, branch, calls>>, ~ Saga!Waiting',
         recorded \subseteq recorded', causes \subseteq causes',
         Saga!Waiting => CallEnded(Len(calls)) \/ calls[Len(calls)].op \in causes',
         (Saga!Waiting /\ calls[Len(calls)].op = "init" /\ calls[Len(calls)].pc = "ok") =>
           "init" \in recorded' \cup causes',
         \A op \in recorded' \ recorded : Went(op) \/ (op = "uninit" /\ InitExcused),
         "init" \in recorded' \ recorded /\ "uninit" \in recorded' => "rerun" \in causes
  PROVE  CallsFit' /\ RecordedFits' /\ RowsFit'
<1>1. /\ \A op : (Called(op)' <=> Called(op)) /\ (UnderWay(op)' <=> UnderWay(op))
                 /\ (Went(op)' <=> Went(op))
      /\ \A k : CallEnded(k)' <=> CallEnded(k)
  BY DEF Called, UnderWay, Went, CallEnded
<1>2. RowsFit'
  BY <1>1 DEF SagaInv, RowsFit
<1>3. CallsFit'
  <2> SUFFICES ASSUME NEW k \in DOMAIN calls
               PROVE  CallFits(k)'
    BY DEF CallsFit
  <2>1. CallFits(k)
    BY DEF SagaInv, CallsFit
  <2>2. ASSUME calls[k].op \in {"create", "init"}, ~ CallEnded(k)
        PROVE  calls[k].op \in causes'
    BY <2>1, <2>2 DEF CallFits, Awaited
  <2> QED
    BY <1>1, <2>1, <2>2 DEF CallFits
<1>4. \A op : Went(op) => op \in branch \cup {"publish", "unpublish"}
  BY DEF SagaInv, CallsFit, CallFits, Went
<1>5. /\ (recorded \cap {"create", "init", "uncreate"} \subseteq branch)'
      /\ ("publish" \in recorded => Went("publish"))'
      /\ (\A op \in branch : Called(op))'
  BY <1>1, <1>4 DEF SagaInv, RecordedFits
<1>6. "init" \in branch' => "init" \in recorded' \cup causes'
  BY DEF SagaInv, RecordedFits
<1>7. ASSUME "uninit" \in recorded'
      PROVE  "uninit" \in branch' \/ InitExcused'
  <2>1. InitExcused => InitExcused' \/ "init" \in recorded' \ recorded
    BY <1>1 DEF InitExcused
  <2>2. CASE "uninit" \in recorded
    BY <1>7, <2>1, <2>2 DEF SagaInv, RecordedFits, InitExcused
  <2>3. CASE "uninit" \notin recorded
    BY <1>4, <1>7, <2>1, <2>3 DEF InitExcused
  <2> QED
    BY <2>2, <2>3
<1>8. RecordedFits'
  BY <1>1, <1>5, <1>6, <1>7 DEF RecordedFits
<1> QED
  BY <1>2, <1>3, <1>8

(* The gateway's own steps: calls and rows stay as they are. *)
LEMMA RunStep ==
  ASSUME SagaInv, UNCHANGED <<product, stocked, branch, calls>>,
         recorded' \in SUBSET Saga!Ops, outcome' \in {"open", "succeeded", "failed"},
         run' \in [pc : {"stopped"} \cup Forwards \cup Rollbacks, at : 0 .. Saga!Steps + 1,
                   inited : BOOLEAN],
         runs' \in 0 .. SagaRuns, causes' \in SUBSET (Saga!Ops \cup {"rerun"}),
         RunFits', OutcomeFits', CallsFit', RecordedFits', RowsFit'
  PROVE  SagaInv'
<1>1. Saga!Steps' = Saga!Steps
  BY DEF Saga!Steps
<1>2. Saga!TypeOK'
  BY <1>1 DEF SagaInv, Saga!TypeOK, Forwards, Rollbacks
<1> QED
  BY <1>2 DEF SagaInv

\* A run that is under way: nothing was submitted yet.
LEMMA UnderWayIsOpen ==
  ASSUME SagaInv, At(Forwards \cup Rollbacks)
  PROVE  outcome = "open"
BY DEF SagaInv, OutcomeFits, At, Forwards, Rollbacks

\* A rollback step is no forward step.
LEMMA OpsDiffer ==
  ASSUME SagaInv, At(Forwards \cup Rollbacks), run.at \in 1 .. Saga!Steps
  PROVE  /\ Saga!Op \in Saga!Ops
         /\ At(Forwards) => Saga!Op \in {"create", "init", "publish"}
         /\ At(Rollbacks) => Saga!Op \in {"uncreate", "uninit", "unpublish"}
<1>1. Saga!TypeOK
  BY DEF SagaInv
<1>2. run.at \in {1, 2, 3} /\ (At(Forwards) \/ At(Rollbacks))
  BY <1>1, SagaTyped DEF At
<1> QED
  BY <1>2, OpAt, SagaConstants

LEMMA RunStarts ==
  ASSUME SagaInv, Saga!StartRun
  PROVE  SagaInv'
<1>1. /\ UNCHANGED <<product, stocked, branch, calls, recorded, outcome>>
      /\ run' = [pc |-> "forward", at |-> 1, inited |-> FALSE]
      /\ runs' = runs + 1 /\ runs < SagaRuns /\ outcome = "open"
      /\ causes' = IF Saga!RollbackBegun THEN causes \cup {"rerun"} ELSE causes
      /\ ~ Saga!Waiting
  BY DEF Saga!StartRun, Saga!services, Saga!Waiting
<1>2. run'.pc = "forward" /\ run'.at = 1 /\ run'.inited = FALSE
      /\ run' \in [pc : {"stopped"} \cup Forwards \cup Rollbacks, at : 0 .. Saga!Steps + 1,
                   inited : BOOLEAN]
  BY <1>1, SagaConstants DEF Forwards
<1>3. Saga!RollbackBegun' <=> Saga!RollbackBegun
  BY <1>1 DEF Saga!RollbackBegun
<1>4. RunFits'
  BY <1>1, <1>2, <1>3 DEF RunFits, At, Forwards, Rollbacks, AllDone, Saga!Waiting
<1>5. OutcomeFits'
  BY <1>1 DEF OutcomeFits
<1>6. CallsFit' /\ RecordedFits' /\ RowsFit'
  BY <1>1, <1>2, RunGoesOn DEF Saga!Waiting
<1>7. runs' \in 0 .. SagaRuns /\ causes' \in SUBSET (Saga!Ops \cup {"rerun"})
      /\ recorded' \in SUBSET Saga!Ops
  BY <1>1, SagaConstants DEF SagaInv, Saga!TypeOK
<1> QED
  BY <1>1, <1>2, <1>4, <1>5, <1>6, <1>7, RunStep

(* A forward step is over, or one of the rollback; DTM has it. *)
LEMMA RunAdvances ==
  ASSUME SagaInv, At(Forwards), run.at \in 1 .. Saga!Steps, run' = Saga!After(run),
         recorded' = recorded \cup {Saga!Op}, UNCHANGED <<calls, causes>>
  PROVE  /\ RunFits' /\ ~ Saga!Waiting'
         /\ run' \in [pc : {"stopped"} \cup Forwards \cup Rollbacks, at : 0 .. Saga!Steps + 1,
                      inited : BOOLEAN]
<1>0. Saga!TypeOK
  BY DEF SagaInv
<1>1. /\ run.at \in {1, 2, 3} /\ run.at \in Nat /\ run.inited \in BOOLEAN
      /\ run \in [pc : {"stopped"} \cup Forwards \cup Rollbacks, at : 0 .. Saga!Steps + 1,
                  inited : BOOLEAN]
      /\ run.at = 3 => TargetOnline
      /\ Saga!Steps \in {2, 3}
  BY <1>0, SagaTyped, SagaConstants
<1>2. /\ run'.pc = "forward" /\ run'.at = run.at + 1
      /\ run'.inited <=> run.inited \/ run.at = 2
      /\ run' \in [pc : {"stopped"} \cup Forwards \cup Rollbacks, at : 0 .. Saga!Steps + 1,
                   inited : BOOLEAN]
  <2> DEFINE next1 == run.at + 1  saw == run.inited \/ run.at = 2
  <2>1. saw \in BOOLEAN /\ next1 \in 0 .. Saga!Steps + 1 /\ "forward" \in Forwards
    BY <1>1 DEF Forwards
  <2>2. run' = [run EXCEPT !.pc = "forward", !.at = next1, !.inited = saw]
    BY DEF Saga!After
  <2>3. saw <=> run.inited \/ run.at = 2
    OBVIOUS
  <2> HIDE DEF saw, next1
  <2>4. run'.pc = "forward" /\ run'.at = next1 /\ run'.inited = saw
    BY <1>1, <2>2
  <2>5. run' \in [pc : {"stopped"} \cup Forwards \cup Rollbacks, at : 0 .. Saga!Steps + 1,
                  inited : BOOLEAN]
    BY <1>1, <2>1, <2>2
  <2> QED
    BY <2>3, <2>4, <2>5 DEF next1
<1>3. /\ run.at = 1 => Saga!Op = "create"
      /\ run.at = 2 => Saga!Op = "init"
      /\ run.at = 3 => Saga!Op = "publish"
  BY OpAt
<1>4. Saga!RollbackBegun' => Saga!RollbackBegun
  BY <1>1, <1>3, SagaConstants DEF Saga!RollbackBegun
<1>5. /\ run.at >= 3 => run.inited
      /\ run.inited => "init" \in recorded
      /\ AllDone(run.at - 1)
      /\ Saga!RollbackBegun => "rerun" \in causes
  BY DEF SagaInv, RunFits
<1>6. /\ "create" \in recorded'
      /\ run.at >= 2 => "init" \in recorded'
      /\ run.at >= 3 /\ TargetOnline => "publish" \in recorded'
  <2>1. CASE run.at = 1
    BY <1>3, <2>1
  <2>2. CASE run.at = 2
    BY <1>3, <1>5, <2>2 DEF AllDone
  <2>3. CASE run.at = 3
    BY <1>3, <1>5, <2>3 DEF AllDone
  <2> QED
    BY <1>1, <2>1, <2>2, <2>3
<1>7. ~ Saga!Waiting'
  BY <1>2 DEF Saga!Waiting
<1>8. RunFits'
  <2>1. run'.at >= 3 => run'.inited
    BY <1>1, <1>2, <1>5
  <2>2. run'.inited => "init" \in recorded'
    BY <1>2, <1>3, <1>5
  <2>3. run'.at >= 1 /\ AllDone(run.at - 1)'
    <3>1. run'.at - 1 = run.at
      BY <1>1, <1>2
    <3> QED
      BY <1>1, <1>2, <1>6, <3>1 DEF AllDone
  <2> QED
    BY <1>2, <1>4, <1>5, <1>7, <2>1, <2>2, <2>3
       DEF RunFits, At, Forwards, Rollbacks
<1> QED
  BY <1>2, <1>7, <1>8

LEMMA RunRetreats ==
  ASSUME SagaInv, At(Rollbacks), run.at \in 1 .. Saga!Steps, run' = Saga!Before(run),
         recorded' = recorded \cup {Saga!Op}, UNCHANGED calls
  PROVE  /\ RunFits' /\ ~ Saga!Waiting'
         /\ run' \in [pc : {"stopped"} \cup Forwards \cup Rollbacks, at : 0 .. Saga!Steps + 1,
                      inited : BOOLEAN]
<1>0. Saga!TypeOK
  BY DEF SagaInv
<1>1. /\ run.at \in {1, 2, 3} /\ run.at \in Nat /\ run.inited \in BOOLEAN
      /\ run \in [pc : {"stopped"} \cup Forwards \cup Rollbacks, at : 0 .. Saga!Steps + 1,
                  inited : BOOLEAN]
      /\ Saga!Steps \in {2, 3}
  BY <1>0, SagaTyped, SagaConstants
<1>2. /\ run'.pc = "rollback" /\ run'.at = run.at - 1 /\ run'.inited = run.inited
      /\ run' \in [pc : {"stopped"} \cup Forwards \cup Rollbacks, at : 0 .. Saga!Steps + 1,
                   inited : BOOLEAN]
  <2> DEFINE next1 == run.at - 1
  <2>1. next1 \in 0 .. Saga!Steps + 1 /\ "rollback" \in Rollbacks
    BY <1>1 DEF Rollbacks
  <2>2. run' = [run EXCEPT !.pc = "rollback", !.at = next1]
    BY DEF Saga!Before
  <2> HIDE DEF next1
  <2>3. run'.pc = "rollback" /\ run'.at = next1 /\ run'.inited = run.inited
    BY <1>1, <2>2
  <2>4. run' \in [pc : {"stopped"} \cup Forwards \cup Rollbacks, at : 0 .. Saga!Steps + 1,
                  inited : BOOLEAN]
    BY <1>1, <2>1, <2>2
  <2> QED
    BY <2>3, <2>4 DEF next1
<1>3. /\ run.at = 1 => Saga!Op = "uncreate"
      /\ run.at = 2 => Saga!Op = "uninit"
      /\ run.at = 3 => Saga!Op = "unpublish"
  BY OpAt
<1>4. /\ run.at >= 3 => run.inited
      /\ run.inited => "init" \in recorded
      /\ run.at <= 1 => InitUndone
  BY DEF SagaInv, RunFits
<1>5. /\ run'.at <= 1 => "uninit" \in recorded' \/ "create" \notin recorded'
      /\ run'.at = 0 => "uncreate" \in recorded'
      /\ run'.at >= 3 => run'.inited
      /\ run'.at = 2 => run'.inited
      /\ run'.inited => "init" \in recorded'
  <2>1. CASE run.at = 1
    BY <1>2, <1>3, <1>4, <2>1 DEF InitUndone
  <2>2. CASE run.at = 2
    BY <1>2, <1>3, <1>4, <2>2
  <2>3. CASE run.at = 3
    BY <1>2, <1>3, <1>4, <2>3
  <2> QED
    BY <1>1, <2>1, <2>2, <2>3
<1>6. RunFits' /\ ~ Saga!Waiting'
  BY <1>2, <1>5 DEF RunFits, InitUndone, At, Forwards, Rollbacks, Saga!Waiting
<1> QED
  BY <1>2, <1>6

\* An error: the rollback starts with the step that failed, or the run ends.
LEMMA RunErrs ==
  ASSUME SagaInv, Saga!Waiting, Saga!Errs, UNCHANGED recorded
  PROVE  /\ RunFits' /\ ~ Saga!Waiting'
         /\ run' \in [pc : {"stopped"} \cup Forwards \cup Rollbacks, at : 0 .. Saga!Steps + 1,
                      inited : BOOLEAN]
<1>0. Saga!TypeOK
  BY DEF SagaInv
<1>1. /\ run.at \in 1 .. Saga!Steps /\ run.at \in {1, 2, 3}
      /\ run.at \in Nat /\ run.inited \in BOOLEAN
      /\ run \in [pc : {"stopped"} \cup Forwards \cup Rollbacks, at : 0 .. Saga!Steps + 1,
                  inited : BOOLEAN]
  BY <1>0, SagaTyped, SagaConstants DEF SagaInv, RunFits
<1>2. CASE run.pc = "waitForward"
  <2>1. /\ run'.pc = "rollback" /\ run'.at = run.at /\ run'.inited = run.inited
        /\ run' \in [pc : {"stopped"} \cup Forwards \cup Rollbacks, at : 0 .. Saga!Steps + 1,
                     inited : BOOLEAN]
    BY <1>1, <1>2 DEF Saga!Errs, Rollbacks
  <2>2. /\ run.at = 1 => Saga!Op = "create"
        /\ run.at = 2 => Saga!Op = "init"
        /\ Saga!Op \notin recorded
    BY <1>2, OpAt DEF SagaInv, RunFits, At, Forwards
  <2>3. /\ run.at >= 3 => run.inited
        /\ run.inited => "init" \in recorded
    BY DEF SagaInv, RunFits
  <2>4. run.at <= 1 => InitUndone
    BY <1>1, <2>2 DEF InitUndone
  <2>5. run.at = 2 => "init" \notin recorded
    BY <2>2
  <2> QED
    BY <1>1, <2>1, <2>3, <2>4, <2>5
       DEF RunFits, InitUndone, At, Forwards, Rollbacks, Saga!Waiting
<1>3. CASE run.pc # "waitForward"
  <2>1. /\ run'.pc = "stopped" /\ run'.at = 1 /\ run'.inited = FALSE
        /\ run' \in [pc : {"stopped"} \cup Forwards \cup Rollbacks, at : 0 .. Saga!Steps + 1,
                     inited : BOOLEAN]
    BY <1>1, <1>3, SagaConstants DEF Saga!Errs, Saga!Stopped
  <2> QED
    BY <2>1 DEF RunFits, At, Forwards, Rollbacks, Saga!Waiting
<1> QED
  BY <1>2, <1>3

\* The run is over, in whichever way.
LEMMA RunStops ==
  ASSUME run' = Saga!Stopped
  PROVE  /\ RunFits' /\ ~ Saga!Waiting' /\ At({"stopped"})'
         /\ run' \in [pc : {"stopped"} \cup Forwards \cup Rollbacks, at : 0 .. Saga!Steps + 1,
                      inited : BOOLEAN]
<1>1. /\ run'.pc = "stopped" /\ run'.at = 1 /\ run'.inited = FALSE
      /\ run' \in [pc : {"stopped"} \cup Forwards \cup Rollbacks, at : 0 .. Saga!Steps + 1,
                   inited : BOOLEAN]
  BY SagaConstants DEF Saga!Stopped
<1> QED
  BY <1>1 DEF RunFits, At, Forwards, Rollbacks, Saga!Waiting

LEMMA RunReplays ==
  ASSUME SagaInv, Saga!Replay
  PROVE  SagaInv'
<1>1. /\ UNCHANGED <<product, stocked, branch, calls, recorded, outcome, runs, causes>>
      /\ run.pc \in {"forward", "rollback"} /\ run.at \in 1 .. Saga!Steps
      /\ Saga!Op \in recorded /\ recorded' = recorded \cup {Saga!Op}
      /\ run' = IF run.pc = "forward" THEN Saga!After(run) ELSE Saga!Before(run)
      /\ ~ Saga!Waiting
  BY DEF Saga!Replay, Saga!services, Saga!Waiting
<1>2. /\ RunFits' /\ ~ Saga!Waiting'
      /\ run' \in [pc : {"stopped"} \cup Forwards \cup Rollbacks, at : 0 .. Saga!Steps + 1,
                   inited : BOOLEAN]
  BY <1>1, RunAdvances, RunRetreats DEF At, Forwards, Rollbacks
<1>3. OutcomeFits'
  BY <1>1, UnderWayIsOpen DEF OutcomeFits, At, Forwards, Rollbacks
<1>4. CallsFit' /\ RecordedFits' /\ RowsFit'
  BY <1>1, <1>2, RunGoesOn
<1> QED
  BY <1>1, <1>2, <1>3, <1>4, RunStep DEF SagaInv, Saga!TypeOK

(* A rollback of the stock is skipped only by a run that did not see it initialised: what
   is there was left by a call nobody waits for. *)
LEMMA RunSkips ==
  ASSUME SagaInv, Saga!Skip
  PROVE  SagaInv'
<1>1. /\ UNCHANGED <<product, stocked, branch, calls, outcome, runs, causes>>
      /\ run.pc = "rollback" /\ run.at \in 1 .. Saga!Steps
      /\ Saga!Op = "uninit" /\ ~ run.inited /\ recorded' = recorded \cup {Saga!Op}
      /\ run' = Saga!Before(run)
      /\ ~ Saga!Waiting
  BY DEF Saga!Skip, Saga!services, Saga!Skipped, Saga!Waiting
<1>2. /\ RunFits' /\ ~ Saga!Waiting'
      /\ run' \in [pc : {"stopped"} \cup Forwards \cup Rollbacks, at : 0 .. Saga!Steps + 1,
                   inited : BOOLEAN]
  BY <1>1, RunRetreats DEF At, Rollbacks
<1>3. OutcomeFits'
  BY <1>1, UnderWayIsOpen DEF OutcomeFits, At, Forwards, Rollbacks
<1>4. run.at = 2
  <2>1. Saga!TypeOK
    BY DEF SagaInv
  <2>2. run.at \in {1, 2, 3}
    BY <1>1, <2>1, SagaTyped
  <2> QED
    BY <1>1, <2>2, OpAt DEF At, Rollbacks
<1>5. "init" \notin recorded
  BY <1>1, <1>4 DEF SagaInv, RunFits, At, Rollbacks
<1>6. "init" \in branch => "init" \in causes
  BY <1>1, <1>5 DEF SagaInv, RecordedFits
<1>7. UnderWay("init") => "init" \in causes
  BY <1>1 DEF SagaInv, CallsFit, CallFits, UnderWay, Awaited
<1>8. InitExcused
  BY <1>5, <1>6, <1>7 DEF InitExcused
<1>9. CallsFit' /\ RecordedFits' /\ RowsFit'
  BY <1>1, <1>2, <1>5, <1>8, RunGoesOn
<1>10. recorded' \in SUBSET Saga!Ops
  BY <1>1, SagaConstants DEF SagaInv, Saga!TypeOK
<1> QED
  BY <1>1, <1>2, <1>3, <1>9, <1>10, RunStep DEF SagaInv, Saga!TypeOK

LEMMA RunSucceeds ==
  ASSUME SagaInv, Saga!Succeeded
  PROVE  SagaInv'
<1>1. /\ UNCHANGED <<product, stocked, branch, calls, outcome, runs, causes>>
      /\ Saga!Waiting /\ calls[Len(calls)].pc = "ok" /\ recorded' = recorded \cup {Saga!Op}
      /\ run' = IF run.pc = "waitForward" THEN Saga!After(run) ELSE Saga!Before(run)
      /\ run.pc \in {"waitForward", "waitRollback"}
  BY DEF Saga!Succeeded, Saga!services, Saga!Waiting, Saga!Current
<1>2. /\ run.at \in 1 .. Saga!Steps /\ calls # << >> /\ calls[Len(calls)].op = Saga!Op
      /\ calls \in Seq(SagaCall)
  BY <1>1 DEF SagaInv, RunFits
<1>3. Len(calls) \in DOMAIN calls
  BY <1>2
<1>4. /\ RunFits' /\ ~ Saga!Waiting'
      /\ run' \in [pc : {"stopped"} \cup Forwards \cup Rollbacks, at : 0 .. Saga!Steps + 1,
                   inited : BOOLEAN]
  BY <1>1, <1>2, RunAdvances, RunRetreats DEF At, Forwards, Rollbacks
<1>5. OutcomeFits'
  BY <1>1, UnderWayIsOpen DEF OutcomeFits, At, Forwards, Rollbacks
<1>6. Went(Saga!Op)
  BY <1>1, <1>2, <1>3 DEF Went
<1>7. "init" \in recorded' \ recorded /\ "uninit" \in recorded' => "rerun" \in causes
  <2> SUFFICES ASSUME "init" \in recorded' \ recorded, "uninit" \in recorded'
               PROVE  "rerun" \in causes
    OBVIOUS
  <2>1. Saga!Op = "init" /\ "uninit" \in recorded
    BY <1>1
  <2>2. Saga!RollbackBegun
    BY <2>1, SagaConstants DEF Saga!RollbackBegun
  <2>3. run.pc = "waitForward"
    BY <1>1, <1>2, <2>1, OpsDiffer DEF At, Forwards, Rollbacks
  <2> QED
    BY <2>2, <2>3 DEF SagaInv, RunFits, At, Forwards
<1>8. CallEnded(Len(calls))
  BY <1>1 DEF CallEnded
<1>9. (Saga!Waiting /\ calls[Len(calls)].op = "init" /\ calls[Len(calls)].pc = "ok") =>
         "init" \in recorded' \cup causes'
  BY <1>1, <1>2
<1>10. CallsFit' /\ RecordedFits' /\ RowsFit'
  BY <1>1, <1>4, <1>6, <1>7, <1>8, <1>9, RunGoesOn
<1>11. recorded' \in SUBSET Saga!Ops
  BY <1>1, <1>2, OpsDiffer DEF SagaInv, Saga!TypeOK, At, Forwards, Rollbacks
<1> QED
  BY <1>1, <1>4, <1>5, <1>10, <1>11, RunStep DEF SagaInv, Saga!TypeOK

LEMMA RunFails ==
  ASSUME SagaInv, Saga!Failed
  PROVE  SagaInv'
<1>1. /\ UNCHANGED <<product, stocked, branch, calls, recorded, outcome, runs, causes>>
      /\ Saga!Waiting /\ calls[Len(calls)].pc = "error" /\ Saga!Errs
      /\ run.pc \in {"waitForward", "waitRollback"}
  BY DEF Saga!Failed, Saga!services, Saga!Waiting, Saga!Current
<1>2. /\ RunFits' /\ ~ Saga!Waiting'
      /\ run' \in [pc : {"stopped"} \cup Forwards \cup Rollbacks, at : 0 .. Saga!Steps + 1,
                   inited : BOOLEAN]
  BY <1>1, RunErrs
<1>3. OutcomeFits'
  BY <1>1, UnderWayIsOpen DEF OutcomeFits, At, Forwards, Rollbacks
<1>4. CallEnded(Len(calls))
  BY <1>1 DEF CallEnded
<1>5. CallsFit' /\ RecordedFits' /\ RowsFit'
  BY <1>1, <1>2, <1>4, RunGoesOn
<1> QED
  BY <1>1, <1>2, <1>3, <1>5, RunStep DEF SagaInv, Saga!TypeOK

LEMMA RunSubmits ==
  ASSUME SagaInv, Saga!Submit
  PROVE  SagaInv'
<1>1. /\ UNCHANGED <<product, stocked, branch, calls, recorded, runs, causes>>
      /\ run' = Saga!Stopped /\ ~ Saga!Waiting
      /\ \/ run.pc = "forward" /\ run.at > Saga!Steps /\ outcome' = "succeeded"
         \/ run.pc = "rollback" /\ run.at = 0 /\ outcome' = "failed"
  BY DEF Saga!Submit, Saga!services, Saga!Waiting
<1>2. /\ RunFits' /\ ~ Saga!Waiting' /\ At({"stopped"})'
      /\ run' \in [pc : {"stopped"} \cup Forwards \cup Rollbacks, at : 0 .. Saga!Steps + 1,
                   inited : BOOLEAN]
  BY <1>1, RunStops
<1>3. Saga!RollbackBegun' <=> Saga!RollbackBegun
  BY <1>1 DEF Saga!RollbackBegun
<1>4. OutcomeFits'
  <2>0. Saga!TypeOK
    BY DEF SagaInv
  <2>1. CASE run.pc = "forward"
    <3>1. run.at \in Nat /\ run.at > Saga!Steps
      BY <1>1, <2>0, <2>1, SagaTyped
    <3>2. AllDone(run.at - 1) /\ (Saga!RollbackBegun => "rerun" \in causes)
      BY <2>1 DEF SagaInv, RunFits, At, Forwards
    <3>3. AllDone(3)
      BY <3>1, <3>2, SagaConstants DEF AllDone
    <3>4. AllDone(3)'
      BY <1>1, <3>3 DEF AllDone
    <3> QED
      BY <1>1, <1>2, <1>3, <2>1, <3>2, <3>4 DEF OutcomeFits
  <2>2. CASE run.pc = "rollback"
    <3>1. "uncreate" \in recorded /\ InitUndone
      BY <1>1, <2>2 DEF SagaInv, RunFits, At, Rollbacks
    <3> QED
      BY <1>1, <1>2, <2>2, <3>1 DEF OutcomeFits, InitUndone
  <2> QED
    BY <1>1, <2>1, <2>2
<1>5. CallsFit' /\ RecordedFits' /\ RowsFit'
  BY <1>1, <1>2, RunGoesOn
<1> QED
  BY <1>1, <1>2, <1>4, <1>5, RunStep DEF SagaInv, Saga!TypeOK

\* Nobody waits for the call any more: it is noted, unless it has ended.
LEMMA RunCrashes ==
  ASSUME SagaInv, Saga!Crash
  PROVE  SagaInv'
<1>1. /\ UNCHANGED <<product, stocked, branch, calls, recorded, outcome, runs>>
      /\ run' = Saga!Stopped
      /\ causes' = IF Saga!Waiting THEN causes \cup {Saga!Op} ELSE causes
  BY DEF Saga!Crash, Saga!services
<1>2. /\ RunFits' /\ ~ Saga!Waiting' /\ At({"stopped"})'
      /\ run' \in [pc : {"stopped"} \cup Forwards \cup Rollbacks, at : 0 .. Saga!Steps + 1,
                   inited : BOOLEAN]
  BY <1>1, RunStops
<1>3. OutcomeFits'
  BY <1>1, <1>2 DEF SagaInv, OutcomeFits, InitUndone, AllDone, Saga!RollbackBegun
<1>4. Saga!Waiting => calls[Len(calls)].op = Saga!Op /\ Saga!Op \in Saga!Ops
  BY OpsDiffer DEF SagaInv, RunFits, Saga!Waiting, At, Forwards, Rollbacks
<1>5. CallsFit' /\ RecordedFits' /\ RowsFit'
  BY <1>1, <1>2, <1>4, RunGoesOn
<1>6. causes' \in SUBSET (Saga!Ops \cup {"rerun"})
  BY <1>1, <1>4 DEF SagaInv, Saga!TypeOK
<1> QED
  BY <1>1, <1>2, <1>3, <1>5, <1>6, RunStep DEF SagaInv, Saga!TypeOK

\* The call is refused, or nobody hears of its answer.
LEMMA RunIsUnanswered ==
  ASSUME SagaInv, NEW fault \in {"refused", "lost", "late"}, Saga!Unanswered(fault)
  PROVE  SagaInv'
<1>1. /\ UNCHANGED <<product, stocked, branch, recorded, outcome, runs>>
      /\ Saga!Waiting /\ Saga!Errs /\ run.pc \in {"waitForward", "waitRollback"}
      /\ causes' = IF fault = "refused" THEN causes ELSE causes \cup {Saga!Op}
  BY DEF Saga!Unanswered, Saga!services, Saga!Waiting
<1>2. /\ run.at \in 1 .. Saga!Steps /\ calls # << >> /\ calls[Len(calls)].op = Saga!Op
      /\ calls \in Seq(SagaCall)
  BY <1>1 DEF SagaInv, RunFits
<1>3. Len(calls) \in DOMAIN calls
  BY <1>2
<1>4. /\ RunFits' /\ ~ Saga!Waiting'
      /\ run' \in [pc : {"stopped"} \cup Forwards \cup Rollbacks, at : 0 .. Saga!Steps + 1,
                   inited : BOOLEAN]
  BY <1>1, RunErrs
<1>5. OutcomeFits'
  BY <1>1, UnderWayIsOpen DEF OutcomeFits, At, Forwards, Rollbacks
<1>6. Saga!Op \in Saga!Ops
  BY <1>1, <1>2, OpsDiffer DEF At, Forwards, Rollbacks
<1>7. causes' \in SUBSET (Saga!Ops \cup {"rerun"})
  BY <1>1, <1>6 DEF SagaInv, Saga!TypeOK
<1>8. CASE fault # "refused"
  <2>1. UNCHANGED calls
    BY <1>8 DEF Saga!Unanswered
  <2>2. CallsFit' /\ RecordedFits' /\ RowsFit'
    BY <1>1, <1>2, <1>4, <1>8, <2>1, RunGoesOn
  <2> QED
    BY <1>1, <1>4, <1>5, <1>7, <2>1, <2>2, RunStep DEF SagaInv, Saga!TypeOK
<1>9. CASE fault = "refused"
  <2> DEFINE n == Len(calls)
  <2>1. calls[n].pc = "check" /\ calls' = [calls EXCEPT ![n].pc = "error"] /\ UNCHANGED causes
    BY <1>1, <1>9 DEF Saga!Unanswered, Saga!Current
  <2>2. PICK x \in SagaCall : /\ x = [calls[n] EXCEPT !.pc = "error"]
                              /\ x.op = calls[n].op /\ x.pc = "error"
    BY <1>2, <1>3, CallFields
  <2>3. calls' = [calls EXCEPT ![n] = x]
    BY <2>1, <2>2
  <2>4. /\ calls' \in Seq(SagaCall) /\ DOMAIN calls' = DOMAIN calls
        /\ calls'[n] = x /\ \A j \in DOMAIN calls : j # n => calls'[j] = calls[j]
    BY <1>2, <1>3, <2>3, CallChanges
  <2>5. /\ \A op : Called(op)' <=> Called(op)
        /\ \A op : UnderWay(op)' => UnderWay(op)
        /\ \A op : Went(op)' <=> Went(op)
    BY <1>3, <2>1, <2>2, <2>4 DEF Called, UnderWay, Went, CallEnded
  <2>6. CallsFit'
    <3> SUFFICES ASSUME NEW k \in DOMAIN calls
                 PROVE  CallFits(k)'
      BY <2>4 DEF CallsFit
    <3>1. CallFits(k)
      BY DEF SagaInv, CallsFit
    <3>2. CASE k = n
      BY <2>2, <2>4, <3>1, <3>2, <1>1 DEF CallFits, CallEnded
    <3>3. CASE k # n
      BY <1>1, <2>1, <2>4, <3>1, <3>3 DEF CallFits, CallEnded, Awaited
    <3> QED
      BY <3>2, <3>3
  <2>7. RecordedFits'
    BY <1>1, <2>1, <2>5 DEF SagaInv, RecordedFits, InitExcused
  <2>8. RowsFit'
    BY <1>1, <2>1, <2>5 DEF SagaInv, RowsFit
  <2>9. Saga!TypeOK'
    <3>1. Saga!Steps' = Saga!Steps
      BY DEF Saga!Steps
    <3>2. \A k \in DOMAIN calls' : calls'[k] \in SagaCall
      BY <2>4
    <3> QED
      BY <1>1, <1>4, <1>7, <3>1, <3>2
         DEF SagaInv, Saga!TypeOK, SagaCall, Forwards, Rollbacks
  <2> QED
    BY <1>4, <1>5, <2>4, <2>6, <2>7, <2>8, <2>9 DEF SagaInv
<1> QED
  BY <1>8, <1>9

(* A call is made: one of a forward step after a rollback has begun belongs to a run that
   was started again. *)
LEMMA RunSends ==
  ASSUME SagaInv, NEW pc \in {"waitForward", "waitRollback"}, Saga!Send(pc),
         run.pc = IF pc = "waitForward" THEN "forward" ELSE "rollback"
  PROVE  SagaInv'
<1> DEFINE n == Len(calls')
<1>0. Saga!TypeOK /\ calls \in Seq(SagaCall)
  BY DEF SagaInv
<1>1. /\ UNCHANGED <<product, stocked, branch, recorded, outcome, runs, causes>>
      /\ run.at \in 1 .. Saga!Steps /\ Saga!Op \notin recorded /\ ~ Saga!Waiting
      /\ ~ (run.pc = "rollback" /\ Saga!Op = "uninit" /\ ~ run.inited)
      /\ calls' = Append(calls, [op |-> Saga!Op, pc |-> "check", found |-> FALSE])
      /\ run' = [run EXCEPT !.pc = pc]
  BY DEF Saga!Send, Saga!services, Saga!Skipped, Saga!Waiting
<1>2. /\ Saga!Op \in Saga!Ops
      /\ At(Forwards) => Saga!Op \in {"create", "init", "publish"}
      /\ At(Rollbacks) => Saga!Op \in {"uncreate", "uninit", "unpublish"}
      /\ At(Forwards) \/ At(Rollbacks)
      /\ At(Forwards) <=> pc = "waitForward"
  BY <1>1, OpsDiffer DEF At, Forwards, Rollbacks
<1>3. PICK x \in SagaCall : /\ calls' = Append(calls, x) /\ x.op = Saga!Op
                            /\ x.pc = "check" /\ x.found = FALSE
  <2> DEFINE sent == [op |-> Saga!Op, pc |-> "check", found |-> FALSE]
  <2>1. sent \in SagaCall
    BY <1>2 DEF SagaCall
  <2>2. sent.op = Saga!Op /\ sent.pc = "check" /\ sent.found = FALSE
    OBVIOUS
  <2>3. calls' = Append(calls, sent)
    BY <1>1
  <2> HIDE DEF sent
  <2> QED
    BY <2>1, <2>2, <2>3
<1>4. /\ calls' \in Seq(SagaCall) /\ calls' # << >>
      /\ DOMAIN calls' = DOMAIN calls \cup {n} /\ n \notin DOMAIN calls
      /\ calls'[n] = x /\ \A j \in DOMAIN calls : calls'[j] = calls[j]
  BY <1>0, <1>3, CallSent
<1>5. /\ run \in [pc : {"stopped"} \cup Forwards \cup Rollbacks, at : 0 .. Saga!Steps + 1,
                  inited : BOOLEAN]
      /\ run.at \in {1, 2, 3} /\ (run.at = 3 => TargetOnline)
  BY <1>0, <1>1, SagaTyped
<1>6. /\ run'.pc = pc /\ run'.at = run.at /\ run'.inited = run.inited
      /\ run' \in [pc : {"stopped"} \cup Forwards \cup Rollbacks, at : 0 .. Saga!Steps + 1,
                   inited : BOOLEAN]
  BY <1>1, <1>5 DEF Forwards, Rollbacks
<1>7. /\ At(Forwards)' <=> At(Forwards)
      /\ At(Rollbacks)' <=> At(Rollbacks)
      /\ Saga!Op' = Saga!Op /\ Saga!Waiting' /\ ~ At({"stopped"}) /\ ~ At({"stopped"})'
  BY <1>6 DEF At, Forwards, Rollbacks, Saga!Op, Saga!Waiting
<1>8. At(Forwards) => (Saga!RollbackBegun' <=> Saga!RollbackBegun)
  BY <1>1, <1>2, <1>3, <1>4, SagaConstants DEF Saga!RollbackBegun
<1>9. RunFits'
  <2>1. RunFits
    BY DEF SagaInv
  <2>2. Saga!Waiting' => calls' # << >> /\ run'.at \in 1 .. Saga!Steps /\ calls'[n].op = Saga!Op'
    BY <1>1, <1>3, <1>4, <1>6, <1>7
  <2>3. Saga!Steps' = Saga!Steps
    BY DEF Saga!Steps
  <2> QED
    BY <1>1, <1>6, <1>7, <1>8, <2>1, <2>2, <2>3
       DEF RunFits, InitUndone, AllDone
<1>10. OutcomeFits'
  BY <1>1, <1>7 DEF SagaInv, OutcomeFits
<1>11. /\ \A op : Called(op)' <=> Called(op) \/ op = Saga!Op
       /\ \A op : UnderWay(op)' <=> UnderWay(op) \/ op = Saga!Op
       /\ \A op : Went(op)' <=> Went(op)
  BY <1>3, <1>4 DEF Called, UnderWay, Went, CallEnded
<1>12. \A op \in {"create", "init"} : UnderWay(op) => op \in causes
  BY <1>1 DEF SagaInv, CallsFit, CallFits, UnderWay, Awaited
<1>13. CallsFit'
  <2> SUFFICES ASSUME NEW k \in DOMAIN calls'
               PROVE  CallFits(k)'
    BY DEF CallsFit
  <2>1. CASE k = n
    <3>1. Saga!Op = "init" => "create" \in recorded
      BY <1>2, <1>5, OpAt DEF SagaInv, RunFits, AllDone
    <3>2. Saga!Op = "uninit" => "init" \in recorded
      BY <1>1, <1>2, <1>5 DEF SagaInv, RunFits, At, Rollbacks
    <3>3. Saga!Op = "publish" => TargetOnline
      BY <1>2, <1>5, OpAt
    <3>4. Awaited(k)'
      BY <1>7, <2>1 DEF Awaited
    <3> QED
      BY <1>1, <1>3, <1>4, <2>1, <3>1, <3>2, <3>3, <3>4 DEF CallFits
  <2>2. CASE k # n
    <3>1. k \in DOMAIN calls /\ calls'[k] = calls[k] /\ CallFits(k)
      BY <1>4, <2>2 DEF SagaInv, CallsFit
    <3>2. calls[k].op \in {"create", "init"} /\ ~ CallEnded(k) => calls[k].op \in causes
      BY <1>1, <3>1 DEF CallFits, Awaited
    <3> QED
      BY <1>1, <3>1, <3>2 DEF CallFits, CallEnded
  <2> QED
    BY <2>1, <2>2
<1>14. Saga!RollbackBegun /\ At(Forwards) => "rerun" \in causes
  BY DEF SagaInv, RunFits
<1>15. RecordedFits'
  <2>1. "init" \in branch => "init" \in recorded \cup causes
    BY <1>1 DEF SagaInv, RecordedFits
  <2>2. "uninit" \in recorded => "uninit" \in branch \/ InitExcused'
    <3>1. "uninit" \in recorded /\ Saga!Op = "init" => "rerun" \in causes
      BY <1>2, <1>14, SagaConstants DEF Saga!RollbackBegun
    <3> QED
      BY <1>1, <1>11, <3>1 DEF SagaInv, RecordedFits, InitExcused
  <2> QED
    BY <1>1, <1>11, <2>1, <2>2 DEF SagaInv, RecordedFits
<1>16. RowsFit'
  <2>1. Called("uncreate")' /\ UnderWay("create")' => causes \cap {"create", "rerun"} # {}
    <3>1. CASE Saga!Op = "create"
      <4>1. Called("uncreate") => Saga!RollbackBegun
        BY SagaConstants DEF Called, Saga!RollbackBegun
      <4> QED
        BY <1>2, <1>11, <1>14, <3>1, <4>1
    <3>2. CASE Saga!Op # "create"
      BY <1>11, <1>12, <3>2
    <3> QED
      BY <3>1, <3>2
  <2> QED
    BY <1>1, <1>11, <2>1 DEF SagaInv, RowsFit
<1>17. Saga!TypeOK'
  <2>1. Saga!Steps' = Saga!Steps
    BY DEF Saga!Steps
  <2>2. calls' \in Seq(SagaCall)
    BY <1>4
  <2>3. \A k \in DOMAIN calls' : calls'[k] \in SagaCall
    BY <2>2
  <2> QED
    BY <2>3, <1>0, <1>1, <1>6, <2>1, <2>2 DEF Saga!TypeOK, SagaCall, Forwards, Rollbacks
<1> QED
  BY <1>4, <1>9, <1>10, <1>13, <1>15, <1>16, <1>17 DEF SagaInv

(* The services: a call that has not ended goes on.  Its run, and what DTM has, stay. *)
ServesOn(k, x) ==
  /\ k \in DOMAIN calls /\ x \in SagaCall /\ x.op = calls[k].op /\ ~ CallEnded(k)
  /\ calls' = [calls EXCEPT ![k] = x]
  /\ UNCHANGED <<recorded, outcome, run, runs, causes>>

LEMMA ServedCall ==
  ASSUME SagaInv, NEW k, NEW x, ServesOn(k, x)
  PROVE  /\ calls' \in Seq(SagaCall) /\ DOMAIN calls' = DOMAIN calls /\ Len(calls') = Len(calls)
         /\ calls' # << >> /\ calls # << >>
         /\ calls'[k] = x /\ \A j \in DOMAIN calls : j # k => calls'[j] = calls[j]
         /\ \A j \in DOMAIN calls : calls'[j].op = calls[j].op
         /\ Called(x.op) /\ UnderWay(x.op)
         /\ \A op : Called(op)' <=> Called(op)
         /\ \A op : UnderWay(op)' => UnderWay(op)
         /\ \A op : Went(op)' <=> Went(op) \/ (op = x.op /\ x.pc = "ok")
         /\ \A j : Awaited(j)' <=> Awaited(j)
<1>1. calls \in Seq(SagaCall) /\ k \in DOMAIN calls /\ x \in SagaCall /\ x.op = calls[k].op
      /\ calls' = [calls EXCEPT ![k] = x] /\ ~ CallEnded(k) /\ UNCHANGED run
  BY DEF SagaInv, ServesOn
<1>2. /\ calls' \in Seq(SagaCall) /\ DOMAIN calls' = DOMAIN calls /\ Len(calls') = Len(calls)
      /\ calls' # << >> /\ calls # << >>
      /\ calls'[k] = x /\ \A j \in DOMAIN calls : j # k => calls'[j] = calls[j]
  BY <1>1, CallChanges
<1>3. \A j \in DOMAIN calls : calls'[j].op = calls[j].op
  BY <1>1, <1>2
<1>4. calls[k].pc # "ok" /\ calls[k].pc # "error"
  BY <1>1 DEF CallEnded
<1>5. Called(x.op) /\ UnderWay(x.op)
  BY <1>1 DEF Called, UnderWay
<1>6. \A op : Called(op)' <=> Called(op)
  BY <1>2, <1>3 DEF Called
<1>7. \A op : UnderWay(op)' => UnderWay(op)
  <2> TAKE op
  <2> SUFFICES ASSUME NEW j \in DOMAIN calls, calls'[j].op = op,
                      calls'[j].pc \notin {"ok", "error"}
               PROVE  UnderWay(op)
    BY <1>2 DEF UnderWay, CallEnded
  <2> QED
    BY <1>1, <1>2 DEF UnderWay, CallEnded
<1>8. \A op : Went(op)' <=> Went(op) \/ (op = x.op /\ x.pc = "ok")
  <2> TAKE op
  <2>1. ASSUME Went(op)'  PROVE Went(op) \/ (op = x.op /\ x.pc = "ok")
    BY <1>2, <2>1 DEF Went
  <2>2. ASSUME Went(op)  PROVE Went(op)'
    BY <1>2, <1>4, <2>2 DEF Went
  <2>3. ASSUME op = x.op, x.pc = "ok"  PROVE Went(op)'
    BY <1>1, <1>2, <2>3 DEF Went
  <2> QED
    BY <2>1, <2>2, <2>3
<1>9. \A j : Awaited(j)' <=> Awaited(j)
  BY <1>1, <1>2 DEF Awaited, Saga!Waiting
<1> QED
  BY <1>2, <1>3, <1>5, <1>6, <1>7, <1>8, <1>9

LEMMA ServedRun ==
  ASSUME SagaInv, NEW k, NEW x, ServesOn(k, x)
  PROVE  RunFits' /\ OutcomeFits'
<1>1. UNCHANGED <<recorded, outcome, run, runs, causes>>
  BY DEF ServesOn
<1>2. /\ DOMAIN calls' = DOMAIN calls /\ Len(calls') = Len(calls) /\ calls' # << >>
      /\ \A j \in DOMAIN calls : calls'[j].op = calls[j].op
  BY ServedCall
<1>3. Saga!RollbackBegun' <=> Saga!RollbackBegun
  BY <1>1, <1>2 DEF Saga!RollbackBegun
<1>4. /\ Saga!Waiting' <=> Saga!Waiting
      /\ Saga!Op' = Saga!Op /\ Saga!Steps' = Saga!Steps
  BY <1>1 DEF Saga!Waiting, Saga!Op, Saga!Steps
<1>5. Saga!Waiting => calls'[Len(calls')].op = calls[Len(calls)].op
  <2>1. Saga!Waiting => calls # << >> /\ calls \in Seq(SagaCall)
    BY DEF SagaInv, RunFits
  <2>2. Saga!Waiting => Len(calls) \in DOMAIN calls
    BY <2>1
  <2> QED
    BY <1>2, <2>2
<1>6. RunFits'
  BY <1>1, <1>2, <1>3, <1>4, <1>5 DEF SagaInv, RunFits, InitUndone, AllDone, At
<1>7. OutcomeFits'
  BY <1>1, <1>3 DEF SagaInv, OutcomeFits, InitUndone, AllDone, At
<1> QED
  BY <1>6, <1>7

\* What is left to show of a step of the services: the call that moved, and the rows.
LEMMA ServedStep ==
  ASSUME SagaInv, NEW k, NEW x, ServesOn(k, x),
         product' \in {"none", "offline", "online"}, stocked' \in BOOLEAN,
         branch' \subseteq {"create", "init", "uncreate", "uninit"},
         branch \subseteq branch', branch' \subseteq branch \cup {x.op},
         x.op \notin branch /\ x.op \in branch' => x.pc = "ok",
         CallFits(k)', RowsFit'
  PROVE  SagaInv'
<1>1. UNCHANGED <<recorded, outcome, run, runs, causes>>
      /\ k \in DOMAIN calls /\ x.op = calls[k].op /\ ~ CallEnded(k)
  BY DEF ServesOn
<1>2. /\ calls' \in Seq(SagaCall) /\ DOMAIN calls' = DOMAIN calls /\ Len(calls') = Len(calls)
      /\ calls'[k] = x /\ \A j \in DOMAIN calls : j # k => calls'[j] = calls[j]
      /\ Called(x.op) /\ UnderWay(x.op)
      /\ \A op : Called(op)' <=> Called(op)
      /\ \A op : UnderWay(op)' => UnderWay(op)
      /\ \A op : Went(op) => Went(op)'
      /\ \A j : Awaited(j)' <=> Awaited(j)
  BY ServedCall
<1>3. CallsFit'
  <2> SUFFICES ASSUME NEW j \in DOMAIN calls, j # k
               PROVE  CallFits(j)'
    BY <1>2 DEF CallsFit
  <2>1. CallFits(j) /\ calls'[j] = calls[j]
    BY <1>2 DEF SagaInv, CallsFit
  <2>2. calls[j].op = "uncreate" => Called("uncreate")
    BY DEF Called
  <2>3. ASSUME calls[j].op = "uncreate", "create" \in branch', "create" \notin branch
        PROVE  causes \cap {"create", "rerun"} # {}
    BY <1>2, <2>2, <2>3 DEF SagaInv, RowsFit
  <2> QED
    BY <1>1, <1>2, <2>1, <2>3 DEF CallFits, CallEnded
<1>4. RecordedFits'
  <2>1. \A op \in branch' : Called(op)'
    BY <1>2 DEF SagaInv, RecordedFits
  <2>2. "init" \in branch' =>
          \/ "init" \in recorded' \cup causes'
          \/ Saga!Waiting' /\ calls'[Len(calls')].op = "init" /\ calls'[Len(calls')].pc = "ok"
    <3> SUFFICES ASSUME "init" \in branch', "init" \notin recorded \cup causes
                 PROVE  Saga!Waiting' /\ calls'[Len(calls')].op = "init"
                        /\ calls'[Len(calls')].pc = "ok"
      BY <1>1
    <3>1. Saga!Waiting' <=> Saga!Waiting
      BY <1>1 DEF Saga!Waiting
    <3>2. CASE "init" \in branch
      <4>1. Saga!Waiting /\ calls[Len(calls)].op = "init" /\ calls[Len(calls)].pc = "ok"
        BY <3>2 DEF SagaInv, RecordedFits
      <4>2. calls # << >> /\ calls \in Seq(SagaCall)
        BY <4>1 DEF SagaInv, RunFits
      <4>3. Len(calls) \in DOMAIN calls
        BY <4>2
      <4>4. Len(calls) # k
        BY <1>1, <4>1 DEF CallEnded
      <4> QED
        BY <1>2, <3>1, <4>1, <4>3, <4>4
    <3>3. CASE "init" \notin branch
      <4>1. x.op = "init" /\ x.pc = "ok"
        BY <3>3
      <4>2. Awaited(k)
        BY <1>1, <4>1 DEF SagaInv, CallsFit, CallFits
      <4> QED
        BY <1>2, <3>1, <4>1, <4>2 DEF Awaited
    <3> QED
      BY <3>2, <3>3
  <2>3. InitExcused => InitExcused'
    BY <1>1, <1>2 DEF InitExcused
  <2> QED
    BY <1>1, <1>2, <2>1, <2>2, <2>3 DEF SagaInv, RecordedFits
<1>5. Saga!TypeOK'
  <2>1. Saga!Steps' = Saga!Steps
    BY DEF Saga!Steps
  <2>2. \A j \in DOMAIN calls' : calls'[j] \in SagaCall
    <3>1. calls' \in Seq(SagaCall)
      BY <1>2
    <3> QED
      BY <3>1
  <2> QED
    BY <1>1, <2>1, <2>2 DEF SagaInv, Saga!TypeOK, SagaCall
<1>6. RunFits' /\ OutcomeFits'
  BY ServedRun
<1> QED
  BY <1>2, <1>3, <1>4, <1>5, <1>6 DEF SagaInv

\* Without an effect on the rows.
LEMMA ServedInVain ==
  ASSUME SagaInv, NEW k, NEW x, ServesOn(k, x), UNCHANGED <<product, stocked, branch>>,
         ~ (x.op = "publish" /\ x.pc = "ok"), CallFits(k)'
  PROVE  SagaInv'
<1>1. /\ \A op : Called(op)' <=> Called(op)
      /\ \A op : UnderWay(op)' => UnderWay(op)
      /\ Went("publish")' <=> Went("publish")
  BY ServedCall
<1>2. RowsFit'
  BY <1>1 DEF SagaInv, RowsFit, ServesOn
<1>3. /\ product' \in {"none", "offline", "online"} /\ stocked' \in BOOLEAN
      /\ branch' \subseteq {"create", "init", "uncreate", "uninit"}
  BY DEF SagaInv, Saga!TypeOK
<1> QED
  BY <1>2, <1>3, ServedStep

LEMMA CheckServes ==
  ASSUME SagaInv, NEW k \in DOMAIN calls, Saga!CheckCompensated(k),
         UNCHANGED <<recorded, outcome, run, runs, causes>>
  PROVE  SagaInv'
<1> DEFINE op == calls[k].op
<1>1. /\ calls[k].pc = "check" /\ op \in {"create", "init", "uncreate", "uninit"}
      /\ UNCHANGED <<product, stocked, branch>>
      /\ calls \in Seq(SagaCall)
  BY DEF Saga!CheckCompensated, Saga!services, SagaInv
<1>2. PICK pc \in {"ok", "seen", "error"} :
        calls' = [calls EXCEPT ![k].pc = pc] /\ (pc = "ok" => op \in branch)
  BY DEF Saga!CheckCompensated, Saga!Step, Saga!Compensation
<1>3. PICK x \in SagaCall : /\ x = [calls[k] EXCEPT !.pc = pc]
                            /\ x.op = op /\ x.pc = pc
  BY <1>1, CallFields
<1>4. ServesOn(k, x)
  BY <1>1, <1>2, <1>3 DEF ServesOn, CallEnded
<1>5. calls'[k] = x /\ (Awaited(k)' <=> Awaited(k))
  BY <1>4, ServedCall
<1>6. CallFits(k)'
  <2>1. CallFits(k)
    BY DEF SagaInv, CallsFit
  <2>2. op \in {"create", "init"} => Awaited(k) \/ op \in causes
    BY <1>1, <2>1 DEF CallFits, CallEnded
  <2>3. x.pc # "commit" /\ (x.pc = "ok" => op \in branch)
    BY <1>2, <1>3
  <2> QED
    BY <1>1, <1>3, <1>5, <2>1, <2>2, <2>3 DEF CallFits
<1> QED
  BY <1>1, <1>3, <1>4, <1>6, ServedInVain

LEMMA CheckForwardServes ==
  ASSUME SagaInv, NEW k \in DOMAIN calls, Saga!CheckForward(k),
         UNCHANGED <<recorded, outcome, run, runs, causes>>
  PROVE  SagaInv'
<1> DEFINE op == calls[k].op
<1>1. /\ calls[k].pc = "seen" /\ calls[k] \in SagaCall /\ calls \in Seq(SagaCall)
      /\ UNCHANGED <<product, stocked, branch>>
  BY DEF Saga!CheckForward, Saga!services, SagaInv
<1>2. CallFits(k) /\ op \in {"create", "init", "uncreate", "uninit"}
  <2>1. CallFits(k)
    BY DEF SagaInv, CallsFit
  <2> QED
    BY <1>1, <2>1, SagaConstants DEF CallFits, SagaCall
<1>3. CASE Saga!Compensation(op)
  <2>1. calls' = [calls EXCEPT ![k] = [calls[k] EXCEPT !.pc = "commit",
                                                       !.found = "create" \in branch]]
    BY <1>3 DEF Saga!CheckForward
  <2>2. PICK x \in SagaCall : /\ calls' = [calls EXCEPT ![k] = x] /\ x.op = op
                              /\ x.pc = "commit" /\ (x.found <=> "create" \in branch)
    <3> DEFINE found == "create" \in branch
               next1 == [calls[k] EXCEPT !.pc = "commit", !.found = found]
    <3>1. found \in BOOLEAN
      OBVIOUS
    <3> HIDE DEF found
    <3>2. next1 \in SagaCall /\ next1.op = op /\ next1.pc = "commit" /\ next1.found = found
      BY <1>1, <3>1 DEF SagaCall
    <3>3. calls' = [calls EXCEPT ![k] = next1]
      BY <2>1 DEF found
    <3> HIDE DEF next1
    <3> QED
      BY <3>2, <3>3 DEF found
  <2>3. ServesOn(k, x)
    BY <1>1, <2>2 DEF ServesOn, CallEnded
  <2>4. calls'[k] = x /\ (Awaited(k)' <=> Awaited(k))
    BY <2>3, ServedCall
  <2>5. CallFits(k)'
    BY <1>1, <1>2, <1>3, <2>2, <2>4 DEF CallFits, CallEnded, Saga!Compensation
  <2> QED
    BY <1>1, <1>2, <2>2, <2>3, <2>5, ServedInVain
<1>4. CASE ~ Saga!Compensation(op)
  <2>1. PICK pc \in {"ok", "commit", "error"} :
          calls' = [calls EXCEPT ![k].pc = pc] /\ (pc = "ok" => op \in branch)
    BY <1>4 DEF Saga!CheckForward
  <2>2. PICK x \in SagaCall : /\ x = [calls[k] EXCEPT !.pc = pc]
                              /\ x.op = op /\ x.pc = pc
    BY <1>1, CallFields
  <2>3. ServesOn(k, x)
    BY <1>1, <2>1, <2>2 DEF ServesOn, CallEnded
  <2>4. calls'[k] = x /\ (Awaited(k)' <=> Awaited(k))
    BY <2>3, ServedCall
  <2>5. CallFits(k)'
    <3>1. op \in {"create", "init"} => Awaited(k) \/ op \in causes
      BY <1>1, <1>2 DEF CallFits, CallEnded
    <3>2. op # "uncreate" /\ (x.pc = "ok" => op \in branch)
      BY <1>4, <2>1, <2>2 DEF Saga!Compensation
    <3> QED
      BY <1>1, <1>2, <2>2, <2>4, <3>1, <3>2 DEF CallFits
  <2> QED
    BY <1>1, <1>2, <2>2, <2>3, <2>5, ServedInVain
<1> QED
  BY <1>3, <1>4

(* The stock is initialised once, before its rollback: that is called only when DTM has the
   initialisation, whose row then refuses a second one. *)
LEMMA CommitServes ==
  ASSUME SagaInv, NEW k \in DOMAIN calls, Saga!Commit(k),
         UNCHANGED <<recorded, outcome, run, runs, causes>>
  PROVE  SagaInv'
<1> DEFINE op == calls[k].op
<1>1. calls[k].pc = "commit" /\ calls[k] \in SagaCall /\ calls \in Seq(SagaCall)
  BY DEF Saga!Commit, SagaInv
<1>2. CallFits(k) /\ op \in {"create", "init", "uncreate", "uninit"}
  <2>1. CallFits(k)
    BY DEF SagaInv, CallsFit
  <2> QED
    BY <1>1, <2>1, SagaConstants DEF CallFits, SagaCall
<1>3. CASE op \in branch \/ (op = "init" /\ stocked)
  <2>1. calls' = [calls EXCEPT ![k].pc = "error"] /\ UNCHANGED <<product, stocked, branch>>
    BY <1>3 DEF Saga!Commit, Saga!Step, Saga!services
  <2>2. PICK x \in SagaCall : /\ x = [calls[k] EXCEPT !.pc = "error"]
                              /\ x.op = op /\ x.pc = "error"
    BY <1>1, CallFields
  <2>3. ServesOn(k, x)
    BY <1>1, <2>1, <2>2 DEF ServesOn, CallEnded
  <2>4. calls'[k] = x
    BY <2>3, ServedCall
  <2>5. CallFits(k)'
    BY <1>2, <2>1, <2>2, <2>4 DEF CallFits, CallEnded
  <2> QED
    BY <2>1, <2>2, <2>3, <2>5, ServedInVain
<1>4. CASE ~ (op \in branch \/ (op = "init" /\ stocked))
  <2>1. /\ branch' = branch \cup {op} /\ op \notin branch
        /\ product' = CASE op = "create"                      -> "offline"
                        [] op = "uncreate" /\ calls[k].found  -> "none"
                        [] OTHER                              -> product
        /\ stocked' = CASE op = "init" -> TRUE [] op = "uninit" -> FALSE [] OTHER -> stocked
        /\ calls' = [calls EXCEPT ![k].pc = "ok"]
    BY <1>4 DEF Saga!Commit, Saga!Step
  <2>2. PICK x \in SagaCall : /\ x = [calls[k] EXCEPT !.pc = "ok"]
                              /\ x.op = op /\ x.pc = "ok"
    BY <1>1, CallFields
  <2>3. ServesOn(k, x)
    BY <1>1, <2>1, <2>2 DEF ServesOn, CallEnded
  <2>4. /\ calls'[k] = x /\ Called(op) /\ UnderWay(op)
        /\ \A o : Called(o)' <=> Called(o)
        /\ \A o : UnderWay(o)' => UnderWay(o)
        /\ Went("publish")' <=> Went("publish")
    BY <1>2, <2>2, <2>3, ServedCall
  <2>5. CallFits(k)'
    BY <1>2, <2>1, <2>2, <2>3, <2>4 DEF CallFits, CallEnded, ServesOn
  <2>6. RowsFit /\ UNCHANGED causes
    BY DEF SagaInv
  <2>7. \A o \in branch : Called(o)
    BY DEF SagaInv, RecordedFits
  <2>8. product' \in {"none", "offline", "online"} /\ stocked' \in BOOLEAN /\ RowsFit'
    <3>0. product \in {"none", "offline", "online"} /\ stocked \in BOOLEAN
      BY DEF SagaInv, Saga!TypeOK
    <3>1. CASE op = "create"
      <4>1. product' = "offline" /\ stocked' = stocked
        BY <2>1, <3>1
      <4>2. "uncreate" \in branch => causes \cap {"create", "rerun"} # {}
        BY <2>4, <2>6, <2>7, <3>1 DEF RowsFit
      <4>3. ~ Went("publish")
        BY <2>1, <2>6, <3>1 DEF RowsFit
      <4> QED
        BY <2>1, <2>4, <2>6, <3>0, <3>1, <4>1, <4>2, <4>3 DEF RowsFit
    <3>2. CASE op = "init"
      <4>1. product' = product /\ stocked' = TRUE
        BY <2>1, <3>2
      <4>2. "uninit" \notin branch
        <5> SUFFICES ASSUME "uninit" \in branch  PROVE FALSE
          OBVIOUS
        <5>1. PICK j \in DOMAIN calls : calls[j].op = "uninit"
          BY <2>7 DEF Called
        <5>2. "init" \in recorded
          BY <5>1 DEF SagaInv, CallsFit, CallFits
        <5> QED
          BY <2>1, <3>2, <5>2 DEF SagaInv, RecordedFits
      <4> QED
        BY <2>1, <2>4, <2>6, <3>0, <3>2, <4>1, <4>2 DEF RowsFit
    <3>3. CASE op = "uncreate"
      <4>1. stocked' = stocked
        BY <2>1, <3>3
      <4>2. CASE calls[k].found
        <5>1. product' = "none" /\ "create" \in branch
          BY <1>1, <1>2, <2>1, <3>3, <4>2 DEF CallFits
        <5> QED
          BY <2>1, <2>4, <2>6, <3>0, <3>3, <4>1, <5>1 DEF RowsFit
      <4>3. CASE ~ calls[k].found
        <5>1. product' = product
          BY <2>1, <3>3, <4>3
        <5>2. "create" \in branch => causes \cap {"create", "rerun"} # {}
          BY <1>1, <1>2, <3>3, <4>3 DEF CallFits
        <5> QED
          BY <2>1, <2>4, <2>6, <3>0, <3>3, <4>1, <5>1, <5>2 DEF RowsFit
      <4> QED
        BY <4>2, <4>3
    <3>4. CASE op = "uninit"
      <4>1. product' = product /\ stocked' = FALSE
        BY <2>1, <3>4
      <4> QED
        BY <2>1, <2>4, <2>6, <3>0, <3>4, <4>1 DEF RowsFit
    <3> QED
      BY <1>2, <3>1, <3>2, <3>3, <3>4
  <2>9. branch' \subseteq {"create", "init", "uncreate", "uninit"}
    BY <1>2, <2>1 DEF SagaInv, Saga!TypeOK
  <2> QED
    BY <2>1, <2>2, <2>3, <2>5, <2>8, <2>9, ServedStep
<1> QED
  BY <1>3, <1>4

LEMMA ChangeServes ==
  ASSUME SagaInv, NEW k \in DOMAIN calls, Saga!ChangeStatus(k),
         UNCHANGED <<recorded, outcome, run, runs, causes>>
  PROVE  SagaInv'
<1> DEFINE op == calls[k].op
<1>1. /\ calls[k].pc = "check" /\ op \in {"publish", "unpublish"}
      /\ calls \in Seq(SagaCall) /\ CallFits(k)
  BY DEF Saga!ChangeStatus, SagaInv, CallsFit
<1>2. PICK pc \in {"ok", "error"} :
        /\ calls' = [calls EXCEPT ![k].pc = pc] /\ UNCHANGED <<stocked, branch>>
        /\ IF pc = "error" THEN product' = product
           ELSE product # "none" /\ product' = (IF op = "publish" THEN "online" ELSE "offline")
  BY DEF Saga!ChangeStatus, Saga!Step, Saga!services
<1>3. PICK x \in SagaCall : /\ x = [calls[k] EXCEPT !.pc = pc]
                            /\ x.op = op /\ x.pc = pc
  BY <1>1, CallFields
<1>4. ServesOn(k, x)
  BY <1>1, <1>2, <1>3 DEF ServesOn, CallEnded
<1>5. /\ calls'[k] = x /\ Called(op)
      /\ \A o : Called(o)' <=> Called(o)
      /\ \A o : UnderWay(o)' => UnderWay(o)
  BY <1>3, <1>4, ServedCall
<1>6. CallFits(k)'
  BY <1>1, <1>2, <1>3, <1>5 DEF CallFits, CallEnded
<1>7. CASE pc = "error"
  BY <1>2, <1>3, <1>4, <1>6, <1>7, ServedInVain
<1>8. CASE pc = "ok"
  <2>1. RowsFit'
    BY <1>1, <1>2, <1>5, <1>8 DEF SagaInv, RowsFit
  <2>2. product' \in {"none", "offline", "online"} /\ stocked' \in BOOLEAN
        /\ branch' \subseteq {"create", "init", "uncreate", "uninit"}
    BY <1>2, <1>8 DEF SagaInv, Saga!TypeOK
  <2> QED
    BY <1>2, <1>3, <1>4, <1>6, <2>1, <2>2, ServedStep
<1> QED
  BY <1>7, <1>8

LEMMA SagaStarts ==
  ASSUME Saga!Init
  PROVE  SagaInv
<1>1. /\ product = "none" /\ stocked = FALSE /\ branch = {} /\ calls = << >> /\ recorded = {}
      /\ outcome = "open" /\ run = Saga!Stopped /\ runs = 0 /\ causes = {}
      /\ run.pc = "stopped" /\ run.at = 1 /\ run.inited = FALSE
  BY DEF Saga!Init, Saga!Stopped
<1>2. DOMAIN calls = {} /\ calls \in Seq(SagaCall)
  BY <1>1
<1>3. Saga!TypeOK
  <2>1. Saga!Stopped \in [pc : {"stopped", "forward", "waitForward", "rollback", "waitRollback"},
                          at : 0 .. Saga!Steps + 1, inited : BOOLEAN]
    BY SagaConstants DEF Saga!Stopped
  <2>2. runs \in 0 .. SagaRuns
    BY <1>1, SagaConstants
  <2> QED
    BY <1>1, <1>2, <2>1, <2>2 DEF Saga!TypeOK
<1>4. RunFits /\ OutcomeFits
  BY <1>1 DEF RunFits, OutcomeFits, At, Forwards, Rollbacks, Saga!Waiting
<1>5. CallsFit /\ RecordedFits /\ RowsFit
  BY <1>1, <1>2 DEF CallsFit, RecordedFits, RowsFit, Called, UnderWay, Went
<1> QED
  BY <1>2, <1>3, <1>4, <1>5 DEF SagaInv

LEMMA SagaSteps ==
  ASSUME SagaInv, Saga!Next
  PROVE  SagaInv'
<1>1. CASE Saga!StartRun
  BY <1>1, RunStarts
<1>2. CASE Saga!SendForward
  BY <1>2, RunSends DEF Saga!SendForward
<1>3. CASE Saga!SendRollback
  BY <1>3, RunSends DEF Saga!SendRollback
<1>4. CASE Saga!Replay
  BY <1>4, RunReplays
<1>5. CASE Saga!Skip
  BY <1>5, RunSkips
<1>6. CASE Saga!Succeeded
  BY <1>6, RunSucceeds
<1>7. CASE Saga!Failed
  BY <1>7, RunFails
<1>8. CASE Saga!Submit
  BY <1>8, RunSubmits
<1>9. CASE Saga!Crash
  BY <1>9, RunCrashes
<1>10. CASE \E fault \in {"refused", "lost", "late"} : Saga!Unanswered(fault)
  BY <1>10, RunIsUnanswered
<1>11. CASE \E k \in DOMAIN calls : Saga!Serve(k)
  BY <1>11, CheckServes, CheckForwardServes, CommitServes, ChangeServes DEF Saga!Serve
<1> QED
  BY <1>1, <1>2, <1>3, <1>4, <1>5, <1>6, <1>7, <1>8, <1>9, <1>10, <1>11
     DEF Saga!Next, Saga!Workflow

\* What the invariant says of a saga that is decided, also while calls are under way.
LEMMA DecidedIsExplained ==
  ASSUME SagaInv
  PROVE  Saga!OutcomeExplained
<1>1. ASSUME outcome = "succeeded", "rerun" \notin causes
      PROVE  Saga!Complete
  <2>1. AllDone(3) /\ ~ Saga!RollbackBegun
    BY <1>1 DEF SagaInv, OutcomeFits
  <2>2. ~ Called("uncreate") /\ ~ Called("uninit") /\ ~ Called("unpublish")
    BY <2>1, SagaConstants DEF Saga!RollbackBegun, Called
  <2>3. "uncreate" \notin branch /\ "uninit" \notin branch
    BY <2>2 DEF SagaInv, RecordedFits
  <2>4. "create" \in branch /\ "init" \in branch
    BY <2>1 DEF SagaInv, RecordedFits, AllDone
  <2>5. stocked /\ product \in {"offline", "online"}
    BY <2>3, <2>4 DEF SagaInv, RowsFit, Saga!TypeOK
  <2>6. TargetOnline => product = "online"
    BY <2>1, <2>2, <2>5 DEF SagaInv, RecordedFits, RowsFit, AllDone
  <2>7. ~ TargetOnline => product = "offline"
    BY <2>5 DEF SagaInv, RowsFit, CallsFit, CallFits, Called
  <2> QED
    BY <2>5, <2>6, <2>7 DEF Saga!Complete
<1>2. ASSUME outcome = "failed", stocked
      PROVE  causes \cap {"init", "rerun"} # {}
  <2>1. "init" \in branch /\ "uninit" \notin branch
    BY <1>2 DEF SagaInv, RowsFit
  <2>2. "create" \in recorded
    BY <2>1 DEF SagaInv, RecordedFits, CallsFit, CallFits, Called
  <2>3. "uninit" \in recorded
    BY <1>2, <2>2 DEF SagaInv, OutcomeFits, InitUndone
  <2> QED
    BY <2>1, <2>3 DEF SagaInv, RecordedFits, InitExcused
<1>3. ASSUME outcome = "failed", product # "none"
      PROVE  causes \cap {"create", "rerun"} # {}
  BY <1>3 DEF SagaInv, OutcomeFits, RecordedFits, RowsFit
<1> QED
  BY <1>1, <1>2, <1>3 DEF Saga!OutcomeExplained

(* What a decided saga leaves behind has a named cause: for every target, all faults and
   crashes, and however often DTM runs the workflow again. *)
THEOREM OutcomeIsExplained == GatewaySpec => []OutcomeExplained
<1> DEFINE Inv == part = "saga" => SagaInv
<1>1. GatewayInit => Inv
  BY SagaStarts DEF GatewayInit
<1>2. Inv /\ [GatewayNext]_gatewayVars => Inv'
  <2> SUFFICES ASSUME Inv, [GatewayNext]_gatewayVars, part' = "saga"
               PROVE  SagaInv'
    OBVIOUS
  <2>1. CASE part = "saga" /\ Saga!Next /\ UNCHANGED part
    BY <2>1, SagaSteps
  <2>2. CASE UNCHANGED gatewayVars
    <3>1. SagaInv /\ UNCHANGED sagaVars
      BY <2>2 DEF gatewayVars
    <3> QED
      BY <3>1 DEF sagaVars, SagaInv, Saga!TypeOK, RunFits, OutcomeFits, CallsFit, CallFits,
                  RecordedFits, RowsFit, At, AllDone, InitUndone, InitExcused, Called, UnderWay,
                  Went, Awaited, CallEnded, Saga!Waiting, Saga!Op, Saga!RollbackBegun, Saga!Steps
  <2> QED
    BY <2>1, <2>2 DEF GatewayNext
<1>3. Inv => OutcomeExplained
  BY DecidedIsExplained DEF OutcomeExplained, SagaInv
<1> QED
  BY <1>1, <1>2, <1>3, PTL DEF GatewaySpec

------------------------------------------------------------------------------
(* The failures a creation copes with.  Its product may be made without the answer arriving,
   and its publication may fail in any way; the initialisation of the stock fails only
   without an effect, rollbacks get through, and the gateway dies between two steps. *)
SoftFaults ==
  /\ SagaFaults["create"] \subseteq {"refused", "lost"}
  /\ SagaFaults["init"] \subseteq {"refused"}
  /\ \A op \in Saga!Undone : SagaFaults[op] = {}
  /\ SagaCrashIn \subseteq {"forward"}

\* The rollback has called step i back, or is over.
RolledTo(i) ==
  \/ outcome = "failed"
  \/ At(Rollbacks) /\ (run.at < i \/ (run.at = i /\ At({"waitRollback"})))

OnlyRolled(op, i) == op \in recorded \/ Called(op) => RolledTo(i)

CallCopes(k) ==
  LET op == calls[k].op IN
  /\ op \in Saga!Undone => calls[k].pc # "error"
  /\ op # "publish" /\ ~ CallEnded(k) => Awaited(k)
  /\ op \in {"uncreate", "uninit"} /\ calls[k].pc \in {"seen", "commit"} => op \notin branch
  /\ op = "uncreate" /\ calls[k].pc = "commit" => (calls[k].found <=> "create" \in branch)

CallsCope == \A k \in DOMAIN calls : CallCopes(k)

SoftInv ==
  /\ causes \cap {"init", "rerun"} = {}
  /\ OnlyRolled("uncreate", 1) /\ OnlyRolled("uninit", 2) /\ OnlyRolled("unpublish", 3)
  /\ CallsCope
  /\ "uncreate" \in branch => product = "none"

\* A rollback that has begun is under way or over.
LEMMA BegunIsRolled ==
  ASSUME SoftInv, Saga!RollbackBegun
  PROVE  outcome = "failed" \/ At(Rollbacks)
BY SagaConstants DEF SoftInv, OnlyRolled, RolledTo, Saga!RollbackBegun, Called

\* The run goes on where no call is under way, and what was rolled back stays so.
LEMMA SoftGoesOn ==
  ASSUME SagaInv, SoftInv, UNCHANGED <<product, branch, calls>>,
         causes' \cap {"init", "rerun"} = {},
         \A k \in DOMAIN calls : calls[k].op # "publish" => CallEnded(k),
         OnlyRolled("uncreate", 1)', OnlyRolled("uninit", 2)', OnlyRolled("unpublish", 3)'
  PROVE  SoftInv'
<1>1. ASSUME NEW k \in DOMAIN calls  PROVE CallCopes(k)'
  <2>1. CallCopes(k) /\ (calls[k].op # "publish" => CallEnded(k))
    BY DEF SoftInv, CallsCope
  <2>2. CallEnded(k)' <=> CallEnded(k)
    BY DEF CallEnded
  <2> QED
    BY <2>1, <2>2 DEF CallCopes
<1> QED
  BY <1>1 DEF SoftInv, CallsCope

\* Between two calls only a late publication may be under way.
LEMMA NoneAwaited ==
  ASSUME SoftInv, ~ Saga!Waiting \/ CallEnded(Len(calls)), NEW k \in DOMAIN calls,
         calls[k].op # "publish"
  PROVE  CallEnded(k)
BY DEF SoftInv, CallsCope, CallCopes, Awaited

\* A run goes forward: nothing was rolled back, and nothing is.
LEMMA SoftForward ==
  ASSUME SagaInv, SoftInv, At({"stopped"} \cup Forwards), outcome # "failed"
  PROVE  /\ recorded \cap Saga!Undone = {} /\ ~ Saga!RollbackBegun
         /\ \A op \in Saga!Undone : ~ Called(op)
<1>1. ~ At(Rollbacks)
  BY DEF At, Forwards, Rollbacks
<1>2. ~ Saga!RollbackBegun
  BY <1>1, BegunIsRolled
<1> QED
  BY <1>2 DEF Saga!RollbackBegun, Called

LEMMA SoftRuns ==
  ASSUME SoftFaults, SagaInv, SoftInv,
         Saga!StartRun \/ Saga!Replay \/ Saga!Skip \/ Saga!Crash \/ Saga!Submit
  PROVE  SoftInv'
<1>0. Saga!TypeOK
  BY DEF SagaInv
<1>1. UNCHANGED <<product, branch, calls>> /\ ~ Saga!Waiting /\ \A op : Called(op)' <=> Called(op)
  BY DEF SoftFaults, Saga!StartRun, Saga!Replay, Saga!Skip, Saga!Crash, Saga!Submit,
         Saga!services, Saga!Waiting, Called
<1>2. \A k \in DOMAIN calls : calls[k].op # "publish" => CallEnded(k)
  BY <1>1, NoneAwaited
<1>3. CASE Saga!StartRun \/ Saga!Crash \/ (Saga!Replay /\ At(Forwards))
           \/ (Saga!Submit /\ At(Forwards))
  <2>1. At({"stopped"} \cup Forwards)
    BY <1>3 DEF SoftFaults, Saga!StartRun, Saga!Crash, At, Forwards
  <2>2. outcome # "failed"
    BY <1>3, UnderWayIsOpen, <2>1 DEF Saga!StartRun, SoftFaults, Saga!Crash, At, Forwards
  <2>3. /\ recorded \cap Saga!Undone = {} /\ ~ Saga!RollbackBegun
        /\ \A op \in Saga!Undone : ~ Called(op)
    BY <2>1, <2>2, SoftForward
  <2>4. recorded' = recorded /\ causes' = causes
    BY <1>1, <1>3, <2>3 DEF Saga!StartRun, Saga!Crash, Saga!Replay, Saga!Submit
  <2>5. OnlyRolled("uncreate", 1)' /\ OnlyRolled("uninit", 2)' /\ OnlyRolled("unpublish", 3)'
    BY <1>1, <2>3, <2>4, SagaConstants DEF OnlyRolled
  <2> QED
    BY <1>1, <1>2, <2>4, <2>5, SoftGoesOn DEF SoftInv
<1>4. CASE (Saga!Replay \/ Saga!Skip) /\ run.pc = "rollback"
  <2>1. /\ run.at \in {1, 2, 3} /\ recorded' = recorded \cup {Saga!Op} /\ causes' = causes
        /\ run' = Saga!Before(run) /\ outcome' = outcome /\ At(Rollbacks)
    BY <1>0, <1>4, SagaTyped DEF Saga!Replay, Saga!Skip, At, Rollbacks
  <2>2. run'.pc = "rollback" /\ run'.at = run.at - 1
    BY <1>0, <2>1, SagaTyped DEF Saga!Before, Rollbacks, Forwards
  <2>3. OnlyRolled("uncreate", 1)' /\ OnlyRolled("uninit", 2)' /\ OnlyRolled("unpublish", 3)'
    BY <1>1, <2>1, <2>2, OpAt DEF SoftInv, OnlyRolled, RolledTo, At, Rollbacks
  <2> QED
    BY <1>1, <1>2, <2>1, <2>3, SoftGoesOn DEF SoftInv
<1>5. CASE Saga!Submit /\ At(Rollbacks)
  <2>1. outcome' = "failed" /\ causes' = causes
    BY <1>5 DEF Saga!Submit, At, Rollbacks
  <2>2. OnlyRolled("uncreate", 1)' /\ OnlyRolled("uninit", 2)' /\ OnlyRolled("unpublish", 3)'
    BY <2>1 DEF OnlyRolled, RolledTo
  <2> QED
    BY <1>1, <1>2, <2>1, <2>2, SoftGoesOn DEF SoftInv
<1> QED
  BY <1>3, <1>4, <1>5 DEF Saga!Replay, Saga!Skip, Saga!Submit, At, Forwards, Rollbacks

LEMMA SoftEnds ==
  ASSUME SoftFaults, SagaInv, SoftInv, Saga!Succeeded \/ Saga!Failed
  PROVE  SoftInv'
<1>0. Saga!TypeOK /\ calls \in Seq(SagaCall)
  BY DEF SagaInv
<1>1. /\ UNCHANGED <<product, branch, calls, outcome, causes>> /\ Saga!Waiting
      /\ CallEnded(Len(calls)) /\ \A op : Called(op)' <=> Called(op)
  BY DEF Saga!Succeeded, Saga!Failed, Saga!services, Saga!Current, CallEnded, Called
<1>2. \A k \in DOMAIN calls : calls[k].op # "publish" => CallEnded(k)
  BY <1>1, NoneAwaited
<1>3. /\ run.at \in {1, 2, 3} /\ run.at \in 1 .. Saga!Steps /\ calls # << >>
      /\ Len(calls) \in DOMAIN calls /\ calls[Len(calls)].op = Saga!Op
  BY <1>0, <1>1, SagaTyped DEF SagaInv, RunFits
<1>4. CASE run.pc = "waitForward"
  <2>1. outcome # "failed" /\ At(Forwards)
    BY <1>4, UnderWayIsOpen DEF At, Forwards
  <2>2. recorded \cap Saga!Undone = {} /\ \A op \in Saga!Undone : ~ Called(op)
    BY <2>1, SoftForward DEF At
  <2>3. recorded' \subseteq recorded \cup {"create", "init", "publish"}
    BY <1>3, <2>1, OpsDiffer DEF At, Saga!Succeeded, Saga!Failed
  <2>4. OnlyRolled("uncreate", 1)' /\ OnlyRolled("uninit", 2)' /\ OnlyRolled("unpublish", 3)'
    BY <1>1, <2>2, <2>3, SagaConstants DEF OnlyRolled
  <2> QED
    BY <1>1, <1>2, <2>4, SoftGoesOn DEF SoftInv
<1>5. CASE run.pc = "waitRollback"
  <2>1. At(Rollbacks) /\ Saga!Op \in Saga!Undone
    BY <1>3, <1>5, OpsDiffer, SagaConstants DEF At, Rollbacks
  <2>2. ~ Saga!Failed
    BY <1>3, <2>1 DEF SoftInv, CallsCope, CallCopes, Saga!Failed, Saga!Current
  <2>3. run' = Saga!Before(run) /\ recorded' = recorded \cup {Saga!Op}
    BY <1>5, <2>2 DEF Saga!Succeeded
  <2>4. run'.pc = "rollback" /\ run'.at = run.at - 1
    BY <1>0, <2>3, SagaTyped DEF Saga!Before, Rollbacks, Forwards
  <2>5. OnlyRolled("uncreate", 1)' /\ OnlyRolled("uninit", 2)' /\ OnlyRolled("unpublish", 3)'
    BY <1>1, <1>3, <2>1, <2>3, <2>4, OpAt DEF SoftInv, OnlyRolled, RolledTo, At, Rollbacks
  <2> QED
    BY <1>1, <1>2, <2>5, SoftGoesOn DEF SoftInv
<1> QED
  BY <1>1, <1>4, <1>5 DEF Saga!Waiting

LEMMA SoftUnanswered ==
  ASSUME SoftFaults, SagaInv, SoftInv, NEW fault \in {"refused", "lost", "late"},
         Saga!Unanswered(fault)
  PROVE  SoftInv'
<1> DEFINE n == Len(calls)
<1>0. Saga!TypeOK /\ calls \in Seq(SagaCall)
  BY DEF SagaInv
<1>1. /\ UNCHANGED <<product, branch, outcome, recorded>> /\ Saga!Waiting /\ Saga!Errs
      /\ fault \in SagaFaults[Saga!Op]
      /\ causes' = IF fault = "refused" THEN causes ELSE causes \cup {Saga!Op}
  BY DEF Saga!Unanswered, Saga!services
<1>2. /\ run.at \in {1, 2, 3} /\ run.at \in 1 .. Saga!Steps /\ calls # << >>
      /\ n \in DOMAIN calls /\ calls[n].op = Saga!Op
  BY <1>0, <1>1, SagaTyped DEF SagaInv, RunFits
<1>3. /\ run.pc = "waitForward" /\ At(Forwards) /\ Saga!Op \in {"create", "init", "publish"}
      /\ Saga!Op = "create" => fault # "late"
      /\ Saga!Op = "init" => fault = "refused"
  <2>1. Saga!Op \notin Saga!Undone
    BY <1>1 DEF SoftFaults
  <2>2. ~ At(Rollbacks)
    BY <1>2, <2>1, OpsDiffer, SagaConstants DEF At
  <2>3. run.pc = "waitForward" /\ At(Forwards)
    BY <1>1, <2>2 DEF At, Forwards, Rollbacks, Saga!Waiting
  <2> QED
    BY <1>1, <1>2, <2>3, OpsDiffer DEF At, SoftFaults
<1>4. recorded \cap Saga!Undone = {} /\ \A op \in Saga!Undone : ~ Called(op)
  BY <1>3, UnderWayIsOpen, SoftForward DEF At, Forwards
<1>5. causes' \cap {"init", "rerun"} = {}
  BY <1>1, <1>3 DEF SoftInv
<1>6. CASE fault = "refused"
  <2>1. calls' = [calls EXCEPT ![n].pc = "error"]
    BY <1>6 DEF Saga!Unanswered, Saga!Current
  <2>2. PICK x \in SagaCall : calls' = [calls EXCEPT ![n] = x] /\ x.op = Saga!Op /\ x.pc = "error"
    BY <1>0, <1>2, <2>1, CallFields
  <2>3. /\ DOMAIN calls' = DOMAIN calls /\ calls'[n] = x
        /\ \A j \in DOMAIN calls : j # n => calls'[j] = calls[j]
    BY <1>0, <1>2, <2>2, CallChanges
  <2>4. \A op : Called(op)' <=> Called(op)
    BY <1>2, <2>2, <2>3 DEF Called
  <2>5. OnlyRolled("uncreate", 1)' /\ OnlyRolled("uninit", 2)' /\ OnlyRolled("unpublish", 3)'
    BY <1>1, <1>4, <2>4, SagaConstants DEF OnlyRolled
  <2>6. ASSUME NEW j \in DOMAIN calls  PROVE CallCopes(j)'
    <3>1. CASE j = n
      BY <1>3, <2>2, <2>3, <3>1, SagaConstants DEF CallCopes, CallEnded
    <3>2. CASE j # n
      <4>1. CallCopes(j) /\ ~ Awaited(j) /\ calls'[j] = calls[j]
        BY <2>3, <3>2 DEF SoftInv, CallsCope, Awaited
      <4> QED
        BY <1>1, <4>1 DEF CallCopes, CallEnded
    <3> QED
      BY <3>1, <3>2
  <2> QED
    BY <1>1, <1>5, <2>3, <2>5, <2>6 DEF SoftInv, CallsCope
<1>7. CASE fault # "refused"
  <2>1. calls' = calls /\ (fault = "lost" => calls[n].pc = "ok")
    BY <1>7 DEF Saga!Unanswered, Saga!Current
  <2>2. \A op : Called(op)' <=> Called(op)
    BY <2>1 DEF Called
  <2>3. OnlyRolled("uncreate", 1)' /\ OnlyRolled("uninit", 2)' /\ OnlyRolled("unpublish", 3)'
    BY <1>1, <1>4, <2>2, SagaConstants DEF OnlyRolled
  <2>4. Saga!Op # "publish" => CallEnded(n)
    BY <1>3, <1>7, <2>1 DEF CallEnded
  <2>5. ASSUME NEW k \in DOMAIN calls, calls[k].op # "publish"
        PROVE  CallEnded(k)
    BY <1>2, <2>4, <2>5 DEF SoftInv, CallsCope, CallCopes, Awaited
  <2> QED
    BY <1>1, <1>5, <2>1, <2>3, <2>5, SoftGoesOn
<1> QED
  BY <1>6, <1>7

LEMMA SoftSends ==
  ASSUME SoftFaults, SagaInv, SoftInv, Saga!SendForward \/ Saga!SendRollback
  PROVE  SoftInv'
<1> DEFINE n == Len(calls')
<1>0. Saga!TypeOK /\ calls \in Seq(SagaCall)
  BY DEF SagaInv
<1>1. PICK pc \in {"waitForward", "waitRollback"} :
        /\ Saga!Send(pc)
        /\ run.pc = IF pc = "waitForward" THEN "forward" ELSE "rollback"
  BY DEF Saga!SendForward, Saga!SendRollback
<1>2. /\ UNCHANGED <<product, branch, recorded, outcome, causes>>
      /\ run.at \in 1 .. Saga!Steps /\ run.at \in {1, 2, 3} /\ ~ Saga!Waiting
      /\ calls' = Append(calls, [op |-> Saga!Op, pc |-> "check", found |-> FALSE])
      /\ run' = [run EXCEPT !.pc = pc]
  BY <1>0, <1>1, SagaTyped DEF Saga!Send, Saga!services, Saga!Waiting
<1>3. run'.pc = pc /\ run'.at = run.at
  BY <1>0, <1>2, SagaTyped DEF Forwards, Rollbacks
<1>4. Saga!Op \in Saga!Ops
  BY <1>1, <1>2, OpsDiffer DEF At, Forwards, Rollbacks
<1>5. PICK x \in SagaCall : calls' = Append(calls, x) /\ x.op = Saga!Op /\ x.pc = "check"
  <2> DEFINE sent == [op |-> Saga!Op, pc |-> "check", found |-> FALSE]
  <2>1. sent \in SagaCall
    BY <1>4 DEF SagaCall
  <2>2. sent.op = Saga!Op /\ sent.pc = "check" /\ calls' = Append(calls, sent)
    BY <1>2
  <2> HIDE DEF sent
  <2> QED
    BY <2>1, <2>2
<1>6. /\ DOMAIN calls' = DOMAIN calls \cup {n} /\ n \notin DOMAIN calls /\ calls'[n] = x
      /\ \A j \in DOMAIN calls : calls'[j] = calls[j]
  BY <1>0, <1>5, CallSent
<1>7. \A op : Called(op)' <=> Called(op) \/ op = Saga!Op
  BY <1>5, <1>6 DEF Called
<1>8. ASSUME NEW j \in DOMAIN calls'  PROVE CallCopes(j)'
  <2>1. CASE j = n
    BY <1>3, <1>5, <1>6, <2>1 DEF CallCopes, CallEnded, Awaited, Saga!Waiting
  <2>2. CASE j # n
    <3>1. j \in DOMAIN calls /\ calls'[j] = calls[j] /\ CallCopes(j)
      BY <1>6, <2>2 DEF SoftInv, CallsCope
    <3>2. calls[j].op # "publish" => CallEnded(j)
      BY <1>2, <3>1, NoneAwaited
    <3> QED
      BY <1>2, <3>1, <3>2 DEF CallCopes, CallEnded
  <2> QED
    BY <2>1, <2>2
<1>9. OnlyRolled("uncreate", 1)' /\ OnlyRolled("uninit", 2)' /\ OnlyRolled("unpublish", 3)'
  <2>1. CASE pc = "waitForward"
    <3>1. At(Forwards) /\ Saga!Op \in {"create", "init", "publish"}
      BY <1>1, <1>2, <2>1, OpsDiffer DEF At, Forwards, Rollbacks
    <3>2. recorded \cap Saga!Undone = {} /\ \A op \in Saga!Undone : ~ Called(op)
      BY <3>1, UnderWayIsOpen, SoftForward DEF At
    <3> QED
      BY <1>2, <1>7, <3>1, <3>2, SagaConstants DEF OnlyRolled
  <2>2. CASE pc = "waitRollback"
    BY <1>1, <1>2, <1>3, <1>7, <2>2, OpAt DEF SoftInv, OnlyRolled, RolledTo, At, Rollbacks
  <2> QED
    BY <2>1, <2>2
<1> QED
  BY <1>2, <1>8, <1>9 DEF SoftInv, CallsCope

(* The services: the one call that may go on, a publication excepted, is the awaited one. *)
LEMMA SoftServed ==
  ASSUME SagaInv, SoftInv, NEW k, NEW x, ServesOn(k, x),
         CallCopes(k)',
         branch' = branch \/ (x.op # "publish" /\ CallEnded(k)'),
         "uncreate" \in branch' => product' = "none"
  PROVE  SoftInv'
<1>1. /\ DOMAIN calls' = DOMAIN calls
      /\ \A j \in DOMAIN calls : j # k => calls'[j] = calls[j]
      /\ \A op : Called(op)' <=> Called(op)
      /\ \A j : Awaited(j)' <=> Awaited(j)
  BY ServedCall
<1>2. UNCHANGED <<recorded, outcome, run, causes>> /\ k \in DOMAIN calls
      /\ calls[k].op = x.op /\ ~ CallEnded(k)
  BY DEF ServesOn
<1>3. ASSUME NEW j \in DOMAIN calls, j # k  PROVE CallCopes(j)'
  <2>1. CallCopes(j) /\ CallCopes(k)
    BY <1>2 DEF SoftInv, CallsCope
  <2>2. CallEnded(j)' <=> CallEnded(j)
    BY <1>1, <1>3 DEF CallEnded
  <2>3. CASE branch' = branch
    BY <1>1, <1>3, <2>1, <2>2, <2>3 DEF CallCopes
  <2>4. CASE x.op # "publish"
    <3>1. k = Len(calls)
      BY <1>2, <2>1, <2>4 DEF CallCopes, Awaited
    <3>2. calls[j].op # "publish" => CallEnded(j)
      BY <1>3, <2>1, <3>1 DEF CallCopes, Awaited
    <3> QED
      BY <1>1, <1>3, <2>1, <2>2, <3>2 DEF CallCopes, CallEnded
  <2> QED
    BY <2>3, <2>4
<1>4. CallsCope'
  BY <1>1, <1>3 DEF CallsCope
<1>5. OnlyRolled("uncreate", 1)' /\ OnlyRolled("uninit", 2)' /\ OnlyRolled("unpublish", 3)'
  BY <1>1, <1>2 DEF SoftInv, OnlyRolled, RolledTo, At
<1> QED
  BY <1>2, <1>4, <1>5 DEF SoftInv

LEMMA SoftCheck ==
  ASSUME SagaInv, SoftInv, NEW k \in DOMAIN calls,
         Saga!CheckCompensated(k) \/ Saga!CheckForward(k),
         UNCHANGED <<recorded, outcome, run, runs, causes>>
  PROVE  SoftInv'
<1> DEFINE op == calls[k].op
<1>1. /\ calls[k].pc \in {"check", "seen"} /\ UNCHANGED <<product, branch>>
      /\ calls \in Seq(SagaCall) /\ CallFits(k) /\ CallCopes(k) /\ ~ CallEnded(k)
  BY DEF Saga!CheckCompensated, Saga!CheckForward, Saga!services, SagaInv, SoftInv, CallsFit,
         CallsCope, CallEnded
<1>2. op \in {"create", "init", "uncreate", "uninit"}
  BY <1>1, CallFields, SagaConstants DEF Saga!CheckCompensated, Saga!CheckForward, CallFits
<1>3. PICK x \in SagaCall :
        /\ calls' = [calls EXCEPT ![k] = x] /\ x.op = op
        /\ op \in Saga!Undone => x.pc # "error"
        /\ op \in Saga!Undone /\ x.pc \in {"seen", "commit"} => op \notin branch
        /\ op = "uncreate" /\ x.pc = "commit" => (x.found <=> "create" \in branch)
  <2>1. CASE Saga!CheckCompensated(k)
    <3>1. PICK pc \in {"ok", "seen", "error"} :
            /\ calls' = [calls EXCEPT ![k].pc = pc]
            /\ op \in Saga!Undone => pc # "error" /\ (pc = "seen" => op \notin branch)
      BY <1>2, <2>1, SagaConstants DEF Saga!CheckCompensated, Saga!Step, Saga!Compensation
    <3>2. PICK x \in SagaCall : x = [calls[k] EXCEPT !.pc = pc] /\ x.op = op /\ x.pc = pc
      BY <1>1, CallFields
    <3> QED
      BY <3>1, <3>2
  <2>2. CASE Saga!CheckForward(k) /\ Saga!Compensation(op)
    <3>1. calls' = [calls EXCEPT ![k] = [calls[k] EXCEPT !.pc = "commit",
                                                         !.found = "create" \in branch]]
      BY <2>2 DEF Saga!CheckForward
    <3>2. op \notin branch /\ calls[k].pc = "seen" /\ calls[k] \in SagaCall
      BY <1>1, <2>2, CallFields DEF CallCopes, Saga!CheckForward, Saga!Compensation
    <3>3. PICK x \in SagaCall : /\ calls' = [calls EXCEPT ![k] = x] /\ x.op = op
                                /\ x.pc = "commit" /\ (x.found <=> "create" \in branch)
      <4> DEFINE found == "create" \in branch
                 next1 == [calls[k] EXCEPT !.pc = "commit", !.found = found]
      <4>1. found \in BOOLEAN
        OBVIOUS
      <4> HIDE DEF found
      <4>2. next1 \in SagaCall /\ next1.op = op /\ next1.pc = "commit" /\ next1.found = found
        BY <3>2, <4>1 DEF SagaCall
      <4>3. calls' = [calls EXCEPT ![k] = next1]
        BY <3>1 DEF found
      <4> HIDE DEF next1
      <4> QED
        BY <4>2, <4>3 DEF found
    <3> QED
      BY <3>2, <3>3
  <2>3. CASE Saga!CheckForward(k) /\ ~ Saga!Compensation(op)
    <3>1. PICK pc \in {"ok", "commit", "error"} : calls' = [calls EXCEPT ![k].pc = pc]
      BY <2>3 DEF Saga!CheckForward
    <3>2. PICK x \in SagaCall : x = [calls[k] EXCEPT !.pc = pc] /\ x.op = op /\ x.pc = pc
      BY <1>1, CallFields
    <3>3. op \notin Saga!Undone
      BY <1>2, <2>3, SagaConstants DEF Saga!Compensation
    <3> QED
      BY <3>1, <3>2, <3>3, SagaConstants
  <2> QED
    BY <2>1, <2>2, <2>3
<1>4. ServesOn(k, x)
  BY <1>1, <1>3 DEF ServesOn
<1>5. calls'[k] = x /\ (Awaited(k)' <=> Awaited(k))
  BY <1>4, ServedCall
<1>6. CallCopes(k)'
  BY <1>1, <1>2, <1>3, <1>5, SagaConstants DEF CallCopes
<1> QED
  BY <1>1, <1>4, <1>6, SoftServed DEF SoftInv

\* Where the run is while it waits for call k.
LEMMA AwaitedRun ==
  ASSUME SagaInv, SoftInv, NEW k \in DOMAIN calls, ~ CallEnded(k), calls[k].op # "publish"
  PROVE  /\ Saga!Waiting /\ calls[k].op = Saga!Op /\ run.at \in {1, 2, 3}
         /\ run.at \in 1 .. Saga!Steps /\ outcome = "open"
         /\ At(Forwards) \/ At(Rollbacks)
<1>1. Saga!TypeOK /\ RunFits
  BY DEF SagaInv
<1>2. Awaited(k)
  BY DEF SoftInv, CallsCope, CallCopes
<1>3. At(Forwards) \/ At(Rollbacks)
  BY <1>2 DEF Awaited, Saga!Waiting, At, Forwards, Rollbacks
<1> QED
  BY <1>1, <1>2, <1>3, SagaTyped, UnderWayIsOpen DEF Awaited, RunFits, At

LEMMA SoftCommit ==
  ASSUME SagaInv, SoftInv, NEW k \in DOMAIN calls, Saga!Commit(k),
         UNCHANGED <<recorded, outcome, run, runs, causes>>
  PROVE  SoftInv'
<1> DEFINE op == calls[k].op
<1>1. /\ calls[k].pc = "commit" /\ calls \in Seq(SagaCall) /\ CallFits(k) /\ CallCopes(k)
      /\ ~ CallEnded(k)
  BY DEF Saga!Commit, SagaInv, SoftInv, CallsFit, CallsCope, CallEnded
<1>2. op \in {"create", "init", "uncreate", "uninit"}
  BY <1>1, CallFields, SagaConstants DEF CallFits
<1>3. CASE op \in branch \/ (op = "init" /\ stocked)
  <2>1. calls' = [calls EXCEPT ![k].pc = "error"] /\ UNCHANGED <<product, branch>>
    BY <1>3 DEF Saga!Commit, Saga!Step, Saga!services
  <2>2. PICK x \in SagaCall : x = [calls[k] EXCEPT !.pc = "error"] /\ x.op = op /\ x.pc = "error"
    BY <1>1, CallFields
  <2>3. ServesOn(k, x)
    BY <1>1, <2>1, <2>2 DEF ServesOn
  <2>4. calls'[k] = x
    BY <2>3, ServedCall
  <2>5. op \notin Saga!Undone
    BY <1>1, <1>2, <1>3, SagaConstants DEF CallCopes
  <2>6. CallCopes(k)'
    BY <2>2, <2>4, <2>5, SagaConstants DEF CallCopes, CallEnded
  <2> QED
    BY <2>1, <2>3, <2>6, SoftServed DEF SoftInv
<1>4. CASE ~ (op \in branch \/ (op = "init" /\ stocked))
  <2>1. /\ branch' = branch \cup {op}
        /\ product' = CASE op = "create"                      -> "offline"
                        [] op = "uncreate" /\ calls[k].found  -> "none"
                        [] OTHER                              -> product
        /\ calls' = [calls EXCEPT ![k].pc = "ok"]
    BY <1>4 DEF Saga!Commit, Saga!Step
  <2>2. PICK x \in SagaCall : x = [calls[k] EXCEPT !.pc = "ok"] /\ x.op = op /\ x.pc = "ok"
    BY <1>1, CallFields
  <2>3. ServesOn(k, x)
    BY <1>1, <2>1, <2>2 DEF ServesOn
  <2>4. calls'[k] = x
    BY <2>3, ServedCall
  <2>5. CallCopes(k)' /\ CallEnded(k)'
    BY <2>2, <2>4 DEF CallCopes, CallEnded
  <2>6. "uncreate" \in branch' => product' = "none"
    <3>1. CASE op = "create"
      <4>1. At(Forwards) /\ outcome = "open"
        BY <1>1, <3>1, AwaitedRun, OpsDiffer DEF At
      <4>2. ~ Called("uncreate")
        BY <4>1, SoftForward, SagaConstants DEF At
      <4> QED
        BY <2>1, <3>1, <4>2 DEF SagaInv, RecordedFits
    <3>2. CASE op = "uncreate"
      <4>1. product # "none" => calls[k].found
        BY <1>1, <3>2 DEF CallCopes, SagaInv, RowsFit
      <4> QED
        BY <2>1, <3>2, <4>1
    <3>3. CASE op \in {"init", "uninit"}
      BY <2>1, <3>3 DEF SoftInv
    <3> QED
      BY <1>2, <3>1, <3>2, <3>3
  <2> QED
    BY <1>2, <2>2, <2>3, <2>5, <2>6, SoftServed
<1> QED
  BY <1>3, <1>4

LEMMA SoftChange ==
  ASSUME SagaInv, SoftInv, NEW k \in DOMAIN calls, Saga!ChangeStatus(k),
         UNCHANGED <<recorded, outcome, run, runs, causes>>
  PROVE  SoftInv'
<1> DEFINE op == calls[k].op
<1>1. /\ calls[k].pc = "check" /\ op \in {"publish", "unpublish"}
      /\ calls \in Seq(SagaCall) /\ ~ CallEnded(k)
  BY DEF Saga!ChangeStatus, SagaInv, CallEnded
<1>2. PICK pc \in {"ok", "error"} :
        /\ calls' = [calls EXCEPT ![k].pc = pc] /\ branch' = branch
        /\ IF pc = "error" THEN product = "none" /\ product' = product ELSE product # "none"
  BY DEF Saga!ChangeStatus, Saga!Step, Saga!services
<1>3. PICK x \in SagaCall : x = [calls[k] EXCEPT !.pc = pc] /\ x.op = op /\ x.pc = pc
  BY <1>1, CallFields
<1>4. ServesOn(k, x)
  BY <1>1, <1>2, <1>3 DEF ServesOn
<1>5. calls'[k] = x
  BY <1>4, ServedCall
<1>6. op = "unpublish" => product # "none"
  <2> SUFFICES ASSUME op = "unpublish"  PROVE product # "none"
    OBVIOUS
  <2>1. /\ Saga!Op = "unpublish" /\ outcome = "open" /\ run.at \in {1, 2, 3}
        /\ run.at \in 1 .. Saga!Steps /\ (At(Forwards) \/ At(Rollbacks))
    BY <1>1, AwaitedRun
  <2>2. run.at = 3
    BY <2>1, OpAt
  <2>3. "init" \in branch
    BY <2>2 DEF SagaInv, RunFits, RecordedFits
  <2>4. "create" \in branch
    BY <2>3 DEF SagaInv, RecordedFits, CallsFit, CallFits, Called
  <2>5. ~ Called("uncreate")
    BY <2>1, <2>2 DEF SoftInv, OnlyRolled, RolledTo
  <2> QED
    BY <2>4, <2>5 DEF SagaInv, RecordedFits, RowsFit
<1>7. CallCopes(k)'
  <2>1. calls'[k].op = op /\ calls'[k].pc \in {"ok", "error"}
    BY <1>3, <1>5
  <2>2. op = "unpublish" => calls'[k].pc = "ok"
    BY <1>2, <1>3, <1>5, <1>6
  <2> QED
    BY <1>1, <2>1, <2>2, SagaConstants DEF CallCopes, CallEnded
<1>8. "uncreate" \in branch' => product' = "none"
  BY <1>2 DEF SoftInv
<1> QED
  BY <1>2, <1>4, <1>7, <1>8, SoftServed

LEMMA SoftSteps ==
  ASSUME SoftFaults, SagaInv, SoftInv, Saga!Next
  PROVE  SoftInv'
<1>1. CASE Saga!StartRun \/ Saga!Replay \/ Saga!Skip \/ Saga!Crash \/ Saga!Submit
  BY <1>1, SoftRuns
<1>2. CASE Saga!SendForward \/ Saga!SendRollback
  BY <1>2, SoftSends
<1>3. CASE Saga!Succeeded \/ Saga!Failed
  BY <1>3, SoftEnds
<1>4. CASE \E fault \in {"refused", "lost", "late"} : Saga!Unanswered(fault)
  BY <1>4, SoftUnanswered
<1>5. CASE \E k \in DOMAIN calls : Saga!Serve(k)
  BY <1>5, SoftCheck, SoftCommit, SoftChange DEF Saga!Serve
<1> QED
  BY <1>1, <1>2, <1>3, <1>4, <1>5 DEF Saga!Next, Saga!Workflow

LEMMA SoftDecided ==
  ASSUME SagaInv, SoftInv
  PROVE  Saga!AllOrNothing
<1>1. Saga!OutcomeExplained
  BY DecidedIsExplained
<1>2. outcome = "failed" => product = "none"
  BY DEF SagaInv, OutcomeFits, RecordedFits, SoftInv
<1>3. stocked \in BOOLEAN
  BY DEF SagaInv, Saga!TypeOK
<1> QED
  BY <1>1, <1>2, <1>3 DEF Saga!AllOrNothing, Saga!OutcomeExplained, Saga!Nothing, SoftInv

(* Where the faults are soft ones a decided creation leaves the product with its stock, or
   neither: the part of OutcomeIsExplained in which nothing needs an excuse. *)
THEOREM SoftSagaIsAtomic ==
  SoftFaults => (GatewaySpec => [](part = "saga" => Saga!AllOrNothing))
<1> SUFFICES ASSUME SoftFaults
             PROVE  GatewaySpec => [](part = "saga" => Saga!AllOrNothing)
  OBVIOUS
<1> DEFINE Inv == part = "saga" => SagaInv /\ SoftInv
<1>1. GatewayInit => Inv
  <2> SUFFICES ASSUME Saga!Init  PROVE SagaInv /\ SoftInv
    BY DEF GatewayInit
  <2>1. calls = << >> /\ recorded = {} /\ branch = {} /\ causes = {}
    BY DEF Saga!Init
  <2> QED
    BY <2>1, SagaStarts DEF SoftInv, OnlyRolled, CallsCope, Called
<1>2. Inv /\ [GatewayNext]_gatewayVars => Inv'
  <2> SUFFICES ASSUME Inv, [GatewayNext]_gatewayVars, part' = "saga"
               PROVE  SagaInv' /\ SoftInv'
    OBVIOUS
  <2>1. CASE part = "saga" /\ Saga!Next /\ UNCHANGED part
    BY <2>1, SagaSteps, SoftSteps
  <2>2. CASE UNCHANGED gatewayVars
    <3>1. SagaInv /\ SoftInv /\ UNCHANGED sagaVars
      BY <2>2 DEF gatewayVars
    <3>2. SagaInv'
      BY <3>1 DEF sagaVars, SagaInv, Saga!TypeOK, RunFits, OutcomeFits, CallsFit, CallFits,
                  RecordedFits, RowsFit, At, AllDone, InitUndone, InitExcused, Called, UnderWay,
                  Went, Awaited, CallEnded, Saga!Waiting, Saga!Op, Saga!RollbackBegun, Saga!Steps
    <3>3. SoftInv'
      BY <3>1 DEF sagaVars, SoftInv, OnlyRolled, RolledTo, CallsCope, CallCopes, Called, At,
                  Awaited, CallEnded, Saga!Waiting
    <3> QED
      BY <3>2, <3>3
  <2> QED
    BY <2>1, <2>2 DEF GatewayNext
<1>3. Inv => (part = "saga" => Saga!AllOrNothing)
  BY SoftDecided
<1> QED
  BY <1>1, <1>2, <1>3, PTL DEF GatewaySpec

------------------------------------------------------------------------------
(* Updates of a product.  The theorems of UpdateProofs are about any updates; here they are
   taken to the two instances of MCGateway. *)

RaceProofs == INSTANCE UpdateProofs WITH
  Skus <- ShopSkus, Initial <- FirstSkus, Writers <- ShopWriters, Fresh <- ShopFresh,
  OffSale <- ShopOffSale,
  Readers <- ShopWriters, ReadKeys <- {"detail"},
  MayOverlap <- TRUE, Faults <- {"crash", "lost", "late", "redis_error"}

TurnProofs == INSTANCE UpdateProofs WITH
  Skus <- TurnSkus, Initial <- FirstTurnSkus, Writers <- TurnWriters, Fresh <- TurnFresh,
  OffSale <- TurnOffSale,
  Readers <- TurnWriters, ReadKeys <- {"detail"},
  MayOverlap <- FALSE, Faults <- {"crash", "lost"}

\* RaceProofs and Race are one specification.
LEMMA RaceProofsAssumption == RaceProofs!UpdateAssumption
BY ShopAssumption
  DEF Race!UpdateAssumption, RaceProofs!UpdateAssumption, Race!CatalogAssumption,
      RaceProofs!CatalogAssumption, Race!Keys, RaceProofs!Keys

LEMMA RaceProofsStarts == Race!UpdateInit <=> RaceProofs!UpdateInit
BY DEF Race!UpdateInit, RaceProofs!UpdateInit, Race!Init, RaceProofs!Init, Race!Keys,
      RaceProofs!Keys, Race!NotReading, RaceProofs!NotReading, Race!NoSku, RaceProofs!NoSku

LEMMA RaceProofsNext == Race!UpdateNext <=> RaceProofs!UpdateNext
BY DEF Race!UpdateNext, RaceProofs!UpdateNext, Race!Update, RaceProofs!Update,
      Race!ReadDetail, RaceProofs!ReadDetail, Race!CallUpdate, RaceProofs!CallUpdate,
      Race!Updating, RaceProofs!Updating, Race!UpdateDies, RaceProofs!UpdateDies,
      Race!InitStocks, RaceProofs!InitStocks, Race!FreezeStocks, RaceProofs!FreezeStocks,
      Race!CallLost, RaceProofs!CallLost, Race!CallLate, RaceProofs!CallLate,
      Race!UpdateExpire, RaceProofs!UpdateExpire, Race!Expire, RaceProofs!Expire,
      Race!OneAtATime, RaceProofs!OneAtATime, Race!Running, RaceProofs!Running,
      Race!StartRead, RaceProofs!StartRead, Race!ReadStep, RaceProofs!ReadStep, Race!Lookup,
      RaceProofs!Lookup, Race!LoadRow, RaceProofs!LoadRow, Race!LoadSkus,
      RaceProofs!LoadSkus, Race!Store, RaceProofs!Store, Race!BeginUpdate,
      RaceProofs!BeginUpdate, Race!WriteStep, RaceProofs!WriteStep, Race!CommitUpdate,
      RaceProofs!CommitUpdate, Race!Drop, RaceProofs!Drop, Race!WriterCrash,
      RaceProofs!WriterCrash, Race!Keys, RaceProofs!Keys, Race!KeysAt, RaceProofs!KeysAt,
      Race!After, RaceProofs!After, Race!ToDrop, RaceProofs!ToDrop, Race!Wanted,
      RaceProofs!Wanted, Race!Removed,
      RaceProofs!Removed, Race!StatusOf, RaceProofs!StatusOf, Race!Answered,
      RaceProofs!Answered, Race!Gone, RaceProofs!Gone,
      Race!MayWrite, RaceProofs!MayWrite, Race!Writing, RaceProofs!Writing, Race!Reading,
      RaceProofs!Reading, Race!View, RaceProofs!View, Race!NotReading,
      RaceProofs!NotReading, Race!NoSku, RaceProofs!NoSku, Race!vars, RaceProofs!vars

LEMMA RaceProofsMoves ==
  [Race!UpdateNext]_<<shopVars, updateVars>> => [RaceProofs!UpdateNext]_(RaceProofs!updateVars)
BY RaceProofsNext DEF shopVars, updateVars, RaceProofs!updateVars, RaceProofs!vars

LEMMA RaceProofsOnSale == RaceProofs!OnSaleHasStock => Race!OnSaleHasStock
BY DEF Race!OnSaleHasStock, RaceProofs!OnSaleHasStock, Race!Over, RaceProofs!Over,
      Race!Running, RaceProofs!Running, Race!Writing, RaceProofs!Writing, Race!Reading,
      RaceProofs!Reading

LEMMA RaceProofsStockInv ==
  /\ RaceProofs!UpdateInit => RaceProofs!StockInv
  /\ RaceProofs!StockInv /\ [RaceProofs!UpdateNext]_(RaceProofs!updateVars)
       => RaceProofs!StockInv'
  /\ RaceProofs!StockInv => RaceProofs!OnSaleHasStock
BY RaceProofsAssumption, RaceProofs!StockStart, RaceProofs!StockStays,
   RaceProofs!StockInvOnSale
  DEF RaceProofs!StockStart, RaceProofs!StockStays, RaceProofs!StockInvOnSale

\* TurnProofs and Update are one specification.
LEMMA TurnProofsAssumption == TurnProofs!UpdateAssumption
BY ShopAssumption
  DEF Update!UpdateAssumption, TurnProofs!UpdateAssumption, Update!CatalogAssumption,
      TurnProofs!CatalogAssumption, Update!Keys, TurnProofs!Keys

LEMMA TurnProofsStarts == Update!UpdateInit <=> TurnProofs!UpdateInit
BY DEF Update!UpdateInit, TurnProofs!UpdateInit, Update!Init, TurnProofs!Init, Update!Keys,
      TurnProofs!Keys, Update!NotReading, TurnProofs!NotReading, Update!NoSku,
      TurnProofs!NoSku

LEMMA TurnProofsNext == Update!UpdateNext <=> TurnProofs!UpdateNext
BY DEF Update!UpdateNext, TurnProofs!UpdateNext, Update!Update, TurnProofs!Update,
      Update!ReadDetail, TurnProofs!ReadDetail, Update!CallUpdate, TurnProofs!CallUpdate,
      Update!Updating, TurnProofs!Updating, Update!UpdateDies, TurnProofs!UpdateDies,
      Update!InitStocks, TurnProofs!InitStocks, Update!FreezeStocks,
      TurnProofs!FreezeStocks, Update!CallLost, TurnProofs!CallLost, Update!CallLate,
      TurnProofs!CallLate, Update!UpdateExpire, TurnProofs!UpdateExpire, Update!Expire,
      TurnProofs!Expire, Update!OneAtATime, TurnProofs!OneAtATime, Update!Running,
      TurnProofs!Running, Update!StartRead, TurnProofs!StartRead, Update!ReadStep,
      TurnProofs!ReadStep, Update!Lookup, TurnProofs!Lookup, Update!LoadRow,
      TurnProofs!LoadRow, Update!LoadSkus, TurnProofs!LoadSkus, Update!Store,
      TurnProofs!Store, Update!BeginUpdate, TurnProofs!BeginUpdate, Update!WriteStep,
      TurnProofs!WriteStep, Update!CommitUpdate, TurnProofs!CommitUpdate, Update!Drop,
      TurnProofs!Drop, Update!WriterCrash, TurnProofs!WriterCrash, Update!Keys,
      TurnProofs!Keys, Update!KeysAt, TurnProofs!KeysAt, Update!After, TurnProofs!After,
      Update!ToDrop, TurnProofs!ToDrop, Update!Wanted, TurnProofs!Wanted, Update!Removed,
      TurnProofs!Removed, Update!StatusOf, TurnProofs!StatusOf, Update!Answered,
      TurnProofs!Answered, Update!Gone, TurnProofs!Gone, Update!MayWrite, TurnProofs!MayWrite, Update!Writing, TurnProofs!Writing, Update!Reading,
      TurnProofs!Reading, Update!View, TurnProofs!View, Update!NotReading,
      TurnProofs!NotReading, Update!NoSku, TurnProofs!NoSku, Update!vars, TurnProofs!vars

LEMMA TurnProofsMoves ==
  [Update!UpdateNext]_<<shopVars, updateVars>> => [TurnProofs!UpdateNext]_(TurnProofs!updateVars)
BY TurnProofsNext DEF shopVars, updateVars, TurnProofs!updateVars, TurnProofs!vars

LEMMA TurnProofsRepairs ==
  TurnProofs!OnSaleHasStock /\ TurnProofs!SuccessRepairs /\ TurnProofs!UpdateReplaces
    => Update!OnSaleHasStock /\ Update!SuccessRepairs /\ Update!UpdateReplaces
BY DEF Update!SuccessRepairs, TurnProofs!SuccessRepairs, Update!UpdateReplaces,
      TurnProofs!UpdateReplaces, Update!OnSaleHasStock, TurnProofs!OnSaleHasStock,
      Update!Over, TurnProofs!Over, Update!Running, TurnProofs!Running, Update!Writing,
      TurnProofs!Writing, Update!Reading, TurnProofs!Reading, Update!Wanted,
      TurnProofs!Wanted, Update!OthersFrozen, TurnProofs!OthersFrozen

LEMMA TurnProofsInTurn == TurnProofs!InTurn
BY DEF TurnProofs!InTurn

LEMMA TurnProofsStockInv ==
  /\ TurnProofs!UpdateInit => TurnProofs!StockInv
  /\ TurnProofs!StockInv /\ [TurnProofs!UpdateNext]_(TurnProofs!updateVars)
       => TurnProofs!StockInv'
  /\ TurnProofs!StockInv => TurnProofs!OnSaleHasStock
BY TurnProofsAssumption, TurnProofs!StockStart, TurnProofs!StockStays,
   TurnProofs!StockInvOnSale
  DEF TurnProofs!StockStart, TurnProofs!StockStays, TurnProofs!StockInvOnSale

LEMMA TurnProofsTurnInv ==
  /\ TurnProofs!UpdateInit => TurnProofs!TurnInv
  /\ TurnProofs!TurnInv /\ [TurnProofs!UpdateNext]_(TurnProofs!updateVars)
       => TurnProofs!TurnInv'
  /\ TurnProofs!TurnInv => TurnProofs!SuccessRepairs /\ TurnProofs!UpdateReplaces
BY TurnProofsAssumption, TurnProofsInTurn, TurnProofs!TurnStart, TurnProofs!TurnStays,
   TurnProofs!TurnInvRepairs
  DEF TurnProofs!TurnStart, TurnProofs!TurnStays, TurnProofs!TurnInvRepairs

(* UpdateRepairs: once the requests are over, an update that succeeded last has also made
   good what earlier ones left undone, as long as updates come one after another; and, also
   when they overlap, a SKU on sale lacks stock only if another request took it out before,
   or the one that added it failed. *)
THEOREM UpdateIsRepaired == GatewaySpec => []UpdateRepairs
<1> DEFINE Inv == /\ part = "update" => TurnProofs!StockInv /\ TurnProofs!TurnInv
                  /\ part = "race" => RaceProofs!StockInv
<1>1. GatewayInit => Inv
  BY RaceProofsStarts, TurnProofsStarts, RaceProofsStockInv, TurnProofsStockInv,
     TurnProofsTurnInv
  DEF GatewayInit
<1>2. Inv /\ [GatewayNext]_gatewayVars => Inv'
  <2> SUFFICES ASSUME Inv, [GatewayNext]_gatewayVars PROVE Inv'
    OBVIOUS
  <2>1. /\ part' = part
        /\ part = "update" => [Update!UpdateNext]_<<shopVars, updateVars>>
        /\ part = "race" => [Race!UpdateNext]_<<shopVars, updateVars>>
    BY DEF GatewayNext, gatewayVars
  <2> QED
    BY <2>1, RaceProofsMoves, TurnProofsMoves, RaceProofsStockInv, TurnProofsStockInv,
       TurnProofsTurnInv
<1>3. Inv => UpdateRepairs
  BY RaceProofsStockInv, TurnProofsStockInv, TurnProofsTurnInv, RaceProofsOnSale,
     TurnProofsRepairs
  DEF UpdateRepairs
<1> QED
  BY <1>1, <1>2, <1>3, PTL DEF GatewaySpec
==============================================================================
