-------------------------------- MODULE Sessions --------------------------------
(***************************************************************************)
(* Refresh tokens at the gateway, with the sessions in Redis under two     *)
(* kinds of keys: the session, which names its token, and for each token   *)
(* the session it belongs to.  A refresh looks both up, then replaces the  *)
(* token in a transaction that fails when a watched key was written; a     *)
(* delete reads the session and removes both keys in a later transaction.  *)
(*                                                                         *)
(* A token stands for its hash too.  Ids and tokens are never generated    *)
(* twice.                                                                  *)
(***************************************************************************)
CONSTANTS
  Sids, Tokens,
  Calls,        \* threads that serve refreshes and logouts, again and again
  Faults,
  None

SessionFaults == {"redis_error", "lost_answer", "rpc_error", "clock_skew", "expiry"}

ASSUME SessionAssumption ==
  /\ None \notin Sids /\ None \notin Tokens
  /\ Faults \subseteq SessionFaults

VARIABLES
  session,    \* session[s]: the token in the session's key
  index,      \* index[t]: the session in the token's key
  call,       \* call[c]: where a request stands
  opened,     \* the sessions there have been
  issued,     \* the tokens that were written
  given,      \* the tokens a client has
  next,       \* next[t]: the token that t was exchanged for (history)
  loggedOut,  \* sessions whose logout was answered (history)
  expired     \* tokens whose key ran out of time (history)

vars == <<session, index, call, opened, issued, given, next, loggedOut, expired>>

Idle == [pc |-> "idle", op |-> "none", sid |-> None, old |-> None, dirty |-> FALSE]

Init ==
  /\ session = [s \in Sids |-> None]
  /\ index = [t \in Tokens |-> None]
  /\ call = [c \in Calls |-> Idle]
  /\ opened = {} /\ issued = {} /\ given = {}
  /\ next = [t \in Tokens |-> None]
  /\ loggedOut = {} /\ expired = {}

store == <<session, index>>
past == <<opened, issued, given, next, loggedOut, expired>>

\* The calls after a write of the keys of session s and token t: who watches one is disturbed.
Touch(s, t) ==
  [c \in Calls |-> [call[c] EXCEPT
    !.dirty = @ \/ (call[c].pc = "exec" /\ (call[c].sid = s \/ call[c].old = t))]]

End(c, calls) == [calls EXCEPT ![c] = Idle]

------------------------------------------------------------------------------
(* Login: Save writes both keys in one transaction. *)

Login(s, t) ==
  /\ s \notin opened /\ t \notin issued
  /\ opened' = opened \cup {s} /\ issued' = issued \cup {t}
  /\ session' = [session EXCEPT ![s] = t]
  /\ index' = [index EXCEPT ![t] = s]
  /\ \/ given' = given \cup {t}
     \/ "lost_answer" \in Faults /\ UNCHANGED given
  /\ UNCHANGED <<call, next, loggedOut, expired>>

------------------------------------------------------------------------------
(* Refresh. *)

Refresh(c, t) ==
  /\ call[c].pc = "idle"
  /\ t \in given
  /\ call' = [call EXCEPT ![c] = [Idle EXCEPT !.pc = "index", !.op = "refresh", !.old = t]]
  /\ UNCHANGED <<store, past>>

\* GetByRefreshTokenHash: the token's key.
ReadIndex(c) ==
  /\ call[c].pc = "index"
  /\ call' = IF index[call[c].old] = None THEN End(c, call)
             ELSE [call EXCEPT ![c].pc = "session", ![c].sid = index[call[c].old]]
  /\ UNCHANGED <<store, past>>

\* GetByRefreshTokenHash: the session's key.  A session that looks too old is deleted.
ReadSession(c) ==
  /\ call[c].pc = "session"
  /\ \/ call' = IF session[call[c].sid] = None THEN End(c, call)
                ELSE [call EXCEPT ![c].pc = "watch"]
     \/ /\ "clock_skew" \in Faults
        /\ session[call[c].sid] # None
        /\ call' = [call EXCEPT ![c].pc = "read"]
  /\ UNCHANGED <<store, past>>

(* Rotate: WATCH and GET.  A write between the two ends the call as one before them or one
   after them does. *)
Watch(c) ==
  /\ call[c].pc = "watch"
  /\ call' = IF session[call[c].sid] = call[c].old
             THEN [call EXCEPT ![c].pc = "exec"]
             ELSE End(c, call)
  /\ UNCHANGED <<store, past>>

\* Mutant: plain writes, nothing is watched.
ExecUnwatched(c, t) ==
  LET s == call[c].sid  old == call[c].old IN
  /\ call[c].pc = "exec" /\ t \notin issued
  /\ session' = [session EXCEPT ![s] = t]
  /\ index' = [index EXCEPT ![old] = None, ![t] = s]
  /\ call' = End(c, Touch(s, old))
  /\ issued' = issued \cup {t}
  /\ next' = [next EXCEPT ![old] = t]
  /\ given' = given \cup {t}
  /\ UNCHANGED <<opened, loggedOut, expired>>

\* Rotate: EXEC.  The answer may be lost on its way to the gateway or the client.
Exec(c, t) ==
  LET s == call[c].sid  old == call[c].old IN
  /\ call[c].pc = "exec" /\ ~call[c].dirty /\ t \notin issued
  /\ session' = [session EXCEPT ![s] = t]
  /\ index' = [index EXCEPT ![old] = None, ![t] = s]
  /\ call' = End(c, Touch(s, old))
  /\ issued' = issued \cup {t}
  /\ next' = [next EXCEPT ![old] = t]
  /\ \/ given' = given \cup {t}
     \/ "lost_answer" \in Faults /\ UNCHANGED given
  /\ UNCHANGED <<opened, loggedOut, expired>>

ExecFails(c) ==
  /\ call[c].pc = "exec" /\ call[c].dirty
  /\ call' = End(c, call)
  /\ UNCHANGED <<store, past>>

------------------------------------------------------------------------------
(* Logout, of a session for which a client has, or had, an access token. *)

Logout(c, s) ==
  /\ call[c].pc = "idle"
  /\ s \in opened
  /\ call' = [call EXCEPT ![c] = [Idle EXCEPT !.pc = "read", !.op = "logout", !.sid = s]]
  /\ UNCHANGED <<store, past>>

Answered(c) == IF call[c].op = "logout" THEN loggedOut \cup {call[c].sid} ELSE loggedOut

\* Delete: the session's key, for the token in it.
DeleteRead(c) ==
  LET s == call[c].sid IN
  /\ call[c].pc = "read"
  /\ IF session[s] = None
     THEN call' = End(c, call) /\ loggedOut' = Answered(c)
     ELSE call' = [call EXCEPT ![c].pc = "delete", ![c].old = session[s]] /\ UNCHANGED loggedOut
  /\ UNCHANGED <<store, opened, issued, given, next, expired>>

\* Mutant: a session whose token was replaced meanwhile is left alone.
DeleteSame(c) ==
  LET s == call[c].sid  old == call[c].old IN
  /\ call[c].pc = "delete"
  /\ session' = [session EXCEPT ![s] = IF @ = old THEN None ELSE @]
  /\ index' = [index EXCEPT ![old] = None]
  /\ call' = End(c, Touch(s, old))
  /\ loggedOut' = Answered(c)
  /\ UNCHANGED <<opened, issued, given, next, expired>>

\* Delete: both keys go, that of the token as it was read.
Delete(c) ==
  LET s == call[c].sid  old == call[c].old IN
  /\ call[c].pc = "delete"
  /\ session' = [session EXCEPT ![s] = None]
  /\ index' = [index EXCEPT ![old] = None]
  /\ call' = End(c, Touch(IF session[s] = None THEN None ELSE s,
                          IF index[old] = None THEN None ELSE old))
  /\ loggedOut' = Answered(c)
  /\ UNCHANGED <<opened, issued, given, next, expired>>

\* A command fails, or GetUser does: the request ends with an error.
CallFails(c) ==
  /\ \/ "redis_error" \in Faults /\ call[c].pc # "idle"
     \/ "rpc_error" \in Faults /\ call[c].pc = "watch"
  /\ call' = End(c, call)
  /\ UNCHANGED <<store, past>>

------------------------------------------------------------------------------
(* The time to live, of either key. *)

SessionExpires(s) ==
  /\ "expiry" \in Faults
  /\ session[s] # None
  /\ session' = [session EXCEPT ![s] = None]
  /\ call' = Touch(s, None)
  /\ UNCHANGED <<index, past>>

TokenExpires(t) ==
  /\ "expiry" \in Faults
  /\ index[t] # None
  /\ index' = [index EXCEPT ![t] = None]
  /\ expired' = expired \cup {t}
  /\ call' = Touch(None, t)
  /\ UNCHANGED <<session, opened, issued, given, next, loggedOut>>

------------------------------------------------------------------------------
Next ==
  \/ \E s \in Sids, t \in Tokens : Login(s, t)
  \/ \E c \in Calls :
       \/ \E t \in Tokens : Refresh(c, t) \/ Exec(c, t)
       \/ \E s \in Sids : Logout(c, s)
       \/ ReadIndex(c) \/ ReadSession(c) \/ Watch(c) \/ ExecFails(c)
       \/ DeleteRead(c) \/ Delete(c) \/ CallFails(c)
  \/ \E s \in Sids : SessionExpires(s)
  \/ \E t \in Tokens : TokenExpires(t)

Spec == Init /\ [][Next]_vars

------------------------------------------------------------------------------
(* Properties. *)

\* The type of every variable.
TypeOK ==
  /\ session \in [Sids -> Tokens \cup {None}]
  /\ index \in [Tokens -> Sids \cup {None}]
  /\ call \in [Calls -> [pc : {"idle", "index", "session", "watch", "exec", "read", "delete"},
                         op : {"none", "refresh", "logout"}, sid : Sids \cup {None},
                         old : Tokens \cup {None}, dirty : BOOLEAN]]
  /\ \A c \in Calls :
       /\ call[c].pc \in {"index", "session", "watch", "exec", "delete"} => call[c].old # None
       /\ call[c].pc \in {"session", "watch", "exec", "read", "delete"} => call[c].sid # None
  /\ opened \subseteq Sids /\ issued \subseteq Tokens /\ given \subseteq issued
  /\ next \in [Tokens -> Tokens \cup {None}]
  /\ loggedOut \subseteq opened /\ expired \subseteq issued

(* Whatever requests overlap, the two kinds of keys behave as the one map of the in-memory
   store: a token is exchanged once, by a request that presented it, and no session comes
   back. *)
Book == INSTANCE SessionBook WITH live <- session
ActsAsBook == Book!BookSpec

\* A session whose logout was answered is gone for good.
LogoutLasts == \A s \in loggedOut : session[s] = None

\* The index never leads from a token that was replaced to a session that lives.
SpentIsGone == \A t \in Tokens : index[t] # None => session[index[t]] \in {t, None}

\* The token of a session that lives can be looked up until its own key has expired.
LiveIsReachable ==
  \A s \in Sids : session[s] # None => index[session[s]] = s \/ session[s] \in expired

(* Documented: a token that can still be looked up is on the white list; logout removes it.
   (No key has expired.)
   The code does not keep it (README, section 3). *)
IndexIsWhitelist == \A t \in Tokens : index[t] # None => session[index[t]] = t
==============================================================================
