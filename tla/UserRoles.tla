-------------------------------- MODULE UserRoles --------------------------------
(***************************************************************************)
(* Users and their roles: registration, which makes the first user the     *)
(* superadmin, and the change of a role, which must leave one.  Both look  *)
(* at the table and write it in a statement of its own.  Who may change    *)
(* roles is decided by the role in the caller's access token.              *)
(***************************************************************************)
EXTENDS Integers, FiniteSets

CONSTANTS
  Users,        \* ids; each is registered at most once
  Requests,     \* threads that register users and change roles, again and again
  MayOverlap,   \* FALSE: one request at a time
  None

Roles == {"user", "admin", "superadmin"}

UserAssumption == None \notin Users /\ MayOverlap \in BOOLEAN

VARIABLES
  role,     \* role[u]: the role in the row of user u
  token,    \* token[u]: the role in the access token of user u
  call,     \* call[r]: where request r stands
  founders  \* users registered as superadmin (history)

vars == <<role, token, call, founders>>

Idle == [pc |-> "idle", user |-> None, role |-> "user"]

Init ==
  /\ role = [u \in Users |-> "none"]
  /\ token = [u \in Users |-> "none"]
  /\ call = [r \in Requests |-> Idle]
  /\ founders = {}

With(a) == {u \in Users : role[u] = a}
Rows == {u \in Users : role[u] # "none"}
Running == {r \in Requests : call[r].pc # "idle"}
MayStart(r) == call[r].pc = "idle" /\ (MayOverlap \/ Running = {})
Names == {call[r].user : r \in Running}

\* The role of a new user.
FirstRole == IF Rows = {} THEN "superadmin" ELSE "user"

\* Register: the users are counted.
Register(r, u) ==
  /\ MayStart(r)
  /\ u \notin Rows \cup Names
  /\ call' = [call EXCEPT ![r] = [pc |-> "create", user |-> u, role |-> FirstRole]]
  /\ UNCHANGED <<role, token, founders>>

\* Register: the row is inserted, or the name is taken.
Create(r) ==
  LET u == call[r].user IN
  /\ call[r].pc = "create"
  /\ \/ /\ role' = [role EXCEPT ![u] = call[r].role]
        /\ founders' = IF call[r].role = "superadmin" THEN founders \cup {u} ELSE founders
     \/ Rows # {} /\ UNCHANGED <<role, founders>>
  /\ call' = [call EXCEPT ![r] = Idle]
  /\ UNCHANGED token

\* Login and refresh put the role of the row into the token.
Login(u) ==
  /\ u \in Rows
  /\ token' = [token EXCEPT ![u] = role[u]]
  /\ UNCHANGED <<role, call, founders>>

\* Mutant: the last superadmin is not spared.
UpdateRoleUnguarded(r, caller, u, a) ==
  /\ MayStart(r)
  /\ token[caller] = "superadmin" /\ u \in Rows
  /\ call' = [call EXCEPT ![r] = [pc |-> "update", user |-> u, role |-> a]]
  /\ UNCHANGED <<role, token, founders>>

\* UpdateUserRole: the user is read.
UpdateRole(r, caller, u, a) ==
  /\ MayStart(r)
  /\ token[caller] = "superadmin" /\ u \in Rows
  /\ call' = [call EXCEPT ![r] =
       [pc |-> IF role[u] = "superadmin" /\ a # "superadmin" THEN "count" ELSE "update",
        user |-> u, role |-> a]]
  /\ UNCHANGED <<role, token, founders>>

\* UpdateUserRole: the superadmins are counted.
Count(r) ==
  /\ call[r].pc = "count"
  /\ call' = IF Cardinality(With("superadmin")) <= 1 THEN [call EXCEPT ![r] = Idle]
             ELSE [call EXCEPT ![r].pc = "update"]
  /\ UNCHANGED <<role, token, founders>>

\* UpdateUserRole: the role is written.
Write(r) ==
  /\ call[r].pc = "update"
  /\ role' = [role EXCEPT ![call[r].user] = call[r].role]
  /\ call' = [call EXCEPT ![r] = Idle]
  /\ UNCHANGED <<token, founders>>

\* A statement fails.
Fails(r) ==
  /\ r \in Running
  /\ call' = [call EXCEPT ![r] = Idle]
  /\ UNCHANGED <<role, token, founders>>

Next ==
  \/ \E r \in Requests :
       \/ \E u \in Users : Register(r, u)
       \/ \E caller, u \in Users, a \in Roles : UpdateRole(r, caller, u, a)
       \/ Create(r) \/ Count(r) \/ Write(r) \/ Fails(r)
  \/ \E u \in Users : Login(u)

Spec == Init /\ [][Next]_vars

------------------------------------------------------------------------------
(* Properties. *)

\* The type of every variable.
TypeOK ==
  /\ role \in [Users -> Roles \cup {"none"}]
  /\ token \in [Users -> Roles \cup {"none"}]
  /\ call \in [Requests -> [pc : {"idle", "create", "count", "update"},
                            user : Users \cup {None}, role : Roles]]
  /\ \A r \in Requests :
       /\ call[r].pc # "idle" => call[r].user # None
       /\ call[r].pc = "count" => call[r].role # "superadmin"
  /\ founders \subseteq Rows

(* Documented: the last superadmin is not demoted, so once there are users one of them is
   superadmin, also when those who ask for changes act on tokens that are out of date. *)
SuperadminRemains == Rows # {} => With("superadmin") # {}

\* Only the first user becomes superadmin by registering.  (For requests one after the other.)
OneFounder == Cardinality(founders) <= 1

(* Documented: in an empty system the first user to register is superadmin, here whichever
   of several is the first to be inserted. *)
FirstIsFounder == Rows # {} => founders # {}
==============================================================================
