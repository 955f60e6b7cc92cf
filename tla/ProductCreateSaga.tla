--------------------------- MODULE ProductCreateSaga ---------------------------
(***************************************************************************)
(* The creation of a product with its stock: a workflow of the gateway     *)
(* (internal/tx) run under DTM, and the transaction branches it calls in   *)
(* the product and the inventory service.  One global transaction, in up   *)
(* to MaxRuns runs of the workflow.                                        *)
(*                                                                         *)
(* DTM is external.  It records each step that succeeded, forward or       *)
(* rollback, and nothing of one that returned another error; it submits    *)
(* the outcome when the workflow has ended or is rolled back; a workflow   *)
(* that broke off before is run again from its start, with the recorded    *)
(* steps skipped.                                                          *)
(*                                                                         *)
(* A call reads the branch table twice and then commits one transaction.   *)
(* The gateway may be answered by an error whatever becomes of the call.   *)
(***************************************************************************)
EXTENDS Integers, Sequences, FiniteSets

CONSTANTS
  TargetOnline,    \* the request asks for a product that is online
  Faults,          \* Faults[op]: the ways in which a call of op may fail
  CrashIn,         \* where in the workflow the gateway may die
  MaxRuns          \* bound: runs of the workflow

Forward == <<"create", "init", "publish">>
Ops == {"create", "init", "publish", "uncreate", "uninit", "unpublish"}
Undo == [create |-> "uncreate", init |-> "uninit", publish |-> "unpublish"]

SagaAssumption ==
  /\ TargetOnline \in BOOLEAN /\ MaxRuns \in Nat \ {0}
  /\ Faults \in [Ops -> SUBSET {"refused", "lost", "late"}]

VARIABLES
  product,     \* the product's row: none, offline or online
  stock,       \* its SKUs have stock rows
  branch,      \* rows of the two tx-branch tables, by action
  calls,       \* calls in the services: [op, pc, found]
  recorded,    \* steps DTM knows to have succeeded
  outcome,     \* what was submitted to DTM
  run,         \* the gateway: [pc, at, inited]
  runs,        \* how many runs have been started
  causes       \* what went wrong so far (history)

vars == <<product, stock, branch, calls, recorded, outcome, run, runs, causes>>
services == <<product, stock, branch>>

Steps == IF TargetOnline THEN 3 ELSE 2
Stopped == [pc |-> "stopped", at |-> 1, inited |-> FALSE]

Init ==
  /\ product = "none" /\ stock = FALSE /\ branch = {}
  /\ calls = << >>
  /\ recorded = {}
  /\ outcome = "open"
  /\ run = Stopped
  /\ runs = 0
  /\ causes = {}

------------------------------------------------------------------------------
(* The branches in the services.  A call goes from check over seen to commit and ends
   in ok or error. *)

Compensation(op) == op \in {"uncreate", "uninit"}
Step(k, pc) == calls' = [calls EXCEPT ![k].pc = pc]

\* A forward call that was compensated is refused, a compensation that was made is done.
CheckCompensated(k) ==
  LET op == calls[k].op IN
  /\ calls[k].pc = "check" /\ op \in {"create", "init", "uncreate", "uninit"}
  /\ Step(k, IF Compensation(op) THEN IF op \in branch THEN "ok" ELSE "seen"
             ELSE IF Undo[op] \in branch THEN "error" ELSE "seen")
  /\ UNCHANGED services

\* The forward branch: done before, or to be done; a compensation only notes it.
CheckForward(k) ==
  LET op == calls[k].op IN
  /\ calls[k].pc = "seen"
  /\ calls' = [calls EXCEPT ![k] =
       CASE Compensation(op)         -> [@ EXCEPT !.pc = "commit", !.found = "create" \in branch]
         [] OTHER -> [@ EXCEPT !.pc = IF op \notin branch THEN "commit"
                                      ELSE IF op = "create" /\ product = "none" THEN "error"
                                      ELSE "ok"]]
  /\ UNCHANGED services

\* The row of the branch table is inserted first: its unique key refuses a second one.
Commit(k) ==
  LET op == calls[k].op IN
  /\ calls[k].pc = "commit"
  /\ IF op \in branch \/ (op = "init" /\ stock)
     THEN Step(k, "error") /\ UNCHANGED services
     ELSE /\ branch' = branch \cup {op}
          /\ product' = CASE op = "create"                      -> "offline"
                          [] op = "uncreate" /\ calls[k].found  -> "none"
                          [] OTHER                              -> product
          /\ stock' = CASE op = "init" -> TRUE [] op = "uninit" -> FALSE [] OTHER -> stock
          /\ Step(k, "ok")

\* ChangeProductStatus, in both directions.
ChangeStatus(k) ==
  LET op == calls[k].op IN
  /\ calls[k].pc = "check" /\ op \in {"publish", "unpublish"}
  /\ IF product = "none"
     THEN Step(k, "error") /\ UNCHANGED services
     ELSE /\ product' = (IF op = "publish" THEN "online" ELSE "offline")
          /\ Step(k, "ok")
          /\ UNCHANGED <<stock, branch>>

Serve(k) ==
  /\ CheckCompensated(k) \/ CheckForward(k) \/ Commit(k) \/ ChangeStatus(k)
  /\ UNCHANGED <<recorded, outcome, run, runs, causes>>

Ended(k) == calls[k].pc \in {"ok", "error"}
Quiet == \A k \in DOMAIN calls : Ended(k)

------------------------------------------------------------------------------
(* The workflow of the gateway under DTM. *)

Undone == {Undo[op] : op \in DOMAIN Undo}
RollbackBegun == recorded \cap Undone # {} \/ \E k \in DOMAIN calls : calls[k].op \in Undone

\* Execute, or a callback of DTM for a workflow without an outcome.
StartRun ==
  /\ run.pc = "stopped" /\ outcome = "open" /\ runs < MaxRuns
  /\ run' = [pc |-> "forward", at |-> 1, inited |-> FALSE]
  /\ runs' = runs + 1
  /\ causes' = IF RollbackBegun THEN causes \cup {"rerun"} ELSE causes
  /\ UNCHANGED <<services, calls, recorded, outcome>>

Op == IF run.pc \in {"forward", "waitForward"} THEN Forward[run.at] ELSE Undo[Forward[run.at]]

\* Mutant: the rollback of the stock is never made.
SkippedAlways == Op = "uninit"

\* The rollback of the stock is skipped unless this run saw it initialised.
Skipped == Op = "uninit" /\ ~run.inited

Send(pc) ==
  /\ run.pc \in {"forward", "rollback"} /\ run.at \in 1 .. Steps
  /\ Op \notin recorded /\ ~(run.pc = "rollback" /\ Skipped)
  /\ calls' = Append(calls, [op |-> Op, pc |-> "check", found |-> FALSE])
  /\ run' = [run EXCEPT !.pc = pc]
  /\ UNCHANGED <<services, recorded, outcome, runs, causes>>

SendForward == run.pc = "forward" /\ Send("waitForward")
SendRollback == run.pc = "rollback" /\ Send("waitRollback")

\* A forward step is over: the next one.
After(r) == [r EXCEPT !.pc = "forward", !.at = r.at + 1, !.inited = @ \/ r.at = 2]

\* A rollback goes from the step that failed back to the first.
Before(r) == [r EXCEPT !.pc = "rollback", !.at = r.at - 1]

\* DTM has the step: it is not called again.
Replay ==
  /\ run.pc \in {"forward", "rollback"} /\ run.at \in 1 .. Steps /\ Op \in recorded
  /\ run' = IF run.pc = "forward" THEN After(run) ELSE Before(run)
  /\ UNCHANGED <<services, calls, recorded, outcome, runs, causes>>

Skip ==
  /\ run.pc = "rollback" /\ run.at \in 1 .. Steps /\ Op \notin recorded /\ Skipped
  /\ recorded' = recorded \cup {Op}
  /\ run' = Before(run)
  /\ UNCHANGED <<services, calls, outcome, runs, causes>>

Waiting == run.pc \in {"waitForward", "waitRollback"}
Current == Len(calls)

Succeeded ==
  /\ Waiting /\ calls[Current].pc = "ok"
  /\ recorded' = recorded \cup {Op}
  /\ run' = IF run.pc = "waitForward" THEN After(run) ELSE Before(run)
  /\ UNCHANGED <<services, calls, outcome, runs, causes>>

\* Mutant: the error of a forward step is not turned into a failure of the transaction.
ErrsUnwrapped == run' = Stopped

\* A forward step that fails starts the rollback with itself; a rollback step that fails
\* ends the run.
Errs == run' = IF run.pc = "waitForward" THEN [run EXCEPT !.pc = "rollback"] ELSE Stopped

Failed ==
  /\ Waiting /\ calls[Current].pc = "error"
  /\ Errs
  /\ UNCHANGED <<services, calls, recorded, outcome, runs, causes>>

(* The answer is an error because the service refused the call, because the answer (or
   DTM's record of it) was lost, or because it is late: the call goes on. *)
Unanswered(fault) ==
  /\ Waiting /\ fault \in Faults[Op]
  /\ CASE fault = "refused" -> /\ calls[Current].pc = "check"
                               /\ calls' = [calls EXCEPT ![Current].pc = "error"]
       [] fault = "lost"    -> calls[Current].pc = "ok" /\ UNCHANGED calls
       [] fault = "late"    -> ~Ended(Current) /\ UNCHANGED calls
  /\ Errs
  /\ causes' = IF fault = "refused" THEN causes ELSE causes \cup {Op}
  /\ UNCHANGED <<services, recorded, outcome, runs>>

Crash ==
  /\ run.pc \in CrashIn /\ runs < MaxRuns
  /\ run' = Stopped
  /\ causes' = IF Waiting THEN causes \cup {Op} ELSE causes
  /\ UNCHANGED <<services, calls, recorded, outcome, runs>>

\* The workflow returned, or its rollback is complete.
Submit ==
  /\ \/ run.pc = "forward" /\ run.at > Steps /\ outcome' = "succeeded"
     \/ run.pc = "rollback" /\ run.at = 0 /\ outcome' = "failed"
  /\ run' = Stopped
  /\ UNCHANGED <<services, calls, recorded, runs, causes>>

Workflow ==
  \/ StartRun \/ SendForward \/ SendRollback \/ Replay \/ Skip
  \/ Succeeded \/ Failed \/ Submit

Next ==
  \/ Workflow \/ Crash
  \/ \E fault \in {"refused", "lost", "late"} : Unanswered(fault)
  \/ \E k \in DOMAIN calls : Serve(k)

Spec == Init /\ [][Next]_vars

(* The gateway works or is called again by DTM, and the services end what they began. *)
FairSpec ==
  /\ Spec
  /\ WF_vars(Workflow)
  /\ WF_vars(\E k \in DOMAIN calls : Serve(k))

------------------------------------------------------------------------------
(* Properties. *)

\* The type of every variable.
TypeOK ==
  /\ product \in {"none", "offline", "online"} /\ stock \in BOOLEAN
  /\ branch \subseteq {"create", "init", "uncreate", "uninit"}
  /\ \A k \in DOMAIN calls :
       calls[k] \in [op : Ops, pc : {"check", "seen", "commit", "ok", "error"}, found : BOOLEAN]
  /\ recorded \subseteq Ops
  /\ outcome \in {"open", "succeeded", "failed"}
  /\ run \in [pc : {"stopped", "forward", "waitForward", "rollback", "waitRollback"},
              at : 0 .. Steps + 1, inited : BOOLEAN]
  /\ runs \in 0 .. MaxRuns
  /\ causes \subseteq Ops \cup {"rerun"}

Complete == stock /\ product = (IF TargetOnline THEN "online" ELSE "offline")
Nothing == ~stock /\ product = "none"

(* A saga that was decided has left everything or nothing. *)
AllOrNothing ==
  Quiet => /\ outcome = "succeeded" => Complete
           /\ outcome = "failed" => Nothing

(* Whatever fails, what a decided saga leaves behind has a named cause: stock remains
   after a failure only if the answer of its initialisation did not arrive, a product
   only if its creation was overtaken by the compensation, and a success is complete
   unless the workflow was run again after a rollback had begun. *)
OutcomeExplained ==
  Quiet => /\ outcome = "succeeded" => Complete \/ "rerun" \in causes
           /\ outcome = "failed" =>
                /\ stock => causes \cap {"init", "rerun"} # {}
                /\ product # "none" => causes \cap {"create", "rerun"} # {}

(* Documented: a failed saga is rolled back as a whole.
   The code does not keep it (README, section 3). *)
RolledBack == Quiet /\ outcome = "failed" => Nothing

(* Documented: once a branch is compensated, a late forward call does not go through.
   The code does not keep it (README, section 3). *)
NotHanging == Quiet /\ "uncreate" \in branch => product = "none"

(* Documented: creation and stock succeed as a whole.
   The code does not keep it (README, section 3). *)
SuccessIsComplete == Quiet /\ outcome = "succeeded" => Complete
==============================================================================
