--------------------------------- MODULE Shutdown ---------------------------------
(***************************************************************************)
(* How the process of an RPC service stops.  RunUntilSignal runs the       *)
(* server beside its caller; on a signal the readiness probe fails, a      *)
(* drain window passes, the admin server and then the RPC server are       *)
(* closed, all against one deadline.  Whatever is still running when the   *)
(* process exits is lost.  The servers are libraries: Run may return of    *)
(* itself at any time, and Stop waits for handlers, but not forever.       *)
(***************************************************************************)
EXTENDS Naturals

CONSTANTS
  Requests,   \* calls of other services
  DrainFits   \* the drain window is shorter than the shutdown timeout

DrainAssumption == DrainFits \in BOOLEAN

VARIABLES
  main,      \* where Run of the bootstrap stands
  server,    \* the RPC server
  listed,    \* the instance is in the registry
  draining,  \* the flag /readyz looks at
  expired,   \* the shutdown context is done
  scrape,    \* a request on the admin server is under way
  dbOpen,    \* the connection pool
  req        \* req[r]: the call r

vars == <<main, server, listed, draining, expired, scrape, dbOpen, req>>

Init ==
  /\ main = "serving"
  /\ server = "up"
  /\ listed = TRUE
  /\ draining = FALSE
  /\ expired = FALSE
  /\ scrape = FALSE
  /\ dbOpen = TRUE
  /\ req = [r \in Requests |-> "none"]

Running == {r \in Requests : req[r] = "running"}

\* The server takes a call.
Accept(r) ==
  /\ server = "up" /\ main # "exited"
  /\ req[r] = "none"
  /\ req' = [req EXCEPT ![r] = "running"]
  /\ UNCHANGED <<main, server, listed, draining, expired, scrape, dbOpen>>

\* A handler ends; without the pool it may fail.
Answer(r) ==
  /\ main # "exited"
  /\ r \in Running
  /\ \E end \in {"answered"} \cup (IF dbOpen THEN {} ELSE {"failed"}) :
       req' = [req EXCEPT ![r] = end]
  /\ UNCHANGED <<main, server, listed, draining, expired, scrape, dbOpen>>

\* A request on the admin server: metrics, or a probe that pings the database.
ScrapeStarts ==
  /\ main \in {"serving", "drain"} /\ ~scrape
  /\ scrape' = TRUE
  /\ UNCHANGED <<main, server, listed, draining, expired, dbOpen, req>>

ScrapeEnds ==
  /\ scrape /\ main # "exited"
  /\ scrape' = FALSE
  /\ UNCHANGED <<main, server, listed, draining, expired, dbOpen, req>>

\* svr.Run returns of itself, with or without leaving the registry.
RunEnds ==
  /\ server = "up" /\ main # "exited"
  /\ server' = "ended"
  /\ listed' \in {listed, FALSE}
  /\ UNCHANGED <<main, draining, expired, scrape, dbOpen, req>>

\* RunUntilSignal: Run returned first.
ServeFails ==
  /\ main = "serving" /\ server = "ended"
  /\ main' = "closing"
  /\ UNCHANGED <<server, listed, draining, expired, scrape, dbOpen, req>>

\* RunUntilSignal: the signal; the stop function begins.
Signal ==
  /\ main = "serving"
  /\ main' = "drain"
  /\ draining' = TRUE
  /\ UNCHANGED <<server, listed, expired, scrape, dbOpen, req>>

\* The deadline of the shutdown context.
Expire ==
  /\ main \in {"admin", "poll", "stop", "wait"} \/ (main = "drain" /\ ~DrainFits)
  /\ ~expired
  /\ expired' = TRUE
  /\ UNCHANGED <<main, server, listed, draining, scrape, dbOpen, req>>

\* WaitForDrainWindow: the window has passed.
DrainWindow ==
  /\ main = "drain"
  /\ main' = "admin"
  /\ UNCHANGED <<server, listed, draining, expired, scrape, dbOpen, req>>

\* adminServer.Shutdown finds a request under way, and will look again.
AdminWaits ==
  /\ main = "admin" /\ scrape
  /\ main' = "poll"
  /\ UNCHANGED <<server, listed, draining, expired, scrape, dbOpen, req>>

\* adminServer.Shutdown has no request left to wait for; svr.Stop leaves the
\* registry and takes no more calls.
Stop ==
  /\ main \in {"admin", "poll"} /\ ~scrape
  /\ main' = "stop"
  /\ server' = IF server = "up" THEN "stopping" ELSE server
  /\ listed' = IF server = "up" THEN FALSE ELSE listed
  /\ UNCHANGED <<draining, expired, scrape, dbOpen, req>>

\* Mutant: the admin server is waited for without the deadline.
StopsLateUnbounded ==
  /\ main = "drain" /\ expired
  /\ main' = "closing"
  /\ UNCHANGED <<server, listed, draining, expired, scrape, dbOpen, req>>

\* The stop function returns an error, and svr.Stop is never called.
StopsLate ==
  /\ main \in {"drain", "poll"} /\ expired
  /\ main' = "closing"
  /\ UNCHANGED <<server, listed, draining, expired, scrape, dbOpen, req>>

\* Mutant: Stop returns although calls are running.
StopReturnsEarly ==
  /\ main = "stop"
  /\ main' = "wait"
  /\ server' = IF server = "stopping" THEN "down" ELSE server
  /\ UNCHANGED <<listed, draining, expired, scrape, dbOpen, req>>

\* svr.Stop has seen every call end.
StopReturns ==
  /\ main = "stop"
  /\ server = "ended" \/ Running = {}
  /\ main' = "wait"
  /\ server' = IF server = "stopping" THEN "down" ELSE server
  /\ UNCHANGED <<listed, draining, expired, scrape, dbOpen, req>>

\* svr.Stop has waited long enough.
StopGivesUp ==
  /\ main = "stop" /\ server = "stopping"
  /\ main' = "wait"
  /\ server' = "aborted"
  /\ UNCHANGED <<listed, draining, expired, scrape, dbOpen, req>>

\* RunUntilSignal: Run has returned, or the deadline has passed.
Returned ==
  /\ main = "wait"
  /\ server # "stopping" \/ expired
  /\ main' = "closing"
  /\ UNCHANGED <<server, listed, draining, expired, scrape, dbOpen, req>>

\* The deferred sqlDB.Close().
CloseDB ==
  /\ main = "closing"
  /\ main' = "leaving"
  /\ dbOpen' = FALSE
  /\ UNCHANGED <<server, listed, draining, expired, scrape, req>>

\* main returns, and with it every goroutine ends.
Exit ==
  /\ main = "leaving"
  /\ main' = "exited"
  /\ req' = [r \in Requests |-> IF r \in Running THEN "cut" ELSE req[r]]
  /\ UNCHANGED <<server, listed, draining, expired, scrape, dbOpen>>

\* Consul drops an instance whose check stays critical.
Dropped ==
  /\ main = "exited" /\ listed
  /\ listed' = FALSE
  /\ UNCHANGED <<main, server, draining, expired, scrape, dbOpen, req>>

Main ==
  \/ ServeFails \/ DrainWindow \/ AdminWaits \/ Stop \/ StopsLate \/ StopReturns
  \/ Returned \/ CloseDB \/ Exit

Next ==
  \/ \E r \in Requests : Accept(r) \/ Answer(r)
  \/ ScrapeStarts \/ ScrapeEnds \/ RunEnds \/ Signal \/ Expire \/ StopGivesUp \/ Dropped
  \/ Main

Spec == Init /\ [][Next]_vars

\* Timers fire, Stop ends and the bootstrap goes on; nothing is assumed of
\* handlers and of requests on the admin server.
FairSpec ==
  Spec /\ WF_vars(Main) /\ WF_vars(Expire) /\ WF_vars(StopGivesUp) /\ WF_vars(Dropped)

-----------------------------------------------------------------------------
\* The type of the state.
TypeOK ==
  /\ main \in {"serving", "drain", "admin", "poll", "stop", "wait",
              "closing", "leaving", "exited"}
  /\ server \in {"up", "stopping", "down", "aborted", "ended"}
  /\ {listed, draining, expired, scrape, dbOpen} \subseteq BOOLEAN
  /\ req \in [Requests -> {"none", "running", "answered", "failed", "cut"}]

\* A call is lost to the shutdown, cut off or left without the pool, only if
\* the deadline passed, Stop gave up waiting, or the server had ended of itself.
LossExplained ==
  (\E r \in Requests : req[r] \in {"failed", "cut"}) =>
    expired \/ server \in {"aborted", "ended"}

\* A process that has exited is still in the registry only if the deadline
\* came before svr.Stop or the server had ended of itself.
ListedExplained ==
  main = "exited" /\ listed => (expired /\ server = "up") \/ server = "ended"

\* However long a call or a request on the admin server takes, a process told
\* to stop exits, and the registry forgets it.
Exits == draining ~> main = "exited" /\ ~listed

\* What the runbook says of a shutdown: server.Stop() is called and takes the
\* instance out of the registry, and the admin server closes after that.
\* The code does not keep it (README, section 3).
Deregistered == main = "exited" /\ draining /\ server # "ended" => ~listed

==============================================================================
