------------------------------- MODULE Process --------------------------------
(***************************************************************************)
(* The life of the process: run and bindServers of cmd/bili-acc/main.go,     *)
(* with the goroutine of each server, the requests it serves, the signals    *)
(* that ask it to stop and the flight recorder.  run passes one server; the  *)
(* code and its tests are written for any number.                           *)
(*                                                                         *)
(* net/http is modelled from its use: Serve closes its listener when it     *)
(* returns; Shutdown closes the listeners that Serve has made known, returns *)
(* nil when no request is running, and the context's error when the limit    *)
(* passes before it sees that; Close cuts what still runs.                  *)
(***************************************************************************)
EXTENDS FlightRecorder

CONSTANTS N,        \* the servers are 1 .. N
          Requests, \* the requests that may come
          Home      \* the server that each comes to

ASSUME ConstantsAssumption == N \in Nat \ {0} /\ Home \in [Requests -> 1 .. N]

Servers == 1 .. N

VARIABLES main,     \* where run is
          next,     \* the server that its loops have come to
          listener, \* "none", "open" or "closed"
          serve,    \* the goroutine of a server: "none", "starting", "serving" or "ended"
          failed,   \* the servers that have sent an error to errCh
          shut,     \* the servers whose Shutdown has been called
          caught,   \* NotifyContext catches SIGINT and SIGTERM
          asked,    \* its context is done
          limit,    \* the 30 seconds of shutdownCtx have passed
          runErr,   \* what run will return: "none", "start", "bind", "listener", "shutdown"
          fate      \* of each request: "none", "active", "done" or "cut"

servers == <<listener, serve, failed, shut, fate>>
vars == <<recorder, main, next, servers, caught, asked, limit, runErr>>

RunTypes ==
  /\ main \in {"start", "bind", "select", "shutdown", "drain", "defers", "join", "exited",
               "killed"}
  /\ next \in 1 .. N + 1
  /\ main = "drain" => next \in Servers
  /\ listener \in [Servers -> {"none", "open", "closed"}]
  /\ serve \in [Servers -> {"none", "starting", "serving", "ended"}]
  /\ failed \subseteq Servers
  /\ shut \subseteq Servers
  /\ caught \in BOOLEAN /\ asked \in BOOLEAN /\ limit \in BOOLEAN
  /\ runErr \in {"none", "start", "bind", "listener", "shutdown"}
  /\ fate \in [Requests -> {"none", "active", "done", "cut"}]

TypeOK == RecorderTypes /\ RunTypes

Init ==
  /\ RecorderInit
  /\ main = "start"
  /\ next = 1
  /\ listener = [s \in Servers |-> "none"]
  /\ serve = [s \in Servers |-> "none"]
  /\ failed = {}
  /\ shut = {}
  /\ caught = FALSE /\ asked = FALSE /\ limit = FALSE
  /\ runErr = "none"
  /\ fate = [r \in Requests |-> "none"]

Alive == main \notin {"exited", "killed"}

Running(s) == {r \in Requests : Home[r] = s /\ fate[r] = "active"}

-------------------------------------------------------------------------------
\* startFlightRecorder: without TRACE_DIR, with it, or in vain.
Start ==
  /\ main = "start"
  /\ \/ main' = "bind" /\ UNCHANGED <<recorder, runErr>>
     \/ main' = "bind" /\ StartRecorder /\ UNCHANGED runErr
     \/ main' = "exited" /\ runErr' = "start" /\ UNCHANGED recorder
  /\ UNCHANGED <<next, servers, caught, asked, limit>>

BindFailsOpen ==
  /\ main = "bind"
  /\ next <= N
  /\ runErr' = "bind"
  /\ main' = "defers"
  /\ UNCHANGED <<recorder, next, servers, caught, asked, limit>>

\* bindServers: a listener that cannot be had takes the earlier ones with it.
BindFails ==
  /\ main = "bind"
  /\ next <= N
  /\ listener' = [s \in Servers |-> IF listener[s] = "open" THEN "closed" ELSE listener[s]]
  /\ runErr' = "bind"
  /\ main' = "defers"
  /\ UNCHANGED <<recorder, next, serve, failed, shut, fate, caught, asked, limit>>

Bind ==
  /\ main = "bind"
  /\ next <= N
  /\ listener' = [listener EXCEPT ![next] = "open"]
  /\ next' = next + 1
  /\ UNCHANGED <<recorder, main, serve, failed, shut, fate, caught, asked, limit, runErr>>

\* Once all are bound the signals are caught and the goroutines start.
StartServers ==
  /\ main = "bind"
  /\ next = N + 1
  /\ caught' = TRUE
  /\ serve' = [s \in Servers |-> "starting"]
  /\ main' = "select"
  /\ UNCHANGED <<recorder, next, listener, failed, shut, fate, asked, limit, runErr>>

\* Serve makes its listener known, unless Shutdown has been called before.
ServeBegins(s) ==
  /\ serve[s] = "starting"
  /\ IF s \in shut
     THEN /\ serve' = [serve EXCEPT ![s] = "ended"]
          /\ listener' = [listener EXCEPT ![s] = "closed"]
     ELSE serve' = [serve EXCEPT ![s] = "serving"] /\ UNCHANGED listener
  /\ UNCHANGED <<recorder, main, next, failed, shut, fate, caught, asked, limit, runErr>>

\* Serve returns: with an error of its listener, or because Shutdown closed it.
\* errCh has room for the result of every server.
ServeEnds(s) ==
  /\ serve[s] = "serving"
  /\ serve' = [serve EXCEPT ![s] = "ended"]
  /\ listener' = [listener EXCEPT ![s] = "closed"]
  /\ failed' = IF s \in shut THEN failed ELSE failed \cup {s}
  /\ UNCHANGED <<recorder, main, next, shut, fate, caught, asked, limit, runErr>>

Accept(r) ==
  /\ serve[Home[r]] = "serving"
  /\ listener[Home[r]] = "open"
  /\ fate[r] = "none"
  /\ fate' = [fate EXCEPT ![r] = "active"]
  /\ UNCHANGED <<recorder, main, next, listener, serve, failed, shut, caught, asked, limit, runErr>>

Finish(r) ==
  /\ fate[r] = "active"
  /\ fate' = [fate EXCEPT ![r] = "done"]
  /\ UNCHANGED <<recorder, main, next, listener, serve, failed, shut, caught, asked, limit, runErr>>

\* The select of run: when both are ready it may take either.
ListenerFailed ==
  /\ main = "select"
  /\ failed # {}
  /\ runErr' = "listener"
  /\ main' = "shutdown"
  /\ next' = 1
  /\ UNCHANGED <<recorder, servers, caught, asked, limit>>

StopRequested ==
  /\ main = "select"
  /\ asked
  /\ main' = "shutdown"
  /\ next' = 1
  /\ UNCHANGED <<recorder, servers, caught, asked, limit, runErr>>

\* SIGINT or SIGTERM: caught, it asks for the stop, the second one for nothing
\* more; not caught, it ends the process where it stands.
StopSignal ==
  /\ IF caught THEN asked' = TRUE /\ UNCHANGED main ELSE main' = "killed" /\ UNCHANGED asked
  /\ UNCHANGED <<recorder, next, servers, caught, limit, runErr>>

LimitPasses ==
  /\ main \in {"shutdown", "drain"}
  /\ ~limit
  /\ limit' = TRUE
  /\ UNCHANGED <<recorder, main, next, servers, caught, asked, runErr>>

\* Shutdown of the next server closes its listener and looks for running requests.
Shutdown ==
  /\ main = "shutdown"
  /\ next <= N
  /\ shut' = shut \cup {next}
  /\ listener' = IF serve[next] = "serving" THEN [listener EXCEPT ![next] = "closed"]
                 ELSE listener
  /\ IF Running(next) = {} THEN next' = next + 1 /\ UNCHANGED main
                           ELSE main' = "drain" /\ UNCHANGED next
  /\ UNCHANGED <<recorder, serve, failed, fate, caught, asked, limit, runErr>>

\* It looks again and again, until none is running.
Drained ==
  /\ main = "drain"
  /\ Running(next) = {}
  /\ main' = "shutdown"
  /\ next' = next + 1
  /\ UNCHANGED <<recorder, servers, caught, asked, limit, runErr>>

DrainImpatient ==
  /\ main = "drain"
  /\ fate' = [r \in Requests |-> IF r \in Running(next) THEN "cut" ELSE fate[r]]
  /\ main' = "shutdown"
  /\ next' = next + 1
  /\ UNCHANGED <<recorder, listener, serve, failed, shut, caught, asked, limit, runErr>>

\* Or until the limit passes, which ends the wait even when the last request has
\* just ended; then Close cuts what is left.
DrainExpired ==
  /\ main = "drain"
  /\ limit
  /\ fate' = [r \in Requests |-> IF r \in Running(next) THEN "cut" ELSE fate[r]]
  /\ runErr' = IF runErr = "none" THEN "shutdown" ELSE runErr
  /\ main' = "shutdown"
  /\ next' = next + 1
  /\ UNCHANGED <<recorder, listener, serve, failed, shut, caught, asked, limit>>

\* The end of the loop and the first two deferred calls: signals are no longer
\* caught.
AllShut ==
  /\ main = "shutdown"
  /\ next = N + 1
  /\ caught' = FALSE
  /\ main' = "defers"
  /\ UNCHANGED <<recorder, next, servers, asked, limit, runErr>>

\* The last deferred call, stopFlightRecorder.
StopRecorder ==
  /\ main = "defers"
  /\ IF watcher = "none" THEN main' = "exited" /\ UNCHANGED recorder
                         ELSE main' = "join" /\ StopBegins
  /\ UNCHANGED <<next, servers, caught, asked, limit, runErr>>

JoinRecorder ==
  /\ main = "join"
  /\ StopEnds
  /\ main' = "exited"
  /\ UNCHANGED <<next, servers, caught, asked, limit, runErr>>

Main == \/ Start \/ BindFails \/ Bind \/ StartServers
        \/ ListenerFailed \/ StopRequested
        \/ Shutdown \/ Drained \/ DrainExpired \/ AllShut
        \/ StopRecorder \/ JoinRecorder

\* What does not touch run itself.
Watch == WatcherStep /\ UNCHANGED <<main, next, servers, caught, asked, limit, runErr>>

Record == Usr1 /\ UNCHANGED <<main, next, servers, caught, asked, limit, runErr>>

Next == /\ Alive
        /\ \/ Main
           \/ StopSignal
           \/ LimitPasses
           \/ \E s \in Servers : ServeBegins(s) \/ ServeEnds(s)
           \/ \E r \in Requests : Accept(r) \/ Finish(r)
           \/ Watch
           \/ Record

Spec == Init /\ [][Next]_vars

\* run, the clock and the recorder's goroutine get on.  Nothing is assumed of the
\* requests: one may run for ever.
FairSpec == /\ Spec
            /\ WF_vars(Alive /\ Main) /\ WF_vars(Alive /\ LimitPasses)
            /\ WF_vars(Alive /\ Watch)

-------------------------------------------------------------------------------
\* All listeners or none: no server serves before every one is bound, and when
\* one cannot be bound the ones that were are closed.  A process that returns
\* holds no listener but one whose goroutine has not run at all.
PortsReleased ==
  /\ \A s \in Servers : serve[s] # "none" => \A t \in Servers : listener[t] # "none"
  /\ runErr = "bind" => \A s \in Servers : listener[s] # "open" /\ serve[s] = "none"
  /\ main = "exited" => \A s \in Servers : listener[s] = "open" => serve[s] = "starting"

\* A stop is graceful: a request that was taken is cut only when the 30 seconds
\* are over, never because another server has failed or a second signal has come;
\* and a process that reports success was asked to stop and has cut none.
GracefulStop ==
  /\ \A r \in Requests : fate[r] = "cut" => limit
  /\ main = "exited" /\ runErr = "none" =>
       asked /\ \A r \in Requests : fate[r] \in {"none", "done"}

\* A file under its own name is a whole recording, whatever failed and wherever
\* the process was killed; and a process that returns has left no temporary file
\* and no goroutine at work.
TracesWhole ==
  /\ traces \subseteq {"whole"}
  /\ main = "exited" => temp = "none" /\ watcher \in {"none", "ended"}

\* Asked to stop, the process ends, though requests may run for ever and signals
\* for recordings may come to the last.
StopEndsProcess == asked ~> ~Alive
===============================================================================
