---------------------------- MODULE ProcessProofs -----------------------------
(***************************************************************************)
(* Proofs about Process: whatever fails, and at whatever step a signal       *)
(* comes, run releases its listeners, stops gracefully and leaves whole       *)
(* recordings only, for any number of servers and any requests.              *)
(***************************************************************************)
EXTENDS Process, TLAPS

\* The temporary file goes with the place of the recorder's goroutine, and the
\* goroutine with the place of run.
RecorderInv ==
  /\ traces \subseteq {"whole"}
  /\ watcher \in {"close", "rename"} => temp = "whole"
  /\ watcher \in {"none", "select", "create", "ended"} => temp = "none"
  /\ main = "start" => watcher = "none"
  /\ main = "exited" => watcher \in {"none", "ended"}

\* The listeners go with the place of run: opened one by one, made known by their
\* goroutines, and closed, but for a goroutine that has not run, once they are shut.
ListenerInv ==
  /\ main \in {"start", "bind"} => runErr = "none" /\ shut = {}
  /\ main \in {"start", "bind"} => \A s \in Servers : serve[s] = "none"
  /\ main = "start" => next = 1
  /\ main \in {"start", "bind"} =>
       \A s \in Servers : listener[s] = IF s < next THEN "open" ELSE "none"
  /\ main \in {"select", "shutdown", "drain"} =>
       /\ runErr # "bind"
       /\ \A s \in Servers : listener[s] # "none" /\ serve[s] # "none"
  /\ \A s \in Servers : serve[s] # "none" => \A t \in Servers : listener[t] # "none"
  /\ \A s \in Servers : serve[s] = "ended" => listener[s] = "closed"
  /\ runErr = "bind" =>
       /\ main \in {"defers", "join", "exited", "killed"}
       /\ \A s \in Servers : listener[s] # "open" /\ serve[s] = "none"
  /\ runErr = "start" =>
       /\ main \in {"exited", "killed"}
       /\ \A s \in Servers : listener[s] = "none" /\ serve[s] = "none"
  /\ \A s \in shut : listener[s] = "open" => serve[s] = "starting"
  /\ main = "drain" => next \in shut
  /\ main \in {"shutdown", "drain"} => \A s \in Servers : s < next => s \in shut
  /\ main \in {"defers", "join", "exited"} /\ runErr \notin {"bind", "start"} =>
       \A s \in Servers : s \in shut

\* The requests go with the listeners: a server that has been shut takes none, and
\* run passes it only when none of its own is running.
RequestInv ==
  /\ main = "select" => runErr = "none"
  /\ main \in {"shutdown", "drain", "defers", "join", "exited"} /\ runErr = "none" => asked
  /\ \A r \in Requests : fate[r] = "cut" => limit /\ runErr # "none"
  /\ main \in {"shutdown", "drain"} =>
       \A r \in Requests : Home[r] < next => fate[r] # "active"
  /\ main \in {"defers", "join", "exited"} /\ runErr = "none" =>
       \A r \in Requests : fate[r] # "active"

Inv == TypeOK /\ RecorderInv /\ ListenerInv /\ RequestInv

-------------------------------------------------------------------------------
\* The recorder keeps its types: a recording that gets its name is whole.
LEMMA RecorderTypesPreserved ==
  ASSUME RecorderTypes, RecorderInv, [Next]_vars
  PROVE  RecorderTypes'
<1> USE DEF RecorderTypes, RecorderInv
<1>1. CASE Start
  BY <1>1 DEF Start, RecorderInit, StartRecorder, vars, servers, recorder
<1>2. CASE BindFails
  BY <1>2 DEF BindFails, vars, servers, recorder
<1>3. CASE Bind
  BY <1>3 DEF Bind, vars, servers, recorder
<1>4. CASE StartServers
  BY <1>4 DEF StartServers, vars, servers, recorder
<1>5. CASE ListenerFailed
  BY <1>5 DEF ListenerFailed, vars, servers, recorder
<1>6. CASE StopRequested
  BY <1>6 DEF StopRequested, vars, servers, recorder
<1>7. CASE Shutdown
  BY <1>7 DEF Shutdown, Running, vars, servers, recorder
<1>8. CASE Drained
  BY <1>8 DEF Drained, Running, vars, servers, recorder
<1>9. CASE DrainExpired
  BY <1>9 DEF DrainExpired, Running, vars, servers, recorder
<1>10. CASE AllShut
  BY <1>10 DEF AllShut, vars, servers, recorder
<1>11. CASE StopRecorder
  BY <1>11 DEF StopRecorder, StopBegins, vars, servers, recorder
<1>12. CASE JoinRecorder
  BY <1>12 DEF JoinRecorder, StopEnds, vars, servers, recorder
<1>13. CASE StopSignal
  BY <1>13 DEF StopSignal, vars, servers, recorder
<1>14. CASE LimitPasses
  BY <1>14 DEF LimitPasses, vars, servers, recorder
<1>15. ASSUME NEW s \in Servers, ServeBegins(s) PROVE RecorderTypes'
  BY <1>15 DEF ServeBegins, vars, servers, recorder
<1>16. ASSUME NEW s \in Servers, ServeEnds(s) PROVE RecorderTypes'
  BY <1>16 DEF ServeEnds, vars, servers, recorder
<1>17. ASSUME NEW r \in Requests, Accept(r) PROVE RecorderTypes'
  BY <1>17 DEF Accept, vars, servers, recorder
<1>18. ASSUME NEW r \in Requests, Finish(r) PROVE RecorderTypes'
  BY <1>18 DEF Finish, vars, servers, recorder
<1>19. CASE Watch
  <2>1. CASE TakeSignal
    BY <1>19, <2>1 DEF Watch, TakeSignal, vars, servers, recorder
  <2>2. CASE TakeQuit
    BY <1>19, <2>2 DEF Watch, TakeQuit, vars, servers, recorder
  <2>3. CASE CreateTemp
    BY <1>19, <2>3 DEF Watch, CreateTemp, vars, servers, recorder
  <2>4. CASE WriteTo
    BY <1>19, <2>4 DEF Watch, WriteTo, vars, servers, recorder
  <2>5. CASE CloseFile
    BY <1>19, <2>5 DEF Watch, CloseFile, vars, servers, recorder
  <2>6. CASE Rename
    BY <1>19, <2>6 DEF Watch, Rename, vars, servers, recorder
  <2>7. CASE Remove
    BY <1>19, <2>7 DEF Watch, Remove, vars, servers, recorder
  <2> QED
    BY <1>19, <2>1, <2>2, <2>3, <2>4, <2>5, <2>6, <2>7 DEF Watch, WatcherStep
<1>20. CASE Record
  BY <1>20 DEF Record, Usr1, vars, servers, recorder
<1>21. CASE UNCHANGED vars
  BY <1>21 DEF vars, servers, recorder
<1> QED
  BY <1>1, <1>2, <1>3, <1>4, <1>5, <1>6, <1>7, <1>8, <1>9, <1>10, <1>11,
     <1>12, <1>13, <1>14, <1>15, <1>16, <1>17, <1>18, <1>19, <1>20, <1>21
     DEF Next, Main

\* run and the goroutines of its servers keep their types.
LEMMA RunTypesPreserved ==
  ASSUME RunTypes, [Next]_vars
  PROVE  RunTypes'
<1> USE ConstantsAssumption DEF RunTypes, Servers
<1>1. CASE Start
  BY <1>1 DEF Start, RecorderInit, StartRecorder, vars, servers, recorder
<1>2. CASE BindFails
  BY <1>2 DEF BindFails, vars, servers, recorder
<1>3. CASE Bind
  BY <1>3 DEF Bind, vars, servers, recorder
<1>4. CASE StartServers
  BY <1>4 DEF StartServers, vars, servers, recorder
<1>5. CASE ListenerFailed
  BY <1>5 DEF ListenerFailed, vars, servers, recorder
<1>6. CASE StopRequested
  BY <1>6 DEF StopRequested, vars, servers, recorder
<1>7. CASE Shutdown
  BY <1>7 DEF Shutdown, Running, vars, servers, recorder
<1>8. CASE Drained
  BY <1>8 DEF Drained, Running, vars, servers, recorder
<1>9. CASE DrainExpired
  BY <1>9 DEF DrainExpired, Running, vars, servers, recorder
<1>10. CASE AllShut
  BY <1>10 DEF AllShut, vars, servers, recorder
<1>11. CASE StopRecorder
  BY <1>11 DEF StopRecorder, StopBegins, vars, servers, recorder
<1>12. CASE JoinRecorder
  BY <1>12 DEF JoinRecorder, StopEnds, vars, servers, recorder
<1>13. CASE StopSignal
  BY <1>13 DEF StopSignal, vars, servers, recorder
<1>14. CASE LimitPasses
  BY <1>14 DEF LimitPasses, vars, servers, recorder
<1>15. ASSUME NEW s \in Servers, ServeBegins(s) PROVE RunTypes'
  BY <1>15 DEF ServeBegins, vars, servers, recorder
<1>16. ASSUME NEW s \in Servers, ServeEnds(s) PROVE RunTypes'
  BY <1>16 DEF ServeEnds, vars, servers, recorder
<1>17. ASSUME NEW r \in Requests, Accept(r) PROVE RunTypes'
  BY <1>17 DEF Accept, vars, servers, recorder
<1>18. ASSUME NEW r \in Requests, Finish(r) PROVE RunTypes'
  BY <1>18 DEF Finish, vars, servers, recorder
<1>19. CASE Watch
  BY <1>19 DEF Watch, vars, servers, recorder
<1>20. CASE Record
  BY <1>20 DEF Record, vars, servers, recorder
<1>21. CASE UNCHANGED vars
  BY <1>21 DEF vars, servers, recorder
<1> QED
  BY <1>1, <1>2, <1>3, <1>4, <1>5, <1>6, <1>7, <1>8, <1>9, <1>10, <1>11,
     <1>12, <1>13, <1>14, <1>15, <1>16, <1>17, <1>18, <1>19, <1>20, <1>21
     DEF Next, Main

\* Each call of writeFlightRecording, and each end of run, keeps the temporary file
\* in step with the goroutine.
LEMMA RecorderPreserved ==
  ASSUME RecorderInv, [Next]_vars
  PROVE  RecorderInv'
<1> USE DEF RecorderInv
<1>1. CASE Start
  BY <1>1 DEF Start, RecorderInit, StartRecorder, vars, servers, recorder
<1>2. CASE BindFails
  BY <1>2 DEF BindFails, vars, servers, recorder
<1>3. CASE Bind
  BY <1>3 DEF Bind, vars, servers, recorder
<1>4. CASE StartServers
  BY <1>4 DEF StartServers, vars, servers, recorder
<1>5. CASE ListenerFailed
  BY <1>5 DEF ListenerFailed, vars, servers, recorder
<1>6. CASE StopRequested
  BY <1>6 DEF StopRequested, vars, servers, recorder
<1>7. CASE Shutdown
  BY <1>7 DEF Shutdown, Running, vars, servers, recorder
<1>8. CASE Drained
  BY <1>8 DEF Drained, Running, vars, servers, recorder
<1>9. CASE DrainExpired
  BY <1>9 DEF DrainExpired, Running, vars, servers, recorder
<1>10. CASE AllShut
  BY <1>10 DEF AllShut, vars, servers, recorder
<1>11. CASE StopRecorder
  BY <1>11 DEF StopRecorder, StopBegins, vars, servers, recorder
<1>12. CASE JoinRecorder
  BY <1>12 DEF JoinRecorder, StopEnds, vars, servers, recorder
<1>13. CASE StopSignal
  BY <1>13 DEF StopSignal, vars, servers, recorder
<1>14. CASE LimitPasses
  BY <1>14 DEF LimitPasses, vars, servers, recorder
<1>15. ASSUME NEW s \in Servers, ServeBegins(s) PROVE RecorderInv'
  BY <1>15 DEF ServeBegins, vars, servers, recorder
<1>16. ASSUME NEW s \in Servers, ServeEnds(s) PROVE RecorderInv'
  BY <1>16 DEF ServeEnds, vars, servers, recorder
<1>17. ASSUME NEW r \in Requests, Accept(r) PROVE RecorderInv'
  BY <1>17 DEF Accept, vars, servers, recorder
<1>18. ASSUME NEW r \in Requests, Finish(r) PROVE RecorderInv'
  BY <1>18 DEF Finish, vars, servers, recorder
<1>19. CASE Watch
  <2>1. CASE TakeSignal
    BY <1>19, <2>1 DEF Watch, TakeSignal, vars, servers, recorder
  <2>2. CASE TakeQuit
    BY <1>19, <2>2 DEF Watch, TakeQuit, vars, servers, recorder
  <2>3. CASE CreateTemp
    BY <1>19, <2>3 DEF Watch, CreateTemp, vars, servers, recorder
  <2>4. CASE WriteTo
    BY <1>19, <2>4 DEF Watch, WriteTo, vars, servers, recorder
  <2>5. CASE CloseFile
    BY <1>19, <2>5 DEF Watch, CloseFile, vars, servers, recorder
  <2>6. CASE Rename
    BY <1>19, <2>6 DEF Watch, Rename, vars, servers, recorder
  <2>7. CASE Remove
    BY <1>19, <2>7 DEF Watch, Remove, vars, servers, recorder
  <2> QED
    BY <1>19, <2>1, <2>2, <2>3, <2>4, <2>5, <2>6, <2>7 DEF Watch, WatcherStep
<1>20. CASE Record
  BY <1>20 DEF Record, Usr1, vars, servers, recorder
<1>21. CASE UNCHANGED vars
  BY <1>21 DEF vars, servers, recorder
<1> QED
  BY <1>1, <1>2, <1>3, <1>4, <1>5, <1>6, <1>7, <1>8, <1>9, <1>10, <1>11,
     <1>12, <1>13, <1>14, <1>15, <1>16, <1>17, <1>18, <1>19, <1>20, <1>21
     DEF Next, Main

\* Binding, serving and shutting keep the listeners in step with run.
LEMMA ListenersPreserved ==
  ASSUME RunTypes, ListenerInv, [Next]_vars
  PROVE  ListenerInv'
<1> USE ConstantsAssumption DEF ListenerInv, RunTypes, Servers
<1>1. CASE Start
  BY <1>1 DEF Start, RecorderInit, StartRecorder, vars, servers, recorder
<1>2. CASE BindFails
  BY <1>2 DEF BindFails, vars, servers, recorder
<1>3. CASE Bind
  BY <1>3 DEF Bind, vars, servers, recorder
<1>4. CASE StartServers
  BY <1>4 DEF StartServers, vars, servers, recorder
<1>5. CASE ListenerFailed
  BY <1>5 DEF ListenerFailed, vars, servers, recorder
<1>6. CASE StopRequested
  BY <1>6 DEF StopRequested, vars, servers, recorder
<1>7. CASE Shutdown
  <2>1. CASE serve[next] = "serving"
    BY <1>7, <2>1 DEF Shutdown, vars, servers, recorder
  <2>2. CASE serve[next] # "serving"
    BY <1>7, <2>2 DEF Shutdown, vars, servers, recorder
  <2> QED
    BY <2>1, <2>2
<1>8. CASE Drained
  BY <1>8 DEF Drained, Running, vars, servers, recorder
<1>9. CASE DrainExpired
  BY <1>9 DEF DrainExpired, Running, vars, servers, recorder
<1>10. CASE AllShut
  BY <1>10 DEF AllShut, vars, servers, recorder
<1>11. CASE StopRecorder
  BY <1>11 DEF StopRecorder, StopBegins, vars, servers, recorder
<1>12. CASE JoinRecorder
  BY <1>12 DEF JoinRecorder, StopEnds, vars, servers, recorder
<1>13. CASE StopSignal
  BY <1>13 DEF StopSignal, vars, servers, recorder
<1>14. CASE LimitPasses
  BY <1>14 DEF LimitPasses, vars, servers, recorder
<1>15. ASSUME NEW s \in Servers, ServeBegins(s) PROVE ListenerInv'
  BY <1>15 DEF ServeBegins, vars, servers, recorder
<1>16. ASSUME NEW s \in Servers, ServeEnds(s) PROVE ListenerInv'
  BY <1>16 DEF ServeEnds, vars, servers, recorder
<1>17. ASSUME NEW r \in Requests, Accept(r) PROVE ListenerInv'
  BY <1>17 DEF Accept, vars, servers, recorder
<1>18. ASSUME NEW r \in Requests, Finish(r) PROVE ListenerInv'
  BY <1>18 DEF Finish, vars, servers, recorder
<1>19. CASE Watch
  BY <1>19 DEF Watch, vars, servers, recorder
<1>20. CASE Record
  BY <1>20 DEF Record, vars, servers, recorder
<1>21. CASE UNCHANGED vars
  BY <1>21 DEF vars, servers, recorder
<1> QED
  BY <1>1, <1>2, <1>3, <1>4, <1>5, <1>6, <1>7, <1>8, <1>9, <1>10, <1>11,
     <1>12, <1>13, <1>14, <1>15, <1>16, <1>17, <1>18, <1>19, <1>20, <1>21
     DEF Next, Main

\* No server that run has passed in its shutdown has a request running.
LEMMA RequestsPreserved ==
  ASSUME RunTypes, ListenerInv, RequestInv, [Next]_vars
  PROVE  RequestInv'
<1> USE ConstantsAssumption DEF RequestInv, ListenerInv, RunTypes, Servers
<1>1. CASE Start
  BY <1>1 DEF Start, RecorderInit, StartRecorder, vars, servers, recorder
<1>2. CASE BindFails
  BY <1>2 DEF BindFails, vars, servers, recorder
<1>3. CASE Bind
  BY <1>3 DEF Bind, vars, servers, recorder
<1>4. CASE StartServers
  BY <1>4 DEF StartServers, vars, servers, recorder
<1>5. CASE ListenerFailed
  BY <1>5 DEF ListenerFailed, vars, servers, recorder
<1>6. CASE StopRequested
  BY <1>6 DEF StopRequested, vars, servers, recorder
<1>7. CASE Shutdown
  <2>1. Running(next) = {} => \A r \in Requests : Home[r] = next => fate[r] # "active"
    BY DEF Running
  <2> QED
    BY <1>7, <2>1 DEF Shutdown, vars, servers, recorder
<1>8. CASE Drained
  <2>1. Running(next) = {} => \A r \in Requests : Home[r] = next => fate[r] # "active"
    BY DEF Running
  <2> QED
    BY <1>8, <2>1 DEF Drained, vars, servers, recorder
<1>9. CASE DrainExpired
  BY <1>9 DEF DrainExpired, Running, vars, servers, recorder
<1>10. CASE AllShut
  BY <1>10 DEF AllShut, vars, servers, recorder
<1>11. CASE StopRecorder
  BY <1>11 DEF StopRecorder, StopBegins, vars, servers, recorder
<1>12. CASE JoinRecorder
  BY <1>12 DEF JoinRecorder, StopEnds, vars, servers, recorder
<1>13. CASE StopSignal
  BY <1>13 DEF StopSignal, vars, servers, recorder
<1>14. CASE LimitPasses
  BY <1>14 DEF LimitPasses, vars, servers, recorder
<1>15. ASSUME NEW s \in Servers, ServeBegins(s) PROVE RequestInv'
  BY <1>15 DEF ServeBegins, vars, servers, recorder
<1>16. ASSUME NEW s \in Servers, ServeEnds(s) PROVE RequestInv'
  BY <1>16 DEF ServeEnds, vars, servers, recorder
<1>17. ASSUME NEW r \in Requests, Accept(r) PROVE RequestInv'
  BY <1>17 DEF Accept, vars, servers, recorder
<1>18. ASSUME NEW r \in Requests, Finish(r) PROVE RequestInv'
  BY <1>18 DEF Finish, vars, servers, recorder
<1>19. CASE Watch
  BY <1>19 DEF Watch, vars, servers, recorder
<1>20. CASE Record
  BY <1>20 DEF Record, vars, servers, recorder
<1>21. CASE UNCHANGED vars
  BY <1>21 DEF vars, servers, recorder
<1> QED
  BY <1>1, <1>2, <1>3, <1>4, <1>5, <1>6, <1>7, <1>8, <1>9, <1>10, <1>11,
     <1>12, <1>13, <1>14, <1>15, <1>16, <1>17, <1>18, <1>19, <1>20, <1>21
     DEF Next, Main
-------------------------------------------------------------------------------
\* The invariant holds of every reachable state of run.
THEOREM Invariance == Spec => []Inv
<1>1. Init => Inv
  <2> USE DEF Init, RecorderInit
  <2>1. Init => RecorderTypes /\ RecorderInv
    BY DEF RecorderTypes, RecorderInv
  <2>2. Init => RunTypes
    <3>1. Init => next \in 1 .. N + 1
      BY ConstantsAssumption
    <3>2. Init => caught \in BOOLEAN /\ asked \in BOOLEAN /\ limit \in BOOLEAN
      OBVIOUS
    <3>3. Init => /\ listener \in [Servers -> {"none", "open", "closed"}]
                  /\ serve \in [Servers -> {"none", "starting", "serving", "ended"}]
                  /\ fate \in [Requests -> {"none", "active", "done", "cut"}]
      OBVIOUS
    <3> QED
      BY <3>1, <3>2, <3>3 DEF RunTypes
  <2>3. Init => ListenerInv
    BY ConstantsAssumption DEF ListenerInv, Servers
  <2>4. Init => RequestInv
    BY DEF RequestInv
  <2> QED
    BY <2>1, <2>2, <2>3, <2>4 DEF Inv, TypeOK
<1>2. Inv /\ [Next]_vars => Inv'
  BY RecorderTypesPreserved, RunTypesPreserved, RecorderPreserved, ListenersPreserved,
     RequestsPreserved
     DEF Inv, TypeOK
<1> QED
  BY <1>1, <1>2, PTL DEF Spec

\* The variables of run, its goroutines and the recorder keep their types.
THEOREM TypeCorrect == Spec => []TypeOK
<1>1. Inv => TypeOK
  BY DEF Inv
<1> QED
  BY <1>1, Invariance, PTL

\* bindServers binds all listeners or none, and run returns with all of them
\* closed, but for one whose goroutine has not run at all.
THEOREM AllPortsReleased == Spec => []PortsReleased
<1>1. Inv => PortsReleased
  BY DEF Inv, RunTypes, TypeOK, ListenerInv, PortsReleased
<1> QED
  BY <1>1, Invariance, PTL

\* The shutdown of run cuts a request only when the 30 seconds are over, and run
\* returns no error only when it was asked to stop and has cut none.
THEOREM StopsGracefully == Spec => []GracefulStop
<1>1. Inv => GracefulStop
  BY DEF Inv, RunTypes, TypeOK, RequestInv, GracefulStop
<1> QED
  BY <1>1, Invariance, PTL

\* writeFlightRecording gives its name to whole recordings only, and run returns
\* with no temporary file left and its goroutine ended.
THEOREM RecordingsWhole == Spec => []TracesWhole
<1>1. Inv => TracesWhole
  BY DEF Inv, RecorderInv, TracesWhole
<1> QED
  BY <1>1, Invariance, PTL
===============================================================================
