---------------------------- MODULE FlightRecorder ----------------------------
(***************************************************************************)
(* The flight recorder of cmd/bili-acc/flightrecorder_unix.go: a goroutine  *)
(* that writes what the recorder holds to a file whenever SIGUSR1 comes, and *)
(* the function that stops it, in steps that other goroutines, signals and   *)
(* the end of the process may come between.  A recording is written under a  *)
(* temporary name and gets its own name when it is whole.                   *)
(***************************************************************************)
EXTENDS Naturals, FiniteSets

VARIABLES watcher,  \* where the goroutine is; "none" without TRACE_DIR
          tracing,  \* the recorder runs
          notified, \* SIGUSR1 goes to traceSignals
          usr1,     \* traceSignals holds a signal; it has room for one
          quit,     \* done has been closed
          temp,     \* the temporary file: "none", "partial" or "whole"
          traces    \* what the files under their own names are

recorder == <<watcher, tracing, notified, usr1, quit, temp, traces>>

RecorderTypes ==
  /\ watcher \in {"none", "select", "create", "write", "close", "rename", "remove", "ended"}
  /\ tracing \in BOOLEAN
  /\ notified \in BOOLEAN
  /\ usr1 \in BOOLEAN
  /\ quit \in BOOLEAN
  /\ temp \in {"none", "partial", "whole"}
  /\ traces \subseteq {"partial", "whole"}

RecorderInit ==
  /\ watcher = "none"
  /\ tracing = FALSE
  /\ notified = FALSE
  /\ usr1 = FALSE
  /\ quit = FALSE
  /\ temp = "none"
  /\ traces = {}

-------------------------------------------------------------------------------
\* startFlightRecorder, with a directory, when nothing fails.
StartRecorder ==
  /\ tracing' = TRUE
  /\ notified' = TRUE
  /\ watcher' = "select"
  /\ UNCHANGED <<usr1, quit, temp, traces>>

\* SIGUSR1: a second signal while one waits is lost.  Without Notify the runtime
\* ignores it.
Usr1 ==
  /\ notified
  /\ ~usr1
  /\ usr1' = TRUE
  /\ UNCHANGED <<watcher, tracing, notified, quit, temp, traces>>

\* The select of the goroutine; when both are ready it may take either.
TakeSignal ==
  /\ watcher = "select"
  /\ usr1
  /\ usr1' = FALSE
  /\ watcher' = "create"
  /\ UNCHANGED <<tracing, notified, quit, temp, traces>>

TakeQuit ==
  /\ watcher = "select"
  /\ quit
  /\ watcher' = "ended"
  /\ UNCHANGED <<tracing, notified, usr1, quit, temp, traces>>

CreateNamed ==
  /\ watcher = "create"
  /\ \/ watcher' = "write" /\ temp' = "partial" /\ traces' = traces \cup {"partial"}
     \/ watcher' = "select" /\ UNCHANGED <<temp, traces>>
  /\ UNCHANGED <<tracing, notified, usr1, quit>>

\* writeFlightRecording, call by call; each may fail.
CreateTemp ==
  /\ watcher = "create"
  /\ \/ watcher' = "write" /\ temp' = "partial"
     \/ watcher' = "select" /\ UNCHANGED temp
  /\ UNCHANGED <<tracing, notified, usr1, quit, traces>>

\* A recorder that has been stopped writes nothing.
WriteTo ==
  /\ watcher = "write"
  /\ \/ tracing /\ watcher' = "close" /\ temp' = "whole"
     \/ watcher' = "remove" /\ UNCHANGED temp
  /\ UNCHANGED <<tracing, notified, usr1, quit, traces>>

CloseFile ==
  /\ watcher = "close"
  /\ watcher' \in {"rename", "remove"}
  /\ UNCHANGED <<tracing, notified, usr1, quit, temp, traces>>

Rename ==
  /\ watcher = "rename"
  /\ \/ watcher' = "select" /\ traces' = traces \cup {temp} /\ temp' = "none"
     \/ watcher' = "remove" /\ UNCHANGED <<temp, traces>>
  /\ UNCHANGED <<tracing, notified, usr1, quit>>

\* The deferred clean-up of a recording that failed.
Remove ==
  /\ watcher = "remove"
  /\ temp' = "none"
  /\ watcher' = "select"
  /\ UNCHANGED <<tracing, notified, usr1, quit, traces>>

WatcherStep == TakeSignal \/ TakeQuit \/ CreateTemp \/ WriteTo \/ CloseFile \/ Rename \/ Remove

StopBeginsNotified ==
  /\ quit' = TRUE
  /\ UNCHANGED <<watcher, tracing, notified, usr1, temp, traces>>

\* The returned function, up to watcher.Wait and after it.
StopBegins ==
  /\ notified' = FALSE
  /\ quit' = TRUE
  /\ UNCHANGED <<watcher, tracing, usr1, temp, traces>>

StopEnds ==
  /\ watcher = "ended"
  /\ tracing' = FALSE
  /\ UNCHANGED <<watcher, notified, usr1, quit, temp, traces>>
===============================================================================
