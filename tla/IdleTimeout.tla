------------------------------ MODULE IdleTimeout -----------------------------
(***************************************************************************)
(* The watchdog on a media stream: idleTimeoutReadCloser in                 *)
(* internal/proxy/idle_timeout.go around the upstream body, read by the     *)
(* loop of copyBody (server.go), which writes what it reads to the client.  *)
(* Three goroutines meet: the loop, the timer's expire, and the client's    *)
(* departure, which cancels the upstream request.                           *)
(*                                                                         *)
(* A stream is a row of chunks: sent by upstream, taken by body.Read,       *)
(* delivered to the client.  In the proxy nothing calls the wrapper's own   *)
(* Close (the handler closes the body inside it), so expire alone sets      *)
(* closed and timedOut, and timedOut stands for both.                       *)
(***************************************************************************)
EXTENDS Naturals

CONSTANTS Timeout,  \* mediaIdleTimeout, in ticks
          MaxChunks \* bound on the chunks of a stream, for model checking only

ASSUME ConstantsAssumption == Timeout \in Nat \ {0} /\ MaxChunks \in Nat

VARIABLES upstream,   \* "open", "eof" or "failed"
          sent,       \* chunks that have arrived from upstream
          taken,      \* chunks that body.Read has returned
          delivered,  \* chunks that the client has been written
          pc,         \* the loop: in body.Read, before r.mu, in Write, or done
          got,        \* what body.Read returned: a chunk or none, and its error
          armed,      \* the timer is running
          left,       \* ticks until it fires
          pending,    \* expire goroutines started that have not taken r.mu
          timedOut,   \* r.timedOut, and r.closed with it
          closing,    \* expire is between its critical section and body.Close
          bodyClosed, \* the upstream body has been closed
          gone,       \* the client has left; the request's context is cancelled
          result,     \* meta.streamResult
          waited      \* history: ticks of the limit in which upstream's next chunk lay
                      \* waiting while the loop sat in Write, up to expire

loop == <<pc, got, taken, delivered, result>>
watch == <<armed, left, pending, timedOut, closing, waited>>
world == <<upstream, sent, gone>>
vars == <<loop, watch, world, bodyClosed>>

TypeOK ==
  /\ upstream \in {"open", "eof", "failed"}
  /\ sent \in 0 .. MaxChunks
  /\ taken \in 0 .. sent
  /\ delivered \in 0 .. taken
  /\ pc \in {"read", "lock", "write", "done"}
  /\ got \in [chunk : BOOLEAN, end : {"none", "eof", "error"}]
  /\ armed \in BOOLEAN
  /\ left \in 0 .. Timeout
  /\ pending \in Nat
  /\ timedOut \in BOOLEAN
  /\ closing \in BOOLEAN
  /\ bodyClosed \in BOOLEAN
  /\ gone \in BOOLEAN
  /\ result \in {"", "complete", "upstream_stall", "client_cancelled", "error"}
  /\ waited \in Nat

\* newIdleTimeoutReadCloser starts the timer; the loop goes into its first Read.
Init ==
  /\ upstream = "open"
  /\ sent = 0 /\ taken = 0 /\ delivered = 0
  /\ pc = "read"
  /\ got = [chunk |-> FALSE, end |-> "none"]
  /\ armed = TRUE /\ left = Timeout
  /\ pending = 0
  /\ timedOut = FALSE /\ closing = FALSE /\ bodyClosed = FALSE
  /\ gone = FALSE
  /\ result = ""
  /\ waited = 0

-------------------------------------------------------------------------------
\* r.body.Read returns: a chunk that has arrived, alone or with the end of the
\* stream, the end, or an error of upstream, of the cancelled request or of the
\* body that expire has closed under it.
BodyRead ==
  /\ pc = "read"
  /\ \E chunk \in BOOLEAN, end \in {"none", "eof", "error"} :
       /\ chunk \/ end # "none"
       /\ chunk => taken < sent /\ ~bodyClosed
       /\ end = "eof" => /\ upstream = "eof" /\ ~bodyClosed
                         /\ sent = taken + (IF chunk THEN 1 ELSE 0)
       /\ end = "error" => upstream = "failed" \/ gone \/ bodyClosed
       /\ got' = [chunk |-> chunk, end |-> end]
       /\ taken' = IF chunk THEN taken + 1 ELSE taken
  /\ pc' = "lock"
  /\ UNCHANGED <<delivered, result, watch, world, bodyClosed>>

\* The end of the loop, classified by copyBody; the handler's deferred Close
\* closes the body.
Stop(how) == /\ pc' = "done"
             /\ result' = how
             /\ bodyClosed' = TRUE

Failure == IF gone THEN "client_cancelled" ELSE "error"

\* After a chunk, or instead of one, the loop ends or reads on.
ReadOn == CASE got.end = "none"  -> pc' = "read" /\ UNCHANGED <<result, bodyClosed>>
            [] got.end = "eof"   -> Stop("complete")
            [] got.end = "error" -> Stop(Failure)

\* r.timer.Reset: the whole limit lies ahead again.
Reset == armed' = TRUE /\ left' = Timeout /\ waited' = 0

ReadSectionTrustsBody ==
  /\ pc = "lock"
  /\ IF got.chunk
     THEN /\ pc' = "write"
          /\ IF timedOut THEN UNCHANGED <<armed, left, waited>> ELSE Reset
          /\ UNCHANGED <<result, bodyClosed>>
     ELSE ReadOn /\ UNCHANGED <<armed, left, waited>>
  /\ UNCHANGED <<got, taken, delivered, pending, timedOut, closing, world>>

\* Read's critical section: a timed out body ends the loop with the idle error,
\* whatever was read; a chunk restarts the timer, even one that has just fired.
ReadSection ==
  /\ pc = "lock"
  /\ IF timedOut
     THEN Stop("upstream_stall") /\ UNCHANGED <<armed, left, waited>>
     ELSE IF got.chunk
          THEN /\ pc' = "write"
               /\ Reset
               /\ UNCHANGED <<result, bodyClosed>>
          ELSE ReadOn /\ UNCHANGED <<armed, left, waited>>
  /\ UNCHANGED <<got, taken, delivered, pending, timedOut, closing, world>>

\* The client takes the chunk, in its own time, or the write fails because it has
\* left.  Then the error that came with the chunk counts.
Write ==
  /\ pc = "write"
  /\ \/ /\ delivered' = delivered + 1
        /\ ReadOn
     \/ /\ gone
        /\ Stop("client_cancelled")
        /\ UNCHANGED delivered
  /\ UNCHANGED <<got, taken, watch, world>>

-------------------------------------------------------------------------------
\* Upstream's next chunk is there, and the loop is held up by the client.
HeldUp == pc = "write" /\ taken < sent

\* A wait counts for the firing ahead of it if no earlier one has struck or is about to.
Tick == /\ armed
        /\ left > 0
        /\ left' = left - 1
        /\ waited' = IF HeldUp /\ pending = 0 /\ ~timedOut THEN waited + 1 ELSE 0
        /\ UNCHANGED <<loop, world, bodyClosed, armed, pending, timedOut, closing>>

\* The timer fires: expire runs in a goroutine of its own.
TimerFires == /\ armed
              /\ left = 0
              /\ armed' = FALSE
              /\ pending' = pending + 1
              /\ waited' = IF HeldUp THEN waited ELSE 0
              /\ UNCHANGED <<loop, world, bodyClosed, left, timedOut, closing>>

\* expire's critical section.
ExpireSection ==
  /\ pending > 0
  /\ pending' = pending - 1
  /\ timedOut' = TRUE
  /\ closing' = (closing \/ ~timedOut)
  /\ waited' = IF HeldUp THEN waited ELSE 0
  /\ UNCHANGED <<loop, world, bodyClosed, armed, left>>

ExpireLate ==
  /\ closing
  /\ closing' = FALSE
  /\ UNCHANGED <<loop, world, bodyClosed, armed, left, pending, timedOut, waited>>

\* expire closes the body, outside r.mu.
ExpireClose ==
  /\ closing
  /\ closing' = FALSE
  /\ bodyClosed' = TRUE
  /\ UNCHANGED <<loop, world, armed, left, pending, timedOut, waited>>

\* What upstream and the client do.
UpstreamSends == /\ upstream = "open"
                 /\ sent < MaxChunks
                 /\ sent' = sent + 1
                 /\ UNCHANGED <<loop, watch, bodyClosed, upstream, gone>>

UpstreamEnds == /\ upstream = "open"
                /\ upstream' \in {"eof", "failed"}
                /\ UNCHANGED <<loop, watch, bodyClosed, sent, gone>>

ClientLeaves == /\ ~gone
                /\ gone' = TRUE
                /\ UNCHANGED <<loop, watch, bodyClosed, sent, upstream>>

LoopStep == BodyRead \/ ReadSection \/ Write

WatchStep == Tick \/ TimerFires \/ ExpireSection \/ ExpireClose

StreamStep == LoopStep \/ WatchStep \/ UpstreamSends \/ UpstreamEnds

Next == StreamStep \/ ClientLeaves

Spec == Init /\ [][Next]_vars

-------------------------------------------------------------------------------
\* While the loop waits in body.Read for a body nobody has closed, something is
\* under way that will end the wait: the timer runs, or expire is on its way.
\* A Reset that comes between the firing and expire, or an expire that finds the
\* stream alive again, must not leave the loop unguarded.
Guarded == pc = "read" /\ ~bodyClosed => armed \/ pending > 0 \/ closing

\* The log line and the metrics name the true cause: an upstream failure, the
\* client's departure or a stall; in particular the read error that expire's own
\* Close provokes is never taken for a stream error or for the end of the file.
\* A stream reported complete is complete: every chunk that arrived has been
\* written to the client and upstream had ended it.
ResultHasCause ==
  /\ result = "error" => upstream = "failed"
  /\ result = "client_cancelled" => gone
  /\ result = "upstream_stall" => timedOut
  /\ result = "complete" => upstream = "eof" /\ delivered = sent

\* The README gives the limit as the longest time without upstream data.  Stated
\* here: no stream is reported stalled after a limit in every tick of which
\* upstream's next chunk lay waiting, while the loop sat in one Write that the
\* client held up, from the Reset through the firing to expire.
StallMeansSilence == result = "upstream_stall" => waited < Timeout
===============================================================================
