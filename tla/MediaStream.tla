------------------------------ MODULE MediaStream -----------------------------
(***************************************************************************)
(* A media answer from the first request to the last byte: the fetch with   *)
(* its redirects (UpstreamRedirect), whose response handleMediaTargets of    *)
(* internal/proxy/server.go wraps in the watchdog and copies to the client   *)
(* (IdleTimeout), as it does for a GET and a status from 200 to 399.  The two *)
(* share the client: one that leaves cancels the request, the drain and the  *)
(* stream alike.                                                            *)
(***************************************************************************)
EXTENDS IdleTimeout

CONSTANTS Hosts, Allowed, MaxRedirects

ASSUME FetchAssumption ==
  /\ Allowed \subseteq Hosts
  /\ {"none", "unparsable", "final"} \cap Hosts = {}
  /\ MaxRedirects \in Nat

VARIABLES target, asked, fetch, reply, open, drain, timer

Fetch == INSTANCE UpstreamRedirect

stream == <<loop, watch, upstream, sent, bodyClosed>>
fetching == <<target, asked, fetch, reply, open, drain, timer>>
mediaVars == <<vars, fetching>>

MediaInit == Init /\ Fetch!FetchInit

\* The handler waits for the fetch.
Fetching == Fetch!FetchStep /\ UNCHANGED stream

\* The response is there, and is copied under the watchdog.
Streaming == fetch = "reply" /\ StreamStep /\ UNCHANGED fetching

Leave == ClientLeaves /\ UNCHANGED fetching

MediaNext == Fetching \/ Streaming \/ Leave

MediaSpec == MediaInit /\ [][MediaNext]_mediaVars

\* Time passes, timers and goroutines run, and the client goes on reading.
\* Nothing is assumed of upstream's bodies: they may fall silent for ever.
Under(step) == fetch = "reply" /\ step /\ UNCHANGED fetching

FairMediaSpec ==
  /\ MediaSpec
  /\ WF_mediaVars(Fetch!FetchMustGoOn /\ UNCHANGED stream)
  /\ WF_mediaVars(Under(BodyRead)) /\ WF_mediaVars(Under(ReadSection))
  /\ WF_mediaVars(Under(Write))
  /\ WF_mediaVars(Under(Tick)) /\ WF_mediaVars(Under(TimerFires))
  /\ WF_mediaVars(Under(ExpireSection)) /\ WF_mediaVars(Under(ExpireClose))

-------------------------------------------------------------------------------
MediaTypeOK == TypeOK /\ Fetch!FetchTypes

Ended == fetch = "error" \/ pc = "done"

\* Whatever happened on the way, redirects, drains, silence, a client that left,
\* when the handler is through nothing of the request is left behind: no body is
\* open, no goroutine drains one, and neither happens between two hops.
BodiesReleased ==
  /\ Fetch!FetchReleases
  /\ Ended => drain = "none" /\ (open => bodyClosed)

\* A request with a client that reads always ends, though upstream may stop
\* sending in the body of a redirect or of the answer without a word; and the
\* watchdog retires: no timer and no expire is left in the end, although nobody
\* stops the timer of a stream that has ended well.
StreamEnds == <>Ended /\ <>[](pc = "done" => ~armed /\ pending = 0 /\ ~closing)
===============================================================================
