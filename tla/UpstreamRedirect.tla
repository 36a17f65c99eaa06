--------------------------- MODULE UpstreamRedirect ---------------------------
(***************************************************************************)
(* One fetch from upstream with its redirects: fetchAllowedBody and         *)
(* closeRedirectBody of internal/proxy/upstream.go.  At most MaxRedirects    *)
(* redirects are followed, the target of each is checked, and the body of    *)
(* each is drained, for the connection's sake, by a goroutine that races a   *)
(* timer; the body is closed and the goroutine joined before the next        *)
(* request.  The client may leave at any moment, which cancels the fetch.    *)
(***************************************************************************)
EXTENDS Naturals, Sequences

CONSTANTS Hosts,        \* the targets that a request or a redirect may name
          Allowed,      \* those that pass the check of the request's route
          MaxRedirects  \* the redirects that fetchAllowedBody follows

VARIABLES target, \* the target of the next request
          asked,  \* the targets of the requests made, in their order
          fetch,  \* where fetchAllowedBody and closeRedirectBody are
          reply,  \* the response at hand
          open,   \* its body has not been closed by the fetch
          drain,  \* the drain goroutine: "none", "copying" or "done"
          timer,  \* the drain's timer: "off", "running" or "fired"
          gone    \* the client has left; the request's context is cancelled

fetching == <<target, asked, fetch, reply, open, drain, timer>>

\* What the code can tell of a response.  Its body is "empty", "short" enough
\* to be drained, or "long", which stands for one of unknown length too; where
\* it leads is a host, "none" for no Location, "unparsable", or "final" for a
\* status that is no redirect.
Replies == [body : {"empty", "short", "long"},
            leads : Hosts \cup {"none", "unparsable", "final"}]

NoReply == [body |-> "empty", leads |-> "final"]

FetchTypes ==
  /\ target \in Hosts
  /\ asked \in Seq(Hosts) /\ Len(asked) <= MaxRedirects + 1
  /\ fetch \in {"check", "do", "close", "wait", "join", "parse", "reply", "error"}
  /\ reply \in Replies
  /\ open \in BOOLEAN
  /\ drain \in {"none", "copying", "done"}
  /\ timer \in {"off", "running", "fired"}
  /\ gone \in BOOLEAN

FetchInit ==
  /\ target \in Hosts
  /\ asked = <<>>
  /\ fetch = "check"
  /\ reply = NoReply
  /\ open = FALSE
  /\ drain = "none"
  /\ timer = "off"
  /\ gone = FALSE

-------------------------------------------------------------------------------
\* The head of the loop: too many redirects, a target that is not allowed, a
\* context already cancelled, which Do refuses, or on to the request.
Check ==
  /\ fetch = "check"
  /\ fetch' = IF Len(asked) <= MaxRedirects /\ target \in Allowed /\ ~gone THEN "do" ELSE "error"
  /\ UNCHANGED <<target, asked, reply, open, drain, timer, gone>>

\* s.client.Do: it fails, at the latest by the transport's time limits, or
\* returns a response with an open body, even one that comes as the client goes.
Do ==
  /\ fetch = "do"
  /\ asked' = Append(asked, target)
  /\ \/ fetch' = "error" /\ UNCHANGED <<reply, open>>
     \/ /\ \E r \in Replies :
             /\ reply' = r
             /\ fetch' = IF r.leads \in {"final", "none"} THEN "reply" ELSE "close"
        /\ open' = TRUE
  /\ UNCHANGED <<target, drain, timer, gone>>

\* closeRedirectBody: a body that is not worth a drain is closed, for a short one
\* the goroutine and the timer start.
CloseOrDrain ==
  /\ fetch = "close"
  /\ IF reply.body = "short"
     THEN fetch' = "wait" /\ drain' = "copying" /\ timer' = "running" /\ UNCHANGED open
     ELSE fetch' = "parse" /\ open' = FALSE /\ UNCHANGED <<drain, timer>>
  /\ UNCHANGED <<target, asked, reply, gone>>

\* The goroutine's copy ends: with the body, whenever upstream pleases to send
\* it, or with the error that a close or the cancelled request gives it.
CopyEnds ==
  /\ drain = "copying"
  /\ drain' = "done"
  /\ UNCHANGED <<target, asked, fetch, reply, open, timer, gone>>

DrainTimerFires ==
  /\ timer = "running"
  /\ timer' = "fired"
  /\ UNCHANGED <<target, asked, fetch, reply, open, drain, gone>>

\* The select, first case: the copy is done.  The deferred Stop ends the timer.
Drained ==
  /\ fetch = "wait"
  /\ drain = "done"
  /\ open' = FALSE
  /\ timer' = "off"
  /\ drain' = "none"
  /\ fetch' = "parse"
  /\ UNCHANGED <<target, asked, reply, gone>>

DrainTimedOutOpen ==
  /\ fetch = "wait"
  /\ timer = "fired"
  /\ fetch' = "join"
  /\ UNCHANGED <<target, asked, reply, open, drain, timer, gone>>

\* The select, second case: the close ends the copy.
DrainTimedOut ==
  /\ fetch = "wait"
  /\ timer = "fired"
  /\ open' = FALSE
  /\ fetch' = "join"
  /\ UNCHANGED <<target, asked, reply, drain, timer, gone>>

JoinNot ==
  /\ fetch = "join"
  /\ timer' = "off"
  /\ fetch' = "parse"
  /\ UNCHANGED <<target, asked, reply, open, drain, gone>>

\* <-done, and the second close, which does nothing more.
Join ==
  /\ fetch = "join"
  /\ drain = "done"
  /\ timer' = "off"
  /\ drain' = "none"
  /\ fetch' = "parse"
  /\ UNCHANGED <<target, asked, reply, open, gone>>

\* The next target.
Follow ==
  /\ fetch = "parse"
  /\ IF reply.leads \in Hosts
     THEN fetch' = "check" /\ target' = reply.leads
     ELSE fetch' = "error" /\ UNCHANGED target
  /\ UNCHANGED <<asked, reply, open, drain, timer, gone>>

FetchStep == \/ Check \/ Do \/ CloseOrDrain
             \/ CopyEnds \/ DrainTimerFires \/ Drained \/ DrainTimedOut \/ Join
             \/ Follow

\* What must get on by itself: the local steps, a request, which the transport
\* bounds, the timer, and a copy from a body that has been closed.  Nothing is
\* assumed of a body that upstream leaves hanging.
FetchMustGoOn == \/ Check \/ Do \/ CloseOrDrain
                 \/ CopyEnds /\ ~open
                 \/ DrainTimerFires \/ Drained \/ DrainTimedOut \/ Join
                 \/ Follow

-------------------------------------------------------------------------------
\* Between two requests, and when the fetch is over, no goroutine reads a body any
\* more, and no body is open but the one that is handed to the caller.  While a
\* body is drained, something ends the wait though upstream may fall silent: the
\* timer runs, or has fired and the body is about to be closed.
FetchReleases ==
  /\ fetch \in {"check", "do", "parse", "reply", "error"} => drain = "none"
  /\ open => fetch \in {"reply", "close", "wait"}
  /\ fetch = "wait" => drain = "done" \/ timer \in {"running", "fired"}
  /\ fetch = "join" => ~open /\ drain \in {"copying", "done"}
===============================================================================
