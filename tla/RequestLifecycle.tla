--------------------------- MODULE RequestLifecycle ---------------------------
(***************************************************************************)
(* The life of a request: ServeHTTP and the handlers of                     *)
(* internal/proxy/server.go from arrival to the deferred completeRequest,   *)
(* which classifies it and counts it (observability.go).  Every request has *)
(* a goroutine and shares the metrics with the others; its client may leave *)
(* at any moment, which cancels r.Context() and with it what the proxy asks *)
(* of upstream.                                                             *)
(*                                                                         *)
(* A fetch is one step that ends in an answer or an error: MediaFetch has   *)
(* its candidates, WbiKey the key for the quality parameters, IdleTimeout   *)
(* the watchdog on a stream and MediaGroups what a registration does.       *)
(***************************************************************************)
EXTENDS Integers, Sequences, FiniteSets

CONSTANTS Requests

\* However many requests there have been, they can be counted.
ASSUME RequestsAssumption == IsFiniteSet(Requests)

Routes == {"health", "media", "media_registration", "playurl_grpc", "playurl", "not_found"}

Methods == {"GET", "HEAD", "POST", "OPTIONS"}

\* Upstream's statuses, as far as the handlers tell them apart.
Statuses == {200, 206, 403, 500}

VARIABLES route, method, \* what is asked, chosen at the start
          pc,        \* where the handler is; "complete" is the deferred call
          gone,      \* the requests whose client has left
          status,    \* loggingResponseWriter.status
          upstream,  \* meta.upstreamStatus
          grpc,      \* meta.grpcStatus: "" unknown, "ok" for 0, "bad" for another
          quality,   \* meta.qualityParams
          stream,    \* meta.streamResult
          active,    \* metricsStore.active
          metrics,   \* the counters of metricsStore.record
          observed,  \* history: the observations recorded for a request
          whole,     \* history: the answer has been written to its end
          fault      \* history: requests with a trouble not of their client's leaving

request == <<route, method>>
meta == <<upstream, grpc, quality, stream>>
counts == <<active, metrics, observed>>
vars == <<request, pc, gone, status, meta, counts, whole, fault>>

Observations == [result : STRING, status : Nat]

TypeOK ==
  /\ route \in [Requests -> Routes]
  /\ method \in [Requests -> Methods]
  /\ pc \in [Requests -> {"arrived", "body", "quality", "fetch", "readbody", "stream",
                          "flush", "write", "complete", "done"}]
  /\ gone \subseteq Requests
  /\ status \in [Requests -> {0, 200, 204, 206, 400, 403, 500, 502}]
  /\ upstream \in [Requests -> Statuses \cup {0}]
  /\ grpc \in [Requests -> {"", "ok", "bad"}]
  /\ quality \in [Requests -> {"", "upgraded", "unchanged", "failed"}]
  /\ stream \in [Requests -> {"", "complete", "client_cancelled", "error", "upstream_stall"}]
  /\ active \in 0 .. Cardinality({r \in Requests : route[r] = "media"})
  /\ metrics \in [{"requests", "success", "failed", "cancelled"} -> Nat]
  /\ \A r \in Requests : observed[r] \in Seq(Observations)
  /\ whole \subseteq Requests
  /\ fault \subseteq Requests

Init ==
  /\ route \in [Requests -> Routes]
  /\ method \in [Requests -> Methods]
  /\ pc = [r \in Requests |-> "arrived"]
  /\ gone = {}
  /\ status = [r \in Requests |-> 0]
  /\ upstream = [r \in Requests |-> 0]
  /\ grpc = [r \in Requests |-> ""]
  /\ quality = [r \in Requests |-> ""]
  /\ stream = [r \in Requests |-> ""]
  /\ active = 0
  /\ metrics = [c \in {"requests", "success", "failed", "cancelled"} |-> 0]
  /\ observed = [r \in Requests |-> <<>>]
  /\ whole = {}
  /\ fault = {}

-------------------------------------------------------------------------------
\* What the handlers do on their way.

Goto(r, place) == pc' = [pc EXCEPT ![r] = place]

\* WriteHeader: the first status counts.
Reply(r, code) == status' = [status EXCEPT ![r] = IF @ = 0 THEN code ELSE @]

\* http.Error and return.
Refuse(r, code) == /\ Reply(r, code)
                   /\ Goto(r, "complete")
                   /\ UNCHANGED <<stream, whole>>

\* markRequestCancelled and return, without a reply.
Abandon(r) == /\ stream' = [stream EXCEPT ![r] = "client_cancelled"]
              /\ Goto(r, "complete")
              /\ UNCHANGED <<status, whole>>

\* An error met while the client is there has another cause.
Blame(r) == fault' = IF r \in gone THEN fault ELSE fault \cup {r}

AllowedMethods(r) == IF route[r] \in {"media_registration", "playurl_grpc"}
                     THEN {"POST"} ELSE {"GET", "HEAD"}

\* OPTIONS is answered at once, on every route.
Preflight(r) ==
  /\ pc[r] = "arrived"
  /\ method[r] = "OPTIONS"
  /\ Reply(r, 204)
  /\ Goto(r, "complete")
  /\ whole' = whole \cup {r}
  /\ UNCHANGED <<request, gone, meta, counts, fault>>

\* A method that is not allowed, an unknown path, a wrong token, a target, group,
\* content type or registration that is not acceptable; a registration that finds
\* no id.
Reject(r) ==
  /\ pc[r] = "arrived"
  /\ method[r] # "OPTIONS"
  /\ method[r] \in AllowedMethods(r) => route[r] # "health"
  /\ \/ \E code \in {400, 403} : Refuse(r, code)
     \/ route[r] = "media_registration" /\ Refuse(r, 500)
  /\ fault' = fault \cup {r}
  /\ UNCHANGED <<request, gone, upstream, grpc, quality, counts>>

\* The health check, or a registration that is accepted.
AnswerAtOnce(r) ==
  /\ pc[r] = "arrived"
  /\ method[r] \in AllowedMethods(r)
  /\ route[r] \in {"health", "media_registration"}
  /\ Reply(r, 200)
  /\ Goto(r, "complete")
  /\ whole' = whole \cup {r}
  /\ UNCHANGED <<request, gone, meta, counts, fault>>

\* The request passes: a gRPC call has a body to read, a playurl call may get
\* other quality parameters, a media request is fetched.
Admit(r) ==
  /\ pc[r] = "arrived"
  /\ method[r] \in AllowedMethods(r)
  /\ \/ route[r] = "media" /\ Goto(r, "fetch")
     \/ route[r] = "playurl_grpc" /\ Goto(r, "body")
     \/ route[r] = "playurl" /\ Goto(r, "quality")
  /\ UNCHANGED <<request, gone, status, meta, counts, whole, fault>>

\* The body of a gRPC call is read, is too large or cannot be read.
ReadRequestBody(r) ==
  /\ pc[r] = "body"
  /\ \/ Goto(r, "fetch") /\ UNCHANGED <<status, stream, whole, fault>>
     \/ Refuse(r, 400) /\ fault' = fault \cup {r}
     \/ r \in gone /\ Abandon(r) /\ UNCHANGED fault
  /\ UNCHANGED <<request, gone, upstream, grpc, quality, counts>>

\* highestQualityTarget; when it fails the call goes on as it came.
UpgradeQuality(r) ==
  /\ pc[r] = "quality"
  /\ \E q \in {"upgraded", "unchanged", "failed"} : quality' = [quality EXCEPT ![r] = q]
  /\ Goto(r, "fetch")
  /\ UNCHANGED <<request, gone, status, upstream, grpc, stream, counts, whole, fault>>

\* The fetch fails, of its own or because the client has left.
FetchFails(r) ==
  /\ pc[r] = "fetch"
  /\ IF r \in gone THEN Abandon(r) ELSE Refuse(r, 502)
  /\ Blame(r)
  /\ UNCHANGED <<request, gone, upstream, grpc, quality, counts>>

-------------------------------------------------------------------------------
\* The header of upstream's answer has come.

Answered(r, code) ==
  /\ upstream' = [upstream EXCEPT ![r] = code]
  /\ fault' = IF code >= 400 THEN fault \cup {r} ELSE fault

\* copyBody begins: a media stream is counted as active.
StreamStarted(r) == active' = IF route[r] = "media" THEN active + 1 ELSE active

StreamFinishedOnReturn(r) ==
  active' = IF route[r] = "media" /\ active > 0 /\ stream'[r] = "complete"
            THEN active - 1 ELSE active

\* streamFinished is deferred, and runs when copyBody panics too.
StreamFinished(r) ==
  active' = IF route[r] = "media" /\ active > 0 THEN active - 1 ELSE active

\* The status goes out; then the body is copied, if one is asked for.
PassOn(r, code) ==
  /\ Reply(r, code)
  /\ IF method[r] = "HEAD"
     THEN Goto(r, "complete") /\ whole' = whole \cup {r} /\ UNCHANGED active
     ELSE Goto(r, "stream") /\ StreamStarted(r) /\ UNCHANGED whole

\* handleMediaTargets: a part of a playlist is refused, a playlist is read whole,
\* all else is passed on.
AnswerMedia(r) ==
  /\ pc[r] = "fetch"
  /\ route[r] = "media"
  /\ \E code \in Statuses, playlist \in BOOLEAN :
       /\ playlist => method[r] = "GET"
       /\ upstream' = [upstream EXCEPT ![r] = code]
       /\ IF playlist /\ code = 206
          THEN Refuse(r, 502) /\ fault' = fault \cup {r} /\ UNCHANGED active
          ELSE /\ Answered(r, code)
               /\ IF playlist /\ code = 200
                  THEN Goto(r, "readbody") /\ UNCHANGED <<status, active, whole>>
                  ELSE PassOn(r, code)
  /\ UNCHANGED <<request, gone, grpc, quality, stream, metrics, observed>>

\* handlePlayurl: an answer in JSON is read whole, another is passed on.
AnswerPlayurl(r) ==
  /\ pc[r] = "fetch"
  /\ route[r] = "playurl"
  /\ \E code \in Statuses :
       /\ Answered(r, code)
       /\ \/ /\ method[r] = "GET" /\ code = 200
             /\ Goto(r, "readbody")
             /\ UNCHANGED <<status, active, whole>>
          \/ PassOn(r, code)
  /\ UNCHANGED <<request, gone, grpc, quality, stream, metrics, observed>>

\* handleGRPCPlayurl: the header may carry a gRPC status; the body is read whole.
AnswerGRPC(r) ==
  /\ pc[r] = "fetch"
  /\ route[r] = "playurl_grpc"
  /\ \E code \in Statuses, header \in {"", "ok", "bad"} :
       /\ upstream' = [upstream EXCEPT ![r] = code]
       /\ grpc' = [grpc EXCEPT ![r] = header]
       /\ fault' = IF code >= 400 \/ header = "bad" THEN fault \cup {r} ELSE fault
  /\ Goto(r, "readbody")
  /\ UNCHANGED <<request, gone, status, quality, stream, counts, whole>>

-------------------------------------------------------------------------------
\* The body of the answer.

ReadBodyFailsWithReply(r) ==
  /\ pc[r] = "readbody"
  /\ IF route[r] = "playurl_grpc" /\ r \in gone
     THEN /\ Reply(r, 502)
          /\ stream' = [stream EXCEPT ![r] = "client_cancelled"]
          /\ Goto(r, "complete")
          /\ UNCHANGED whole
     ELSE Refuse(r, 502)
  /\ Blame(r)
  /\ UNCHANGED <<request, gone, upstream, grpc, quality, counts>>

\* Reading it fails.  handleGRPCPlayurl asks whether the client has left, and then
\* whether upstream had already refused; the other handlers do not ask.
ReadBodyFails(r) ==
  /\ pc[r] = "readbody"
  /\ IF route[r] = "playurl_grpc" /\ r \in gone
     THEN IF grpc[r] = "bad" \/ upstream[r] >= 400
          THEN Goto(r, "complete") /\ UNCHANGED <<status, stream, whole>>
          ELSE Abandon(r)
     ELSE Refuse(r, 502)
  /\ Blame(r)
  /\ UNCHANGED <<request, gone, upstream, grpc, quality, counts>>

\* A body over its limit, or a playlist that cannot be rewritten, is refused; a
\* playurl answer over its limit is passed on as it is.
BodyUnusable(r) ==
  /\ pc[r] = "readbody"
  /\ IF route[r] = "playurl"
     THEN PassOn(r, upstream[r]) /\ UNCHANGED <<stream, fault>>
     ELSE Refuse(r, 502) /\ fault' = fault \cup {r} /\ UNCHANGED active
  /\ UNCHANGED <<request, gone, upstream, grpc, quality, metrics, observed>>

\* A playlist goes out rewritten, from memory.
PlaylistRead(r) ==
  /\ pc[r] = "readbody"
  /\ route[r] = "media"
  /\ Reply(r, 200)
  /\ Goto(r, "flush")
  /\ StreamStarted(r)
  /\ UNCHANGED <<request, gone, meta, metrics, observed, whole, fault>>

\* A gRPC answer goes out from memory.  The trailer's status replaces the
\* header's; an answer that has neither counts as status 2, UNKNOWN.
GRPCRead(r) ==
  /\ pc[r] = "readbody"
  /\ route[r] = "playurl_grpc"
  /\ \E trailer \in {"", "ok", "bad"} :
       LET final == IF trailer # "" THEN trailer
                    ELSE IF grpc[r] = "" THEN "bad" ELSE grpc[r]
       IN /\ grpc' = [grpc EXCEPT ![r] = final]
          /\ fault' = IF final = "bad" THEN fault \cup {r} ELSE fault
  /\ Reply(r, upstream[r])
  /\ Goto(r, "flush")
  /\ UNCHANGED <<request, gone, upstream, quality, stream, counts, whole>>

\* A playurl answer goes out rewritten, in one Write.
PlayurlRead(r) ==
  /\ pc[r] = "readbody"
  /\ route[r] = "playurl"
  /\ Reply(r, upstream[r])
  /\ Goto(r, "write")
  /\ UNCHANGED <<request, gone, meta, counts, whole, fault>>

\* The end of copyBody: well, or with a panic, past which the deferred calls run.
CopyEnds(r, how) ==
  /\ stream' = [stream EXCEPT ![r] = how]
  /\ whole' = IF how = "complete" THEN whole \cup {r} ELSE whole
  /\ Goto(r, "complete")
  /\ StreamFinished(r)
  /\ UNCHANGED <<request, gone, status, upstream, grpc, quality, metrics, observed>>

CopyCompletes(r) == /\ pc[r] \in {"stream", "flush"}
                    /\ CopyEnds(r, "complete")
                    /\ UNCHANGED fault

\* The watchdog guards what upstream sends with a good status (IdleTimeout).
CopyStalls(r) == /\ pc[r] = "stream"
                 /\ route[r] = "media"
                 /\ status[r] < 400
                 /\ CopyEnds(r, "upstream_stall")
                 /\ fault' = fault \cup {r}

CopyBreaksUnnoticed(r) == /\ pc[r] \in {"stream", "flush"}
                          /\ pc[r] = "flush" => r \in gone
                          /\ CopyEnds(r, IF r \in gone THEN "" ELSE "error")
                          /\ Blame(r)

\* An error of upstream or of the client's connection.  What comes from memory can
\* only fail at the client.
CopyBreaks(r) == /\ pc[r] \in {"stream", "flush"}
                 /\ pc[r] = "flush" => r \in gone
                 /\ CopyEnds(r, IF r \in gone THEN "client_cancelled" ELSE "error")
                 /\ Blame(r)

\* handlePlayurl writes for itself.
WritePlayurl(r) ==
  /\ pc[r] = "write"
  /\ \/ /\ stream' = [stream EXCEPT ![r] = "complete"]
        /\ whole' = whole \cup {r}
     \/ /\ r \in gone
        /\ stream' = [stream EXCEPT ![r] = "error"]
        /\ UNCHANGED whole
  /\ Goto(r, "complete")
  /\ UNCHANGED <<request, gone, status, upstream, grpc, quality, counts, fault>>

-------------------------------------------------------------------------------
\* completeRequest, the deferred call.

Counted(r) == route[r] # "health" /\ method[r] # "OPTIONS"

\* A handler that has written nothing has, for net/http, answered 200; but not
\* when the client had left.
FinalStatus(r) ==
  IF status[r] = 0 /\ stream[r] # "client_cancelled" THEN 200 ELSE status[r]

\* classifyResult
Result(r) ==
  IF grpc[r] = "bad" THEN "grpc_error"
  ELSE IF upstream[r] >= 400 THEN "upstream_rejected"
  ELSE IF stream[r] \in {"client_cancelled", "upstream_stall"} THEN stream[r]
  ELSE IF stream[r] = "error" THEN "stream_error"
  ELSE IF FinalStatus(r) >= 500 THEN "upstream_error"
  ELSE IF FinalStatus(r) >= 400 THEN "client_rejected"
  ELSE IF quality[r] = "failed" THEN "degraded"
  ELSE "ok"

IsFailedResult(result) == result \notin {"ok", "degraded", "client_cancelled"}

\* metricsStore.record, as far as the kinds of results go.
Record(result) ==
  LET kind == IF result = "client_cancelled" THEN "cancelled"
              ELSE IF IsFailedResult(result) THEN "failed" ELSE "success"
  IN metrics' = [metrics EXCEPT !["requests"] = @ + 1, ![kind] = @ + 1]

CompleteOnReturn(r) ==
  /\ pc[r] = "complete"
  /\ stream[r] \in {"", "complete"}
  /\ Goto(r, "done")
  /\ IF Counted(r)
     THEN /\ Record(Result(r))
          /\ observed' = [observed EXCEPT ![r] =
               Append(@, [result |-> Result(r), status |-> FinalStatus(r)])]
     ELSE UNCHANGED <<metrics, observed>>
  /\ UNCHANGED <<request, gone, status, meta, active, whole, fault>>

Complete(r) ==
  /\ pc[r] = "complete"
  /\ Goto(r, "done")
  /\ IF Counted(r)
     THEN /\ Record(Result(r))
          /\ observed' = [observed EXCEPT ![r] =
               Append(@, [result |-> Result(r), status |-> FinalStatus(r)])]
     ELSE UNCHANGED <<metrics, observed>>
  /\ UNCHANGED <<request, gone, status, meta, active, whole, fault>>

Leave(r) == /\ pc[r] # "done"
            /\ r \notin gone
            /\ gone' = gone \cup {r}
            /\ UNCHANGED <<request, pc, status, meta, counts, whole, fault>>

Handle(r) ==
  \/ Preflight(r) \/ Reject(r) \/ AnswerAtOnce(r) \/ Admit(r)
  \/ ReadRequestBody(r) \/ UpgradeQuality(r)
  \/ FetchFails(r) \/ AnswerMedia(r) \/ AnswerPlayurl(r) \/ AnswerGRPC(r)
  \/ ReadBodyFails(r) \/ BodyUnusable(r) \/ PlaylistRead(r) \/ GRPCRead(r) \/ PlayurlRead(r)
  \/ CopyCompletes(r) \/ CopyStalls(r) \/ CopyBreaks(r) \/ WritePlayurl(r)
  \/ Complete(r)

Next == \E r \in Requests : Handle(r) \/ Leave(r)

Spec == Init /\ [][Next]_vars

\* What runs without upstream's help: the steps of the handler's own, and the
\* errors that the cancelled context makes of whatever it is waiting for.
Prompt(r) ==
  \/ pc[r] \notin {"body", "fetch", "readbody", "stream", "flush", "write"} /\ Handle(r)
  \/ r \in gone /\ (ReadRequestBody(r) \/ FetchFails(r) \/ ReadBodyFails(r)
                    \/ CopyBreaks(r) \/ WritePlayurl(r))

FairSpec == Spec /\ \A r \in Requests : WF_vars(Prompt(r))

-------------------------------------------------------------------------------
Done(r) == pc[r] = "done"

Verdict(r) == observed[r][1].result

\* The numbers of the diagnostics page add up: the requests that are over, but for
\* health checks and preflights, are counted once each, whichever way the handler
\* was left, and each as a success, a failure or a cancellation.
CountsAddUp ==
  LET over(kinds) == {r \in Requests : Done(r) /\ Counted(r) /\ Verdict(r) \in kinds}
      number(S) == Cardinality(S)
      counted == {r \in Requests : Done(r) /\ Counted(r)}
  IN /\ \A r \in Requests : Len(observed[r]) = (IF r \in counted THEN 1 ELSE 0)
     /\ metrics["requests"] = number(counted)
     /\ metrics["success"] = number(over({"ok", "degraded"}))
     /\ metrics["cancelled"] = number(over({"client_cancelled"}))
     /\ metrics["requests"] =
          metrics["success"] + metrics["failed"] + metrics["cancelled"]

\* The gauge of active streams is the number of media requests in copyBody; no
\* panic leaves one counted for ever.
GaugeExact ==
  active = Cardinality({r \in Requests : route[r] = "media" /\ pc[r] \in {"stream", "flush"}})

\* What the page shows of a moment is true: the gauge of what runs and the counters
\* of what is over.
CountersTrue == CountsAddUp /\ GaugeExact

\* No request is a success that was not served whole: an answer cut short by
\* whoever, or none at all, is never "ok".
SuccessIsWhole ==
  \A r \in Requests :
    Done(r) /\ Counted(r) /\ Verdict(r) \in {"ok", "degraded"} => r \in whole

\* A request counted as cancelled was cancelled by its client, upstream had not
\* refused it, and the proxy has not made up an answer after the client left.  And
\* whatever the client does, a media stream or a gRPC answer is a stream error only
\* for a cause of its own.
VerdictHasCause ==
  \A r \in Requests :
    Done(r) /\ Counted(r) =>
      /\ Verdict(r) = "client_cancelled" =>
           /\ r \in gone
           /\ upstream[r] < 400 /\ grpc[r] # "bad"
           /\ observed[r][1].status \in {0, upstream[r]}
      /\ Verdict(r) = "stream_error" /\ route[r] # "playurl" => r \in fault

\* When its client has left, a request comes to its end, is counted and leaves no
\* active stream, however silent upstream is.
LeaversAreCounted ==
  \A r \in Requests : r \in gone ~> (Done(r) /\ (Counted(r) => observed[r] # <<>>))

\* The README says that a client's leaving counts as client_cancelled.  Stated
\* here: a request with no other trouble is no failure.
DepartureIsNoFailure ==
  \A r \in Requests :
    Done(r) /\ Counted(r) /\ IsFailedResult(Verdict(r)) => r \in fault
===============================================================================
