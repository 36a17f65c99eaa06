------------------------ MODULE RequestLifecycleProofs ------------------------
(***************************************************************************)
(* For every finite set of requests, whatever they ask and however their    *)
(* steps and their clients' departures interleave: no request that was not  *)
(* served whole counts as a success, a verdict has its cause, and the       *)
(* numbers of the diagnostics page are those of the requests.               *)
(***************************************************************************)
EXTENDS RequestLifecycle, FiniteSetTheorems, TLAPS

\* Every request has its place and its notes.
Domains ==
  /\ DOMAIN route = Requests /\ DOMAIN method = Requests
  /\ DOMAIN pc = Requests /\ DOMAIN status = Requests
  /\ DOMAIN upstream = Requests /\ DOMAIN grpc = Requests
  /\ DOMAIN quality = Requests /\ DOMAIN stream = Requests
  /\ DOMAIN observed = Requests

\* On its way a request has no reply before upstream has answered, and then
\* upstream's own status.
Underway(r) ==
  /\ pc[r] \in {"arrived", "body", "quality", "fetch", "readbody"} => status[r] = 0
  /\ pc[r] \in {"stream", "flush", "write"} => status[r] = upstream[r]
  /\ pc[r] = "readbody" /\ route[r] = "media" => upstream[r] = 200
  /\ pc[r] = "write" => route[r] = "playurl"
  /\ pc[r] \notin {"complete", "done"} => stream[r] = ""

\* When the handler is through, an answer that is not whole shows in what
\* completeRequest looks at, and a cancellation and a stream error have their cause.
Through(r) ==
  pc[r] \in {"complete", "done"} =>
    /\ \/ r \in whole
       \/ grpc[r] = "bad"
       \/ upstream[r] >= 400
       \/ stream[r] \in {"client_cancelled", "error", "upstream_stall"}
       \/ status[r] >= 400
    /\ stream[r] = "client_cancelled" => r \in gone /\ status[r] \in {0, upstream[r]}
    /\ stream[r] = "error" /\ route[r] # "playurl" => r \in fault

\* One observation, when it is due.
Observed(r) ==
  observed[r] = IF pc[r] = "done" /\ Counted(r)
                THEN <<[result |-> Result(r), status |-> FinalStatus(r)]>>
                ELSE <<>>

Story(r) == Underway(r) /\ Through(r) /\ Observed(r)

Stories == \A r \in Requests : Story(r)

-------------------------------------------------------------------------------
\* Every step of a request keeps the others in their place.
LEMMA DomainsPreserved ==
  ASSUME Domains, NEW r \in Requests, Handle(r) \/ Leave(r)
  PROVE  Domains'
<1> USE DEF Domains
<1>1. CASE Preflight(r)
  BY <1>1 DEF Preflight, Reply, Goto, request, meta, counts
<1>2. CASE Reject(r)
  BY <1>2 DEF Reject, Refuse, Reply, Goto, request, meta, counts
<1>3. CASE AnswerAtOnce(r)
  BY <1>3 DEF AnswerAtOnce, Reply, Goto, request, meta, counts
<1>4. CASE Admit(r)
  BY <1>4 DEF Admit, Goto, request, meta, counts
<1>5. CASE ReadRequestBody(r)
  BY <1>5 DEF ReadRequestBody, Refuse, Abandon, Reply, Goto, request, meta, counts
<1>6. CASE UpgradeQuality(r)
  BY <1>6 DEF UpgradeQuality, Goto, request, meta, counts
<1>7. CASE FetchFails(r)
  BY <1>7 DEF FetchFails, Refuse, Abandon, Reply, Goto, Blame, request, meta, counts
<1>8. CASE AnswerMedia(r)
  BY <1>8 DEF AnswerMedia, Refuse, Answered, PassOn, StreamStarted, Reply, Goto, Statuses,
         request, meta, counts
<1>9. CASE AnswerPlayurl(r)
  BY <1>9 DEF AnswerPlayurl, Answered, PassOn, StreamStarted, Reply, Goto, Statuses,
         request, meta, counts
<1>10. CASE AnswerGRPC(r)
  BY <1>10 DEF AnswerGRPC, Goto, Statuses, request, meta, counts
<1>11. CASE ReadBodyFails(r)
  BY <1>11 DEF ReadBodyFails, Refuse, Abandon, Reply, Goto, Blame, request, meta, counts
<1>12. CASE BodyUnusable(r)
  BY <1>12 DEF BodyUnusable, Refuse, PassOn, StreamStarted, Reply, Goto, request, meta,
         counts
<1>13. CASE PlaylistRead(r)
  BY <1>13 DEF PlaylistRead, StreamStarted, Reply, Goto, request, meta, counts
<1>14. CASE GRPCRead(r)
  BY <1>14 DEF GRPCRead, Reply, Goto, request, meta, counts
<1>15. CASE PlayurlRead(r)
  BY <1>15 DEF PlayurlRead, Reply, Goto, request, meta, counts
<1>16. CASE CopyCompletes(r)
  BY <1>16 DEF CopyCompletes, CopyEnds, StreamFinished, Goto, request, meta, counts
<1>17. CASE CopyStalls(r)
  BY <1>17 DEF CopyStalls, CopyEnds, StreamFinished, Goto, request, meta, counts
<1>18. CASE CopyBreaks(r)
  BY <1>18 DEF CopyBreaks, CopyEnds, StreamFinished, Goto, Blame, request, meta, counts
<1>19. CASE WritePlayurl(r)
  BY <1>19 DEF WritePlayurl, Goto, request, meta, counts
<1>20. CASE Complete(r)
  BY <1>20 DEF Complete, Goto, request, meta, counts
<1>21. CASE Leave(r)
  BY <1>21 DEF Leave, request, meta, counts
<1>22. QED
  BY <1>1, <1>2, <1>3, <1>4, <1>5, <1>6, <1>7, <1>8, <1>9, <1>10, <1>11,
     <1>12, <1>13, <1>14, <1>15, <1>16, <1>17, <1>18, <1>19, <1>20, <1>21 DEF Handle

\* A step of one request leaves the others where they are.
LEMMA OthersKept ==
  ASSUME Domains, NEW r \in Requests, Handle(r) \/ Leave(r), NEW q \in Requests \ {r}
  PROVE  /\ pc'[q] = pc[q] /\ status'[q] = status[q]
         /\ upstream'[q] = upstream[q] /\ grpc'[q] = grpc[q]
         /\ quality'[q] = quality[q] /\ stream'[q] = stream[q]
         /\ route'[q] = route[q] /\ method'[q] = method[q]
         /\ observed'[q] = observed[q]
<1> USE DEF Domains
<1>1. CASE Preflight(r)
  BY <1>1 DEF Preflight, Reply, Goto, request, meta, counts
<1>2. CASE Reject(r)
  BY <1>2 DEF Reject, Refuse, Reply, Goto, request, meta, counts
<1>3. CASE AnswerAtOnce(r)
  BY <1>3 DEF AnswerAtOnce, Reply, Goto, request, meta, counts
<1>4. CASE Admit(r)
  BY <1>4 DEF Admit, Goto, request, meta, counts
<1>5. CASE ReadRequestBody(r)
  BY <1>5 DEF ReadRequestBody, Refuse, Abandon, Reply, Goto, request, meta, counts
<1>6. CASE UpgradeQuality(r)
  BY <1>6 DEF UpgradeQuality, Goto, request, meta, counts
<1>7. CASE FetchFails(r)
  BY <1>7 DEF FetchFails, Refuse, Abandon, Reply, Goto, Blame, request, meta, counts
<1>8. CASE AnswerMedia(r)
  BY <1>8 DEF AnswerMedia, Refuse, Answered, PassOn, StreamStarted, Reply, Goto, Statuses,
         request, meta, counts
<1>9. CASE AnswerPlayurl(r)
  BY <1>9 DEF AnswerPlayurl, Answered, PassOn, StreamStarted, Reply, Goto, Statuses,
         request, meta, counts
<1>10. CASE AnswerGRPC(r)
  <2>1. PICK code \in Statuses, header \in {"", "ok", "bad"} :
          /\ upstream' = [upstream EXCEPT ![r] = code]
          /\ grpc' = [grpc EXCEPT ![r] = header]
    BY <1>10 DEF AnswerGRPC
  <2>2. /\ pc' = [pc EXCEPT ![r] = "readbody"]
        /\ UNCHANGED <<route, method, status, quality, stream, observed>>
    BY <1>10 DEF AnswerGRPC, Goto, request, counts
  <2>3. QED
    BY <2>1, <2>2
<1>11. CASE ReadBodyFails(r)
  BY <1>11 DEF ReadBodyFails, Refuse, Abandon, Reply, Goto, Blame, request, meta, counts
<1>12. CASE BodyUnusable(r)
  BY <1>12 DEF BodyUnusable, Refuse, PassOn, StreamStarted, Reply, Goto, request, meta,
         counts
<1>13. CASE PlaylistRead(r)
  BY <1>13 DEF PlaylistRead, StreamStarted, Reply, Goto, request, meta, counts
<1>14. CASE GRPCRead(r)
  BY <1>14 DEF GRPCRead, Reply, Goto, request, meta, counts
<1>15. CASE PlayurlRead(r)
  BY <1>15 DEF PlayurlRead, Reply, Goto, request, meta, counts
<1>16. CASE CopyCompletes(r)
  BY <1>16 DEF CopyCompletes, CopyEnds, StreamFinished, Goto, request, meta, counts
<1>17. CASE CopyStalls(r)
  BY <1>17 DEF CopyStalls, CopyEnds, StreamFinished, Goto, request, meta, counts
<1>18. CASE CopyBreaks(r)
  BY <1>18 DEF CopyBreaks, CopyEnds, StreamFinished, Goto, Blame, request, meta, counts
<1>19. CASE WritePlayurl(r)
  BY <1>19 DEF WritePlayurl, Goto, request, meta, counts
<1>20. CASE Complete(r)
  BY <1>20 DEF Complete, Goto, request, meta, counts
<1>21. CASE Leave(r)
  BY <1>21 DEF Leave, request, meta, counts
<1>22. QED
  BY <1>1, <1>2, <1>3, <1>4, <1>5, <1>6, <1>7, <1>8, <1>9, <1>10, <1>11,
     <1>12, <1>13, <1>14, <1>15, <1>16, <1>17, <1>18, <1>19, <1>20, <1>21 DEF Handle

\* Nor does it note anything of them.
LEMMA OthersNoted ==
  ASSUME NEW r \in Requests, Handle(r) \/ Leave(r), NEW q \in Requests \ {r}
  PROVE  /\ (q \in gone' <=> q \in gone) /\ (q \in whole' <=> q \in whole)
         /\ (q \in fault' <=> q \in fault)
<1>1. CASE Preflight(r)
  BY <1>1 DEF Preflight, Reply, Goto, request, meta, counts
<1>2. CASE Reject(r)
  BY <1>2 DEF Reject, Refuse, Reply, Goto, request, meta, counts
<1>3. CASE AnswerAtOnce(r)
  BY <1>3 DEF AnswerAtOnce, Reply, Goto, request, meta, counts
<1>4. CASE Admit(r)
  BY <1>4 DEF Admit, Goto, request, meta, counts
<1>5. CASE ReadRequestBody(r)
  BY <1>5 DEF ReadRequestBody, Refuse, Abandon, Reply, Goto, request, meta, counts
<1>6. CASE UpgradeQuality(r)
  BY <1>6 DEF UpgradeQuality, Goto, request, meta, counts
<1>7. CASE FetchFails(r)
  BY <1>7 DEF FetchFails, Refuse, Abandon, Reply, Goto, Blame, request, meta, counts
<1>8. CASE AnswerMedia(r)
  BY <1>8 DEF AnswerMedia, Refuse, Answered, PassOn, StreamStarted, Reply, Goto, Statuses,
         request, meta, counts
<1>9. CASE AnswerPlayurl(r)
  BY <1>9 DEF AnswerPlayurl, Answered, PassOn, StreamStarted, Reply, Goto, Statuses,
         request, meta, counts
<1>10. CASE AnswerGRPC(r)
  BY <1>10 DEF AnswerGRPC, Goto, Statuses, request, meta, counts
<1>11. CASE ReadBodyFails(r)
  BY <1>11 DEF ReadBodyFails, Refuse, Abandon, Reply, Goto, Blame, request, meta, counts
<1>12. CASE BodyUnusable(r)
  BY <1>12 DEF BodyUnusable, Refuse, PassOn, StreamStarted, Reply, Goto, request, meta,
         counts
<1>13. CASE PlaylistRead(r)
  BY <1>13 DEF PlaylistRead, StreamStarted, Reply, Goto, request, meta, counts
<1>14. CASE GRPCRead(r)
  BY <1>14 DEF GRPCRead, Reply, Goto, request, meta, counts
<1>15. CASE PlayurlRead(r)
  BY <1>15 DEF PlayurlRead, Reply, Goto, request, meta, counts
<1>16. CASE CopyCompletes(r)
  BY <1>16 DEF CopyCompletes, CopyEnds, StreamFinished, Goto, request, meta, counts
<1>17. CASE CopyStalls(r)
  BY <1>17 DEF CopyStalls, CopyEnds, StreamFinished, Goto, request, meta, counts
<1>18. CASE CopyBreaks(r)
  BY <1>18 DEF CopyBreaks, CopyEnds, StreamFinished, Goto, Blame, request, meta, counts
<1>19. CASE WritePlayurl(r)
  BY <1>19 DEF WritePlayurl, Goto, request, meta, counts
<1>20. CASE Complete(r)
  BY <1>20 DEF Complete, Goto, request, meta, counts
<1>21. CASE Leave(r)
  BY <1>21 DEF Leave, request, meta, counts
<1>22. QED
  BY <1>1, <1>2, <1>3, <1>4, <1>5, <1>6, <1>7, <1>8, <1>9, <1>10, <1>11,
     <1>12, <1>13, <1>14, <1>15, <1>16, <1>17, <1>18, <1>19, <1>20, <1>21 DEF Handle

-------------------------------------------------------------------------------
\* What the handlers have in common.

\* A request that is refused has its error for a trace.
LEMMA RefusalShows ==
  ASSUME Domains, NEW r \in Requests, Underway(r), NEW code \in Nat, code >= 400,
         pc[r] \in {"arrived", "body", "fetch", "readbody"}, Refuse(r, code)
  PROVE  Underway(r)' /\ Through(r)'
<1>1. pc'[r] = "complete"
  BY DEF Domains, Refuse, Goto
<1>2. stream'[r] = "" /\ status[r] = 0
  BY DEF Domains, Refuse, Underway
<1>3. status'[r] = code
  BY <1>2 DEF Domains, Refuse, Reply
<1>4. Underway(r)'
  BY <1>1 DEF Underway
<1>5. Through(r)'
  BY <1>2, <1>3 DEF Through
<1>6. QED
  BY <1>4, <1>5

\* A request that is abandoned has lost its client and has no reply.
LEMMA AbandonmentShows ==
  ASSUME Domains, NEW r \in Requests, Underway(r), r \in gone, UNCHANGED gone,
         pc[r] \in {"body", "fetch", "readbody"}, Abandon(r)
  PROVE  Underway(r)' /\ Through(r)'
<1>1. pc'[r] = "complete" /\ stream'[r] = "client_cancelled" /\ status'[r] = 0
  BY DEF Domains, Abandon, Goto, Underway
<1>2. QED
  BY <1>1 DEF Underway, Through

\* An answer that is passed on has upstream's status, and is whole when it has no
\* body.
LEMMA PassingShows ==
  ASSUME Domains, NEW r \in Requests, Underway(r), NEW code, upstream'[r] = code,
         pc[r] \in {"fetch", "readbody"}, route[r] \in {"media", "playurl"},
         PassOn(r, code), UNCHANGED <<stream, route>>
  PROVE  Underway(r)' /\ Through(r)'
<1>1. status'[r] = code /\ stream'[r] = ""
  BY DEF Domains, PassOn, Reply, Underway
<1>2. (pc'[r] = "complete" /\ r \in whole') \/ pc'[r] = "stream"
  BY DEF Domains, PassOn, Goto
<1>3. QED
  BY <1>1, <1>2 DEF Underway, Through

\* Every step of a request keeps it on its way, or ends it with a trace of what has
\* happened.
LEMMA StoryGoesOn ==
  ASSUME Domains, NEW r \in Requests, Handle(r) \/ Leave(r), Underway(r), Through(r)
  PROVE  Underway(r)' /\ Through(r)'
<1> USE DEF Domains
<1>1. CASE Preflight(r)
  <2>1. pc'[r] = "complete" /\ r \in whole' /\ stream'[r] = stream[r] /\ pc[r] = "arrived"
    BY <1>1 DEF Preflight, Goto, meta
  <2>2. QED
    BY <2>1 DEF Underway, Through
<1>2. CASE Reject(r)
  <2>1. CASE \E code \in {400, 403} : Refuse(r, code)
    <3>1. PICK code \in {400, 403} : Refuse(r, code)
      BY <2>1
    <3>2. code \in Nat /\ code >= 400 /\ pc[r] = "arrived"
      BY <1>2 DEF Reject
    <3>3. QED
      BY <3>1, <3>2, RefusalShows
  <2>2. CASE Refuse(r, 500)
    <3>1. pc[r] = "arrived"
      BY <1>2 DEF Reject
    <3>2. QED
      BY <2>2, <3>1, RefusalShows
  <2>3. QED
    BY <1>2, <2>1, <2>2 DEF Reject
<1>3. CASE AnswerAtOnce(r)
  <2>1. pc'[r] = "complete" /\ r \in whole' /\ stream'[r] = stream[r] /\ pc[r] = "arrived"
    BY <1>3 DEF AnswerAtOnce, Goto, meta
  <2>2. QED
    BY <2>1 DEF Underway, Through
<1>4. CASE Admit(r)
  <2>1. pc[r] = "arrived" /\ pc'[r] \in {"fetch", "body", "quality"}
    BY <1>4 DEF Admit, Goto
  <2>2. status'[r] = status[r] /\ stream'[r] = stream[r]
    BY <1>4 DEF Admit, meta
  <2>3. QED
    BY <2>1, <2>2 DEF Underway, Through
<1>5. CASE ReadRequestBody(r)
  <2>1. CASE Goto(r, "fetch") /\ UNCHANGED <<status, stream, whole, fault>>
    BY <1>5, <2>1 DEF ReadRequestBody, Goto, Domains, Underway, Through
  <2>2. CASE Refuse(r, 400)
    BY <1>5, <2>2, RefusalShows DEF ReadRequestBody
  <2>3. CASE r \in gone /\ Abandon(r)
    BY <1>5, <2>3, AbandonmentShows DEF ReadRequestBody
  <2>4. QED
    BY <1>5, <2>1, <2>2, <2>3 DEF ReadRequestBody
<1>6. CASE UpgradeQuality(r)
  <2>1. /\ pc[r] = "quality" /\ pc'[r] = "fetch"
        /\ stream'[r] = stream[r] /\ status'[r] = status[r]
    BY <1>6 DEF UpgradeQuality, Goto
  <2>2. QED
    BY <2>1 DEF Underway, Through
<1>7. CASE FetchFails(r)
  <2>1. CASE r \in gone /\ Abandon(r)
    BY <1>7, <2>1, AbandonmentShows DEF FetchFails
  <2>2. CASE Refuse(r, 502)
    BY <1>7, <2>2, RefusalShows DEF FetchFails
  <2>3. QED
    BY <1>7, <2>1, <2>2 DEF FetchFails
<1>8. CASE AnswerMedia(r)
  <2>1. PICK code \in Statuses, playlist \in BOOLEAN :
          /\ playlist => method[r] = "GET"
          /\ upstream' = [upstream EXCEPT ![r] = code]
          /\ IF playlist /\ code = 206
             THEN Refuse(r, 502) /\ fault' = fault \cup {r} /\ UNCHANGED active
             ELSE /\ Answered(r, code)
                  /\ IF playlist /\ code = 200
                     THEN Goto(r, "readbody") /\ UNCHANGED <<status, active, whole>>
                     ELSE PassOn(r, code)
    BY <1>8, Zenon DEF AnswerMedia
  <2>2. /\ upstream'[r] = code /\ pc[r] = "fetch" /\ route[r] = "media"
        /\ UNCHANGED <<stream, route, gone>>
    BY <1>8, <2>1 DEF AnswerMedia, Domains, request
  <2>3. CASE code = 200 /\ Goto(r, "readbody") /\ UNCHANGED <<status, active, whole>>
    <3>1. pc'[r] = "readbody" /\ status'[r] = 0 /\ stream'[r] = ""
      BY <2>2, <2>3 DEF Goto, Domains, Underway
    <3>2. QED
      BY <2>2, <2>3, <3>1 DEF Underway, Through
  <2>4. CASE Refuse(r, 502)
    BY <2>2, <2>4, RefusalShows
  <2>5. CASE PassOn(r, code)
    BY <2>2, <2>5, PassingShows
  <2>6. QED
    BY <2>1, <2>3, <2>4, <2>5
<1>9. CASE AnswerPlayurl(r)
  <2>1. PICK code \in Statuses :
          /\ upstream' = [upstream EXCEPT ![r] = code]
          /\ \/ Goto(r, "readbody") /\ UNCHANGED status
             \/ PassOn(r, code)
    BY <1>9 DEF AnswerPlayurl, Answered
  <2>2. /\ upstream'[r] = code /\ pc[r] = "fetch" /\ route[r] = "playurl"
        /\ UNCHANGED <<stream, route, gone>>
    BY <1>9, <2>1 DEF AnswerPlayurl, Domains, request
  <2>3. CASE Goto(r, "readbody") /\ UNCHANGED status
    <3>1. pc'[r] = "readbody" /\ status'[r] = 0 /\ stream'[r] = ""
      BY <2>2, <2>3 DEF Goto, Domains, Underway
    <3>2. QED
      BY <2>2, <3>1 DEF Underway, Through
  <2>4. QED
    BY <2>1, <2>2, <2>3, PassingShows
<1>10. CASE AnswerGRPC(r)
  <2>1. pc[r] = "fetch" /\ route[r] = "playurl_grpc" /\ pc' = [pc EXCEPT ![r] = "readbody"]
    BY <1>10 DEF AnswerGRPC, Goto
  <2>2. UNCHANGED <<status, stream, route>>
    BY <1>10 DEF AnswerGRPC, request
  <2>3. pc'[r] = "readbody" /\ status'[r] = 0 /\ stream'[r] = ""
    BY <2>1, <2>2 DEF Domains, Underway
  <2>4. QED
    BY <2>1, <2>2, <2>3 DEF Underway, Through
<1>11. CASE ReadBodyFails(r)
  <2>1. CASE /\ grpc[r] = "bad" \/ upstream[r] >= 400
             /\ Goto(r, "complete") /\ UNCHANGED <<status, stream, whole>>
    <3>1. pc'[r] = "complete" /\ stream'[r] = "" /\ UNCHANGED <<grpc, upstream>>
      BY <1>11, <2>1 DEF ReadBodyFails, Goto, Domains, Underway
    <3>2. QED
      BY <2>1, <3>1 DEF Underway, Through
  <2>2. CASE r \in gone /\ Abandon(r)
    BY <1>11, <2>2, AbandonmentShows DEF ReadBodyFails
  <2>3. CASE Refuse(r, 502)
    BY <1>11, <2>3, RefusalShows DEF ReadBodyFails
  <2>4. QED
    BY <1>11, <2>1, <2>2, <2>3 DEF ReadBodyFails
<1>12. CASE BodyUnusable(r)
  <2>1. CASE route[r] = "playurl" /\ PassOn(r, upstream[r]) /\ UNCHANGED <<stream, fault>>
    BY <1>12, <2>1, PassingShows DEF BodyUnusable, request
  <2>2. CASE Refuse(r, 502)
    BY <1>12, <2>2, RefusalShows DEF BodyUnusable
  <2>3. QED
    BY <1>12, <2>1, <2>2 DEF BodyUnusable
<1>13. CASE PlaylistRead(r)
  <2>1. /\ pc[r] = "readbody" /\ pc'[r] = "flush" /\ route[r] = "media"
        /\ stream'[r] = stream[r] /\ upstream'[r] = upstream[r]
        /\ status[r] = 0 => status'[r] = 200
    BY <1>13 DEF PlaylistRead, Reply, Goto, meta
  <2>2. QED
    BY <2>1 DEF Underway, Through
<1>14. CASE GRPCRead(r)
  <2>1. /\ pc[r] = "readbody" /\ pc'[r] = "flush"
        /\ stream'[r] = stream[r] /\ upstream'[r] = upstream[r]
        /\ status[r] = 0 => status'[r] = upstream[r]
    BY <1>14 DEF GRPCRead, Reply, Goto
  <2>2. QED
    BY <2>1 DEF Underway, Through
<1>15. CASE PlayurlRead(r)
  <2>1. /\ pc[r] = "readbody" /\ pc'[r] = "write"
        /\ route[r] = "playurl" /\ route'[r] = route[r]
        /\ stream'[r] = stream[r] /\ upstream'[r] = upstream[r]
        /\ status[r] = 0 => status'[r] = upstream[r]
    BY <1>15 DEF PlayurlRead, Reply, Goto, request, meta
  <2>2. QED
    BY <2>1 DEF Underway, Through
<1>16. CASE CopyCompletes(r)
  <2>1. /\ pc'[r] = "complete" /\ stream'[r] = "complete" /\ r \in whole'
    BY <1>16 DEF CopyCompletes, CopyEnds, Goto
  <2>2. QED
    BY <2>1 DEF Underway, Through
<1>17. CASE CopyStalls(r)
  <2>1. /\ pc'[r] = "complete" /\ stream'[r] = "upstream_stall"
    BY <1>17 DEF CopyStalls, CopyEnds, Goto
  <2>2. QED
    BY <2>1 DEF Underway, Through
<1>18. CASE CopyBreaks(r)
  <2>1. /\ pc[r] \in {"stream", "flush"} /\ pc'[r] = "complete"
        /\ status'[r] = status[r] /\ upstream'[r] = upstream[r]
        /\ \/ r \in gone' /\ stream'[r] = "client_cancelled"
           \/ r \in fault' /\ stream'[r] = "error"
    BY <1>18 DEF CopyBreaks, CopyEnds, Goto, Blame
  <2>2. QED
    BY <2>1 DEF Underway, Through
<1>19. CASE WritePlayurl(r)
  <2>1. /\ pc[r] = "write" /\ pc'[r] = "complete" /\ route'[r] = route[r]
        /\ \/ stream'[r] = "complete" /\ r \in whole'
           \/ stream'[r] = "error"
    BY <1>19 DEF WritePlayurl, Goto, request
  <2>2. QED
    BY <2>1 DEF Underway, Through
<1>20. CASE Complete(r)
  <2>1. /\ pc[r] = "complete" /\ pc'[r] = "done"
        /\ route' = route /\ status' = status /\ upstream' = upstream /\ grpc' = grpc
        /\ stream' = stream /\ gone' = gone /\ whole' = whole /\ fault' = fault
    BY <1>20 DEF Complete, Goto, request, meta
  <2>2. QED
    BY <2>1 DEF Underway, Through
<1>21. CASE Leave(r)
  <2>1. /\ pc' = pc /\ route' = route /\ status' = status /\ upstream' = upstream
        /\ grpc' = grpc /\ stream' = stream /\ whole' = whole /\ fault' = fault
    BY <1>21 DEF Leave, request, meta
  <2>2. r \in gone => r \in gone'
    BY <1>21 DEF Leave
  <2>3. Underway(r)'
    BY <2>1 DEF Underway
  <2>4. Through(r)'
    BY <2>1, <2>2 DEF Through
  <2>5. QED
    BY <2>3, <2>4
<1>22. QED
  BY <1>1, <1>2, <1>3, <1>4, <1>5, <1>6, <1>7, <1>8, <1>9, <1>10, <1>11,
     <1>12, <1>13, <1>14, <1>15, <1>16, <1>17, <1>18, <1>19, <1>20, <1>21 DEF Handle

-------------------------------------------------------------------------------
\* What a request asks never changes.
LEMMA RequestKept ==
  ASSUME NEW r \in Requests, Handle(r) \/ Leave(r)
  PROVE  route' = route /\ method' = method
<1>1. CASE Preflight(r)
  BY <1>1 DEF Preflight, Goto, request
<1>2. CASE Reject(r)
  BY <1>2 DEF Reject, Refuse, Goto, request
<1>3. CASE AnswerAtOnce(r)
  BY <1>3 DEF AnswerAtOnce, Goto, request
<1>4. CASE Admit(r)
  BY <1>4 DEF Admit, Goto, request
<1>5. CASE ReadRequestBody(r)
  BY <1>5 DEF ReadRequestBody, Refuse, Abandon, Goto, request
<1>6. CASE UpgradeQuality(r)
  BY <1>6 DEF UpgradeQuality, Goto, request
<1>7. CASE FetchFails(r)
  BY <1>7 DEF FetchFails, Refuse, Abandon, Goto, request
<1>8. CASE AnswerMedia(r)
  BY <1>8 DEF AnswerMedia, Refuse, PassOn, StreamStarted, Goto, request
<1>9. CASE AnswerPlayurl(r)
  BY <1>9 DEF AnswerPlayurl, PassOn, StreamStarted, Goto, request
<1>10. CASE AnswerGRPC(r)
  BY <1>10 DEF AnswerGRPC, Goto, request
<1>11. CASE ReadBodyFails(r)
  BY <1>11 DEF ReadBodyFails, Refuse, Abandon, Goto, request
<1>12. CASE BodyUnusable(r)
  BY <1>12 DEF BodyUnusable, Refuse, PassOn, StreamStarted, Goto, request
<1>13. CASE PlaylistRead(r)
  BY <1>13 DEF PlaylistRead, StreamStarted, Goto, request
<1>14. CASE GRPCRead(r)
  BY <1>14 DEF GRPCRead, Goto, request
<1>15. CASE PlayurlRead(r)
  BY <1>15 DEF PlayurlRead, Goto, request
<1>16. CASE CopyCompletes(r)
  BY <1>16 DEF CopyCompletes, CopyEnds, StreamFinished, Goto, request
<1>17. CASE CopyStalls(r)
  BY <1>17 DEF CopyStalls, CopyEnds, StreamFinished, Goto, request
<1>18. CASE CopyBreaks(r)
  BY <1>18 DEF CopyBreaks, CopyEnds, StreamFinished, Goto, request
<1>19. CASE WritePlayurl(r)
  BY <1>19 DEF WritePlayurl, Goto, request
<1>20. CASE Complete(r)
  BY <1>20 DEF Complete, Goto, request
<1>21. CASE Leave(r)
  BY <1>21 DEF Leave, request
<1>22. QED
  BY <1>1, <1>2, <1>3, <1>4, <1>5, <1>6, <1>7, <1>8, <1>9, <1>10, <1>11, <1>12, <1>13,
     <1>14, <1>15, <1>16, <1>17, <1>18, <1>19, <1>20, <1>21
  DEF Handle

\* Only the deferred call records anything and ends a request.
LEMMA OnlyCompleteRecords ==
  ASSUME Domains, NEW r \in Requests, Handle(r) \/ Leave(r), ~ Complete(r)
  PROVE  /\ metrics' = metrics /\ observed' = observed
         /\ pc[r] # "done" /\ pc'[r] # "done"
<1> USE DEF Domains
<1>1. CASE Preflight(r)
  BY <1>1 DEF Preflight, Goto, counts
<1>2. CASE Reject(r)
  BY <1>2 DEF Reject, Refuse, Goto, counts
<1>3. CASE AnswerAtOnce(r)
  BY <1>3 DEF AnswerAtOnce, Goto, counts
<1>4. CASE Admit(r)
  BY <1>4 DEF Admit, Goto, counts
<1>5. CASE ReadRequestBody(r)
  BY <1>5 DEF ReadRequestBody, Refuse, Abandon, Goto, counts
<1>6. CASE UpgradeQuality(r)
  BY <1>6 DEF UpgradeQuality, Goto, counts
<1>7. CASE FetchFails(r)
  BY <1>7 DEF FetchFails, Refuse, Abandon, Goto, counts
<1>8. CASE AnswerMedia(r)
  BY <1>8 DEF AnswerMedia, Refuse, PassOn, StreamStarted, Goto, counts
<1>9. CASE AnswerPlayurl(r)
  BY <1>9 DEF AnswerPlayurl, PassOn, StreamStarted, Goto, counts
<1>10. CASE AnswerGRPC(r)
  BY <1>10 DEF AnswerGRPC, Goto, counts
<1>11. CASE ReadBodyFails(r)
  BY <1>11 DEF ReadBodyFails, Refuse, Abandon, Goto, counts
<1>12. CASE BodyUnusable(r)
  BY <1>12 DEF BodyUnusable, Refuse, PassOn, StreamStarted, Goto, counts
<1>13. CASE PlaylistRead(r)
  BY <1>13 DEF PlaylistRead, StreamStarted, Goto, counts
<1>14. CASE GRPCRead(r)
  BY <1>14 DEF GRPCRead, Goto, counts
<1>15. CASE PlayurlRead(r)
  BY <1>15 DEF PlayurlRead, Goto, counts
<1>16. CASE CopyCompletes(r)
  BY <1>16 DEF CopyCompletes, CopyEnds, StreamFinished, Goto, counts
<1>17. CASE CopyStalls(r)
  BY <1>17 DEF CopyStalls, CopyEnds, StreamFinished, Goto, counts
<1>18. CASE CopyBreaks(r)
  BY <1>18 DEF CopyBreaks, CopyEnds, StreamFinished, Goto, counts
<1>19. CASE WritePlayurl(r)
  BY <1>19 DEF WritePlayurl, Goto, counts
<1>20. CASE Leave(r)
  BY <1>20 DEF Leave, counts
<1>21. QED
  BY <1>1, <1>2, <1>3, <1>4, <1>5, <1>6, <1>7, <1>8, <1>9, <1>10, <1>11, <1>12, <1>13,
     <1>14, <1>15, <1>16, <1>17, <1>18, <1>19, <1>20
  DEF Handle

\* upstreamStatus is one that upstream has sent, or none.
Upstreams == \A q \in Requests : upstream[q] \in Nat

LEMMA UpstreamsGoOn ==
  ASSUME Domains, Upstreams, NEW r \in Requests, Handle(r) \/ Leave(r)
  PROVE  Upstreams'
<1>1. upstream'[r] = upstream[r] \/ upstream'[r] \in Statuses
  <2>1. CASE Preflight(r)
    BY <2>1 DEF Preflight, meta
  <2>2. CASE Reject(r)
    BY <2>2 DEF Reject, meta
  <2>3. CASE AnswerAtOnce(r)
    BY <2>3 DEF AnswerAtOnce, meta
  <2>4. CASE Admit(r)
    BY <2>4 DEF Admit, meta
  <2>5. CASE ReadRequestBody(r)
    BY <2>5 DEF ReadRequestBody, meta
  <2>6. CASE UpgradeQuality(r)
    BY <2>6 DEF UpgradeQuality, meta
  <2>7. CASE FetchFails(r)
    BY <2>7 DEF FetchFails, meta
  <2>8. CASE AnswerMedia(r)
    BY <2>8 DEF Domains, AnswerMedia, Answered, meta
  <2>9. CASE AnswerPlayurl(r)
    BY <2>9 DEF Domains, AnswerPlayurl, Answered, meta
  <2>10. CASE AnswerGRPC(r)
    BY <2>10 DEF Domains, AnswerGRPC, meta
  <2>11. CASE ReadBodyFails(r)
    BY <2>11 DEF ReadBodyFails, meta
  <2>12. CASE BodyUnusable(r)
    BY <2>12 DEF BodyUnusable, meta
  <2>13. CASE PlaylistRead(r)
    BY <2>13 DEF PlaylistRead, meta
  <2>14. CASE GRPCRead(r)
    BY <2>14 DEF GRPCRead, meta
  <2>15. CASE PlayurlRead(r)
    BY <2>15 DEF PlayurlRead, meta
  <2>16. CASE CopyCompletes(r)
    BY <2>16 DEF CopyCompletes, CopyEnds, meta
  <2>17. CASE CopyStalls(r)
    BY <2>17 DEF CopyStalls, CopyEnds, meta
  <2>18. CASE CopyBreaks(r)
    BY <2>18 DEF CopyBreaks, CopyEnds, meta
  <2>19. CASE WritePlayurl(r)
    BY <2>19 DEF WritePlayurl, meta
  <2>20. CASE Complete(r)
    BY <2>20 DEF Complete, meta
  <2>21. CASE Leave(r)
    BY <2>21 DEF Leave, meta
  <2>22. QED
    BY <2>1, <2>2, <2>3, <2>4, <2>5, <2>6, <2>7, <2>8, <2>9, <2>10, <2>11, <2>12, <2>13,
       <2>14, <2>15, <2>16, <2>17, <2>18, <2>19, <2>20, <2>21
    DEF Handle
<1>2. \A q \in Requests \ {r} : upstream'[q] = upstream[q]
  BY OthersKept
<1>3. QED
  BY <1>1, <1>2 DEF Upstreams, Statuses

\* The request is in copyBody, and the gauge counts it.
Copying(r) == route[r] = "media" /\ pc[r] \in {"stream", "flush"}

\* A request enters copyBody with streamStarted and leaves it with streamFinished.
LEMMA GaugeFollows ==
  ASSUME Domains, NEW r \in Requests, Handle(r) \/ Leave(r)
  PROVE  \/ (Copying(r)' <=> Copying(r)) /\ active' = active
         \/ ~ Copying(r) /\ Copying(r)' /\ active' = active + 1
         \/ /\ Copying(r) /\ ~ Copying(r)'
            /\ active' = IF active > 0 THEN active - 1 ELSE active
<1> USE DEF Domains, Copying
<1>1. CASE Preflight(r)
  BY <1>1 DEF Preflight, Goto, request, counts
<1>2. CASE Reject(r)
  BY <1>2 DEF Reject, Refuse, Goto, request, counts
<1>3. CASE AnswerAtOnce(r)
  BY <1>3 DEF AnswerAtOnce, Goto, request, counts
<1>4. CASE Admit(r)
  BY <1>4 DEF Admit, Goto, request, counts
<1>5. CASE ReadRequestBody(r)
  BY <1>5 DEF ReadRequestBody, Refuse, Abandon, Goto, request, counts
<1>6. CASE UpgradeQuality(r)
  BY <1>6 DEF UpgradeQuality, Goto, request, counts
<1>7. CASE FetchFails(r)
  BY <1>7 DEF FetchFails, Refuse, Abandon, Goto, request, counts
<1>8. CASE AnswerMedia(r)
  BY <1>8 DEF AnswerMedia, Refuse, PassOn, StreamStarted, Goto, request, counts
<1>9. CASE AnswerPlayurl(r)
  BY <1>9 DEF AnswerPlayurl, PassOn, StreamStarted, Goto, request, counts
<1>10. CASE AnswerGRPC(r)
  BY <1>10 DEF AnswerGRPC, Goto, request, counts
<1>11. CASE ReadBodyFails(r)
  BY <1>11 DEF ReadBodyFails, Refuse, Abandon, Goto, request, counts
<1>12. CASE BodyUnusable(r)
  BY <1>12 DEF BodyUnusable, Refuse, PassOn, StreamStarted, Goto, request, counts
<1>13. CASE PlaylistRead(r)
  BY <1>13 DEF PlaylistRead, StreamStarted, Goto, request, counts
<1>14. CASE GRPCRead(r)
  BY <1>14 DEF GRPCRead, Goto, request, counts
<1>15. CASE PlayurlRead(r)
  BY <1>15 DEF PlayurlRead, Goto, request, counts
<1>16. CASE CopyCompletes(r)
  BY <1>16 DEF CopyCompletes, CopyEnds, StreamFinished, Goto, request, counts
<1>17. CASE CopyStalls(r)
  BY <1>17 DEF CopyStalls, CopyEnds, StreamFinished, Goto, request, counts
<1>18. CASE CopyBreaks(r)
  BY <1>18 DEF CopyBreaks, CopyEnds, StreamFinished, Goto, request, counts
<1>19. CASE WritePlayurl(r)
  BY <1>19 DEF WritePlayurl, Goto, request, counts
<1>20. CASE Complete(r)
  BY <1>20 DEF Complete, Goto, request, counts
<1>21. CASE Leave(r)
  BY <1>21 DEF Leave, request, counts
<1>22. QED
  BY <1>1, <1>2, <1>3, <1>4, <1>5, <1>6, <1>7, <1>8, <1>9, <1>10, <1>11, <1>12, <1>13,
     <1>14, <1>15, <1>16, <1>17, <1>18, <1>19, <1>20, <1>21
  DEF Handle

LEMMA GaugeGoesOn ==
  ASSUME Domains, GaugeExact, NEW r \in Requests, Handle(r) \/ Leave(r)
  PROVE  GaugeExact'
<1> DEFINE S == {q \in Requests : Copying(q)}
<1>1. GaugeExact <=> active = Cardinality(S)
  BY DEF GaugeExact, Copying
<1>2. GaugeExact' <=> active' = Cardinality(S')
  BY DEF GaugeExact, Copying
<1>3. IsFiniteSet(S)
  BY RequestsAssumption, FS_Subset
<1>4. \A q \in Requests \ {r} : Copying(q)' <=> Copying(q)
  BY OthersKept DEF Copying
<1>5. CASE (Copying(r)' <=> Copying(r)) /\ active' = active
  <2>1. S' = S
    BY <1>4, <1>5
  <2>2. QED
    BY <1>1, <1>2, <1>5, <2>1
<1>6. CASE ~ Copying(r) /\ Copying(r)' /\ active' = active + 1
  <2>1. S' = S \cup {r} /\ r \notin S
    BY <1>4, <1>6
  <2>2. Cardinality(S') = Cardinality(S) + 1
    BY <1>3, <2>1, FS_AddElement
  <2>3. QED
    BY <1>1, <1>2, <1>6, <2>2
<1>7. CASE /\ Copying(r) /\ ~ Copying(r)'
           /\ active' = IF active > 0 THEN active - 1 ELSE active
  <2>1. S' = S \ {r} /\ r \in S
    BY <1>4, <1>7
  <2>2. Cardinality(S') = Cardinality(S) - 1
    BY <1>3, <2>1, FS_RemoveElement
  <2>3. Cardinality(S) \in Nat /\ Cardinality(S) # 0
    BY <1>3, <2>1, FS_CardinalityType, FS_EmptySet
  <2>4. QED
    BY <1>1, <1>2, <1>7, <2>2, <2>3
<1>8. QED
  BY <1>5, <1>6, <1>7, GaugeFollows

-------------------------------------------------------------------------------
\* The verdict rests on the notes of its request alone.
LEMMA SameNotesSameVerdict ==
  ASSUME NEW q \in Requests,
         status'[q] = status[q], upstream'[q] = upstream[q], grpc'[q] = grpc[q],
         quality'[q] = quality[q], stream'[q] = stream[q],
         route'[q] = route[q], method'[q] = method[q]
  PROVE  /\ Result(q)' = Result(q) /\ FinalStatus(q)' = FinalStatus(q)
         /\ (Counted(q)' <=> Counted(q))
<1>1. FinalStatus(q)' = FinalStatus(q)
  BY DEF FinalStatus
<1>2. Counted(q)' <=> Counted(q)
  BY DEF Counted
<1>3. Result(q)' = Result(q)
  BY <1>1 DEF Result
<1>4. QED
  BY <1>1, <1>2, <1>3

\* The deferred call records one observation of a request that is counted, and
\* nothing of another.
LEMMA CompleteRecords ==
  ASSUME Domains, NEW r \in Requests, Observed(r), Complete(r)
  PROVE  /\ pc[r] # "done" /\ pc'[r] = "done"
         /\ observed[r] = <<>>
         /\ Counted(r) =>
              /\ Record(Result(r))
              /\ observed'[r] = <<[result |-> Result(r), status |-> FinalStatus(r)]>>
         /\ ~ Counted(r) => metrics' = metrics /\ observed' = observed
         /\ Result(r)' = Result(r) /\ FinalStatus(r)' = FinalStatus(r)
         /\ (Counted(r)' <=> Counted(r))
<1>1. pc[r] = "complete" /\ pc'[r] = "done"
  BY DEF Domains, Complete, Goto
<1>2. observed[r] = <<>>
  BY <1>1 DEF Observed
<1>3. /\ route' = route /\ method' = method /\ status' = status /\ upstream' = upstream
      /\ grpc' = grpc /\ quality' = quality /\ stream' = stream
  BY DEF Complete, request, meta
<1>4. /\ Result(r)' = Result(r) /\ FinalStatus(r)' = FinalStatus(r)
      /\ (Counted(r)' <=> Counted(r))
  BY <1>3, SameNotesSameVerdict
<1>5. ASSUME Counted(r)
      PROVE  /\ Record(Result(r))
             /\ observed'[r] = <<[result |-> Result(r), status |-> FinalStatus(r)]>>
  <2>1. /\ Record(Result(r))
        /\ observed' = [observed EXCEPT ![r] =
             Append(observed[r], [result |-> Result(r), status |-> FinalStatus(r)])]
    BY <1>5 DEF Complete
  <2>2. \A x : Append(<<>>, x) = <<x>>
    OBVIOUS
  <2>3. QED
    BY <1>2, <2>1, <2>2 DEF Domains
<1>6. ~ Counted(r) => metrics' = metrics /\ observed' = observed
  BY DEF Complete
<1>7. QED
  BY <1>1, <1>2, <1>4, <1>5, <1>6

LEMMA ObservedGoesOn ==
  ASSUME Domains, NEW r \in Requests, Handle(r) \/ Leave(r), Observed(r)
  PROVE  Observed(r)'
<1>1. CASE Complete(r)
  BY <1>1, CompleteRecords DEF Observed
<1>2. CASE ~ Complete(r)
  BY <1>2, OnlyCompleteRecords DEF Observed
<1>3. QED
  BY <1>1, <1>2

LEMMA StoriesGoOn ==
  ASSUME Domains, Stories, NEW r \in Requests, Handle(r) \/ Leave(r)
  PROVE  Stories'
<1> SUFFICES ASSUME NEW q \in Requests PROVE Story(q)'
  BY DEF Stories
<1>1. Underway(q) /\ Through(q) /\ Observed(q)
  BY DEF Stories, Story
<1>2. CASE q = r
  BY <1>1, <1>2, StoryGoesOn, ObservedGoesOn DEF Story
<1>3. CASE q # r
  <2>1. /\ pc'[q] = pc[q] /\ status'[q] = status[q]
        /\ upstream'[q] = upstream[q] /\ grpc'[q] = grpc[q]
        /\ quality'[q] = quality[q] /\ stream'[q] = stream[q]
        /\ route'[q] = route[q] /\ method'[q] = method[q]
        /\ observed'[q] = observed[q]
    BY <1>3, OthersKept
  <2>2. /\ (q \in gone' <=> q \in gone) /\ (q \in whole' <=> q \in whole)
        /\ (q \in fault' <=> q \in fault)
    BY <1>3, OthersNoted
  <2>3. Underway(q)'
    BY <1>1, <2>1 DEF Underway
  <2>4. Through(q)'
    BY <1>1, <2>1, <2>2 DEF Through
  <2>5. Observed(q)'
    BY <1>1, <2>1, SameNotesSameVerdict DEF Observed
  <2>6. QED
    BY <2>3, <2>4, <2>5 DEF Story
<1>4. QED
  BY <1>2, <1>3

-------------------------------------------------------------------------------
\* The requests that are over and counted, and those of them with such a verdict.
Ended == {q \in Requests : Done(q) /\ Counted(q)}
EndedAs(kinds) == {q \in Requests : Done(q) /\ Counted(q) /\ Verdict(q) \in kinds}

Counters ==
  /\ DOMAIN metrics = {"requests", "success", "failed", "cancelled"}
  /\ metrics["failed"] \in Nat
  /\ metrics["requests"] = Cardinality(Ended)
  /\ metrics["success"] = Cardinality(EndedAs({"ok", "degraded"}))
  /\ metrics["cancelled"] = Cardinality(EndedAs({"client_cancelled"}))
  /\ metrics["requests"] = metrics["success"] + metrics["failed"] + metrics["cancelled"]

\* A request that ends and is counted joins those that are over, under its verdict.
LEMMA EndedGrows ==
  ASSUME Domains, Stories, NEW r \in Requests, Complete(r), Counted(r)
  PROVE  /\ r \notin Ended /\ Ended' = Ended \cup {r}
         /\ \A kinds :
              /\ r \notin EndedAs(kinds)
              /\ EndedAs(kinds)' = IF Result(r) \in kinds THEN EndedAs(kinds) \cup {r}
                                   ELSE EndedAs(kinds)
<1>1. Observed(r)
  BY DEF Stories, Story
<1>2. ~ Done(r) /\ Done(r)' /\ Counted(r)' /\ Verdict(r)' = Result(r)
  <2>1. pc[r] # "done" /\ pc'[r] = "done" /\ Counted(r)'
    BY <1>1, CompleteRecords
  <2>2. observed'[r] = <<[result |-> Result(r), status |-> FinalStatus(r)]>>
    BY <1>1, CompleteRecords
  <2>3. observed'[r][1].result = Result(r)
    BY <2>2
  <2>4. QED
    BY <2>1, <2>3 DEF Done, Verdict
<1>3. \A q \in Requests \ {r} : /\ (Done(q)' <=> Done(q)) /\ (Counted(q)' <=> Counted(q))
                                /\ Verdict(q)' = Verdict(q)
  <2>1. Handle(r)
    BY DEF Handle
  <2>2. QED
    BY <2>1, OthersKept DEF Done, Counted, Verdict
<1>4. r \notin Ended /\ Ended' = Ended \cup {r}
  BY <1>2, <1>3 DEF Ended
<1>5. ASSUME NEW kinds
      PROVE  /\ r \notin EndedAs(kinds)
             /\ EndedAs(kinds)' = IF Result(r) \in kinds THEN EndedAs(kinds) \cup {r}
                                  ELSE EndedAs(kinds)
  BY <1>2, <1>3 DEF EndedAs
<1>6. QED
  BY <1>4, <1>5

\* Any other step leaves them as they are.
LEMMA EndedKept ==
  ASSUME Domains, Stories, NEW r \in Requests, Handle(r) \/ Leave(r),
         ~ (Complete(r) /\ Counted(r))
  PROVE  /\ metrics' = metrics /\ Ended' = Ended
         /\ \A kinds : EndedAs(kinds)' = EndedAs(kinds)
<1>1. Observed(r)
  BY DEF Stories, Story
<1>2. metrics' = metrics /\ ~ (Done(r) /\ Counted(r)) /\ ~ (Done(r)' /\ Counted(r)')
  <2>1. CASE Complete(r)
    BY <1>1, <2>1, CompleteRecords DEF Done
  <2>2. CASE ~ Complete(r)
    BY <2>2, OnlyCompleteRecords DEF Done
  <2>3. QED
    BY <2>1, <2>2
<1>3. \A q \in Requests \ {r} : /\ (Done(q)' <=> Done(q)) /\ (Counted(q)' <=> Counted(q))
                                /\ Verdict(q)' = Verdict(q)
  BY OthersKept DEF Done, Counted, Verdict
<1>4. Ended' = Ended
  BY <1>2, <1>3 DEF Ended
<1>5. ASSUME NEW kinds PROVE EndedAs(kinds)' = EndedAs(kinds)
  BY <1>2, <1>3 DEF EndedAs
<1>6. QED
  BY <1>2, <1>4, <1>5

LEMMA EndedFinite ==
  /\ IsFiniteSet(Ended) /\ Cardinality(Ended) \in Nat
  /\ \A kinds : IsFiniteSet(EndedAs(kinds)) /\ Cardinality(EndedAs(kinds)) \in Nat
<1>1. Ended \subseteq Requests /\ \A kinds : EndedAs(kinds) \subseteq Requests
  BY DEF Ended, EndedAs
<1>2. QED
  BY <1>1, RequestsAssumption, FS_Subset, FS_CardinalityType

LEMMA CountersGoOn ==
  ASSUME Domains, Stories, Counters, NEW r \in Requests, Handle(r) \/ Leave(r)
  PROVE  Counters'
<1>1. CASE ~ (Complete(r) /\ Counted(r))
  <2>1. /\ metrics' = metrics /\ Ended' = Ended
        /\ EndedAs({"ok", "degraded"})' = EndedAs({"ok", "degraded"})
        /\ EndedAs({"client_cancelled"})' = EndedAs({"client_cancelled"})
    BY <1>1, EndedKept
  <2>2. QED
    BY <2>1 DEF Counters
<1>2. CASE Complete(r) /\ Counted(r)
  <2> DEFINE Good == {"ok", "degraded"}
             Left == {"client_cancelled"}
  <2> HIDE DEF Good, Left
  <2>1. /\ r \notin Ended /\ Ended' = Ended \cup {r}
        /\ r \notin EndedAs(Good) /\ r \notin EndedAs(Left)
        /\ EndedAs(Good)' = IF Result(r) \in Good THEN EndedAs(Good) \cup {r}
                            ELSE EndedAs(Good)
        /\ EndedAs(Left)' = IF Result(r) \in Left THEN EndedAs(Left) \cup {r}
                            ELSE EndedAs(Left)
    BY <1>2, EndedGrows
  <2>2. Cardinality(Ended') = Cardinality(Ended) + 1
    BY <2>1, EndedFinite, FS_AddElement
  <2>3. Cardinality(EndedAs(Good)') =
          Cardinality(EndedAs(Good)) + (IF Result(r) \in Good THEN 1 ELSE 0)
    <3>1. IsFiniteSet(EndedAs(Good)) /\ Cardinality(EndedAs(Good)) \in Nat
      BY EndedFinite
    <3>2. Cardinality(EndedAs(Good) \cup {r}) = Cardinality(EndedAs(Good)) + 1
      BY <2>1, <3>1, FS_AddElement
    <3>3. QED
      BY <2>1, <3>1, <3>2
  <2>4. Cardinality(EndedAs(Left)') =
          Cardinality(EndedAs(Left)) + (IF Result(r) \in Left THEN 1 ELSE 0)
    <3>1. IsFiniteSet(EndedAs(Left)) /\ Cardinality(EndedAs(Left)) \in Nat
      BY EndedFinite
    <3>2. Cardinality(EndedAs(Left) \cup {r}) = Cardinality(EndedAs(Left)) + 1
      BY <2>1, <3>1, FS_AddElement
    <3>3. QED
      BY <2>1, <3>1, <3>2
  <2>5. Record(Result(r))
    BY <1>2 DEF Complete
  <2>6. /\ DOMAIN metrics' = {"requests", "success", "failed", "cancelled"}
        /\ metrics'["requests"] = metrics["requests"] + 1
        /\ metrics'["success"] = metrics["success"] + (IF Result(r) \in Good THEN 1 ELSE 0)
        /\ metrics'["cancelled"] =
             metrics["cancelled"] + (IF Result(r) \in Left THEN 1 ELSE 0)
        /\ metrics'["failed"] =
             metrics["failed"] + (IF Result(r) \in Good \cup Left THEN 0 ELSE 1)
    BY <2>5, EndedFinite DEF Record, IsFailedResult, Counters, Good, Left
  <2>7. metrics["success"] = Cardinality(EndedAs(Good))
        /\ metrics["cancelled"] = Cardinality(EndedAs(Left))
        /\ Cardinality(EndedAs(Good)) \in Nat /\ Cardinality(EndedAs(Left)) \in Nat
        /\ Cardinality(Ended) \in Nat
    BY EndedFinite DEF Counters, Good, Left
  <2>8. Good \cap Left = {}
    BY DEF Good, Left
  <2>9. /\ metrics'["requests"] = Cardinality(Ended')
        /\ metrics'["success"] = Cardinality(EndedAs(Good)')
        /\ metrics'["cancelled"] = Cardinality(EndedAs(Left)')
    BY <2>2, <2>3, <2>4, <2>6, <2>7 DEF Counters
  <2>10. /\ metrics'["failed"] \in Nat
         /\ metrics'["requests"] =
              metrics'["success"] + metrics'["failed"] + metrics'["cancelled"]
    BY <2>6, <2>7, <2>8 DEF Counters
  <2>11. QED
    BY <2>6, <2>9, <2>10 DEF Counters, Good, Left
<1>3. QED
  BY <1>1, <1>2

-------------------------------------------------------------------------------
Inv == Domains /\ Upstreams /\ Stories /\ Counters /\ GaugeExact

LEMMA Invariance == Spec => []Inv
<1>1. ASSUME Init PROVE Inv
  <2>1. Domains
    BY <1>1 DEF Init, Domains
  <2>2. /\ \A q \in Requests : /\ pc[q] = "arrived" /\ status[q] = 0 /\ stream[q] = ""
                               /\ observed[q] = <<>>
        /\ active = 0
    BY <1>1 DEF Init
  <2>3. Stories
    BY <2>2 DEF Stories, Story, Underway, Through, Observed
  <2>4. Ended = {} /\ \A kinds : EndedAs(kinds) = {}
    BY <2>2 DEF Ended, EndedAs, Done
  <2>5. Cardinality({}) = 0
    BY FS_EmptySet
  <2>6. Counters
    <3>1. metrics = [c \in {"requests", "success", "failed", "cancelled"} |-> 0]
      BY <1>1 DEF Init
    <3>2. QED
      BY <2>4, <2>5, <3>1 DEF Counters
  <2>7. GaugeExact
    <3>1. {r \in Requests : route[r] = "media" /\ pc[r] \in {"stream", "flush"}} = {}
      BY <2>2
    <3>2. QED
      BY <2>2, <2>5, <3>1 DEF GaugeExact
  <2>8. Upstreams
    <3>1. upstream = [q \in Requests |-> 0]
      BY <1>1 DEF Init
    <3>2. QED
      BY <3>1 DEF Upstreams
  <2>9. QED
    BY <2>1, <2>3, <2>6, <2>7, <2>8 DEF Inv
<1>2. ASSUME Inv, Next PROVE Inv'
  <2>1. PICK r \in Requests : Handle(r) \/ Leave(r)
    BY <1>2 DEF Next
  <2>2. QED
    BY <1>2, <2>1, DomainsPreserved, UpstreamsGoOn, StoriesGoOn, CountersGoOn, GaugeGoesOn
    DEF Inv
<1>3. ASSUME Inv, UNCHANGED vars PROVE Inv'
  <2>1. /\ route' = route /\ method' = method /\ pc' = pc /\ gone' = gone
        /\ status' = status /\ upstream' = upstream /\ grpc' = grpc
        /\ quality' = quality /\ stream' = stream /\ active' = active
        /\ metrics' = metrics /\ observed' = observed /\ whole' = whole
        /\ fault' = fault
    BY <1>3 DEF vars, request, meta, counts
  <2>2. Domains'
    BY <1>3, <2>1 DEF Inv, Domains
  <2>3. Stories'
    <3> SUFFICES ASSUME NEW q \in Requests PROVE Story(q)'
      BY DEF Stories
    <3>1. Underway(q) /\ Through(q) /\ Observed(q)
      BY <1>3 DEF Inv, Stories, Story
    <3>2. Underway(q)'
      BY <2>1, <3>1 DEF Underway
    <3>3. Through(q)'
      BY <2>1, <3>1 DEF Through
    <3>4. Observed(q)'
      BY <2>1, <3>1, SameNotesSameVerdict DEF Observed
    <3>5. QED
      BY <3>2, <3>3, <3>4 DEF Story
  <2>4. Counters'
    <3>1. Ended' = Ended /\ \A kinds : EndedAs(kinds)' = EndedAs(kinds)
      BY <2>1 DEF Ended, EndedAs, Done, Counted, Verdict
    <3>2. QED
      BY <1>3, <2>1, <3>1 DEF Inv, Counters
  <2>5. GaugeExact'
    BY <1>3, <2>1 DEF Inv, GaugeExact
  <2>6. Upstreams'
    BY <1>3, <2>1 DEF Inv, Upstreams
  <2>7. QED
    BY <2>2, <2>3, <2>4, <2>5, <2>6 DEF Inv
<1>4. QED
  BY <1>1, <1>2, <1>3, PTL DEF Spec

-------------------------------------------------------------------------------
\* The numbers of the diagnostics page are those of the requests: each that is over
\* is counted once and under one head, and the gauge counts what is in copyBody
\* (completeRequest, streamStarted, streamFinished).
THEOREM PageIsTrue == Spec => []CountersTrue
<1>1. ASSUME Inv PROVE CountersTrue
  <2>1. ASSUME NEW r \in Requests
        PROVE  Len(observed[r]) = IF Done(r) /\ Counted(r) THEN 1 ELSE 0
    <3>1. Observed(r)
      BY <1>1 DEF Inv, Stories, Story
    <3>2. Len(<<>>) = 0 /\ \A x : Len(<<x>>) = 1
      OBVIOUS
    <3>3. QED
      BY <3>1, <3>2 DEF Observed, Done
  <2>2. CountsAddUp
    <3>1. Counters
      BY <1>1 DEF Inv
    <3>2. QED
      BY <2>1, <3>1 DEF CountsAddUp, Counters, Ended, EndedAs
  <2>3. QED
    BY <1>1, <2>2 DEF Inv, CountersTrue
<1>2. QED
  BY <1>1, Invariance, PTL

\* A request that ends as a success has had its whole answer written, whichever
\* handler it went through and however its steps met the others' and its client's.
THEOREM NoHollowSuccess == Spec => []SuccessIsWhole
<1>1. ASSUME Inv, NEW r \in Requests, Done(r), Counted(r), Verdict(r) \in {"ok", "degraded"}
      PROVE  r \in whole
  <2>1. Through(r) /\ Observed(r)
    BY <1>1 DEF Inv, Stories, Story
  <2>2. Result(r) \in {"ok", "degraded"}
    BY <1>1, <2>1 DEF Observed, Done, Verdict
  <2>3. /\ grpc[r] # "bad" /\ ~ upstream[r] >= 400
        /\ stream[r] \notin {"client_cancelled", "upstream_stall", "error"}
        /\ ~ FinalStatus(r) >= 400
    BY <2>2 DEF Result
  <2>4. ~ status[r] >= 400
    BY <2>3 DEF FinalStatus
  <2>5. QED
    BY <1>1, <2>1, <2>3, <2>4 DEF Through, Done
<1>2. Inv => SuccessIsWhole
  BY <1>1 DEF SuccessIsWhole
<1>3. QED
  BY <1>2, Invariance, PTL

\* A cancellation is the client's doing and hides no refusal of upstream's, and a
\* stream error has a cause besides the client's leaving (classifyResult).
THEOREM VerdictsHaveCauses == Spec => []VerdictHasCause
<1>1. ASSUME Inv, NEW r \in Requests, Done(r), Counted(r)
      PROVE  /\ Verdict(r) = "client_cancelled" =>
                  /\ r \in gone
                  /\ upstream[r] < 400 /\ grpc[r] # "bad"
                  /\ observed[r][1].status \in {0, upstream[r]}
             /\ Verdict(r) = "stream_error" /\ route[r] # "playurl" => r \in fault
  <2>1. Through(r) /\ Observed(r)
    BY <1>1 DEF Inv, Stories, Story
  <2>2. Verdict(r) = Result(r) /\ observed[r][1].status = FinalStatus(r)
    BY <1>1, <2>1 DEF Observed, Done, Verdict
  <2>3. ASSUME Result(r) = "client_cancelled"
        PROVE  r \in gone /\ upstream[r] < 400 /\ grpc[r] # "bad"
               /\ FinalStatus(r) \in {0, upstream[r]}
    <3>1. stream[r] = "client_cancelled" /\ grpc[r] # "bad" /\ ~ upstream[r] >= 400
      BY <2>3 DEF Result
    <3>2. upstream[r] < 400
      BY <1>1, <3>1 DEF Inv, Upstreams
    <3>3. QED
      BY <1>1, <2>1, <3>1, <3>2 DEF Through, Done, FinalStatus
  <2>4. ASSUME Result(r) = "stream_error", route[r] # "playurl" PROVE r \in fault
    <3>1. stream[r] = "error"
      BY <2>4 DEF Result
    <3>2. QED
      BY <1>1, <2>1, <2>4, <3>1 DEF Through, Done
  <2>5. QED
    BY <2>2, <2>3, <2>4
<1>2. Inv => VerdictHasCause
  BY <1>1 DEF VerdictHasCause
<1>3. QED
  BY <1>2, Invariance, PTL
===============================================================================
