------------------------------- MODULE Rewriting ------------------------------
(***************************************************************************)
(* What the proxy changes in what passes through it, one request of any      *)
(* route: a playlist on its way to the player (LivePlaylist), a playurl       *)
(* request and its answer (QualityRequest, PlayurlRewrite), or a gRPC request *)
(* (GrpcRequest).                                                           *)
(***************************************************************************)
EXTENDS LivePlaylist, PlayurlRewrite, QualityRequest, GrpcRequest

VARIABLE route \* the route of the request

rewriting == <<playlist, route, playurl, quality, grpc>>

\* What the routes have that this request does not take.
NoPlaylist ==
  /\ arrived = "whole" /\ body = <<>> /\ published = FALSE
  /\ trimmed = NothingTrimmed(<<>>, FALSE, FALSE) /\ answer = NoAnswer

NoPlayurl == document = NoDocument /\ publicURL = FALSE /\ table = <<>> /\ played = NotPlayed

NoQuality == path = "other" /\ query = NoQuery /\ asked = NotAsked

NoGrpc == request = NotSent /\ sent = NotSent

\* The answer to a playurl request has nothing to do with what was asked, so that
\* the two are taken one by one.
RewritingInit ==
  \/ route = "media" /\ PlaylistInit /\ NoPlayurl /\ NoQuality /\ NoGrpc
  \/ route = "playurl request" /\ NoPlaylist /\ NoPlayurl /\ QualityInit /\ NoGrpc
  \/ route = "playurl answer" /\ NoPlaylist /\ PlayurlInit /\ NoQuality /\ NoGrpc
  \/ route = "playurl_grpc" /\ NoPlaylist /\ NoPlayurl /\ NoQuality /\ GrpcInit

ServePlaylist ==
  /\ route = "media"
  /\ PlaylistNext
  /\ UNCHANGED <<route, playurl, quality, grpc>>

AskUpstream ==
  /\ route = "playurl request"
  /\ QualityNext
  /\ UNCHANGED <<playlist, route, playurl, grpc>>

AnswerPlayurl ==
  /\ route = "playurl answer"
  /\ PlayurlNext
  /\ UNCHANGED <<playlist, route, quality, grpc>>

ForwardGrpc ==
  /\ route = "playurl_grpc"
  /\ Forward
  /\ UNCHANGED <<playlist, route, playurl, quality>>

RewritingNext == ServePlaylist \/ AskUpstream \/ AnswerPlayurl \/ ForwardGrpc

RewritingSpec == RewritingInit /\ [][RewritingNext]_rewriting
===============================================================================
