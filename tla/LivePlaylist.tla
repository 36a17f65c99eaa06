----------------------------- MODULE LivePlaylist -----------------------------
(***************************************************************************)
(* What becomes of an HLS playlist on its way to the player:                *)
(* handleMediaTargets of internal/proxy/server.go has trimLivePlaylist of    *)
(* playlist.go cut a sliding window down to its last segments, and           *)
(* rewritePlaylist send every address through the proxy.                    *)
(*                                                                         *)
(* A playlist is a sequence of lines.  A line is what the code can tell of   *)
(* it: its tag, or "uri" for an address and "blank" for an empty line; the   *)
(* number, or the identity of the key, map, date or segment that it bears;   *)
(* and where its address points.  "aux" stands for the DATERANGE, GAP and    *)
(* BILI-AUX tags, "other" for the tags that the code does not know.          *)
(***************************************************************************)
EXTENDS Integers, SequencesExt, Subsequences

CONSTANTS Bodies, \* the playlists upstream may send
          Keep    \* livePlaylistSegments

\* The value of a sequence tag that strconv.ParseInt refuses.
Unreadable == -1

SegmentTags == {"blank", "discontinuity", "key", "date", "aux"}

Tags == SegmentTags \cup {"m3u", "sequence", "discontinuitySequence", "start", "map", "byterange",
                          "event", "endlist", "other", "inf", "uri"}

Addresses == {"none", "upstream", "foreign", "proxy"}

Lines == [tag : Tags, val : Int, at : Addresses]

ASSUME PlaylistAssumption ==
  /\ \A body \in Bodies : body \in Seq([tag : Tags, val : Int, at : Addresses \ {"proxy"}])
  /\ Keep \in Nat \ {0}

VARIABLES arrived,   \* "whole", "partial" for a 206, or "unread" for a body that breaks
                     \* off or is longer than maxPlaylistSize
          body,      \* the text of a whole answer
          published, \* PUBLIC_URL is set
          trimmed,   \* what trimLivePlaylist returned
          answer     \* what the player gets

playlist == <<arrived, body, published, trimmed, answer>>

NoAnswer == [status |-> 0, cause |-> "", lines |-> <<>>]

Refusal(cause) == [status |-> 502, cause |-> cause, lines |-> <<>>]

NothingTrimmed(lines, live, malformed) ==
  [lines |-> lines, live |-> live, trimmed |-> FALSE, skipped |-> 0, malformed |-> malformed]

-------------------------------------------------------------------------------
PlacesOf(lines, tag) == {p \in DOMAIN lines : lines[p].tag = tag}

With(lines, tag) == Chosen(lines, PlacesOf(lines, tag))

Without(lines, tag) == Chosen(lines, DOMAIN lines \ PlacesOf(lines, tag))

PlacesInOrder(lines, tag) == Chosen([p \in DOMAIN lines |-> p], PlacesOf(lines, tag))

\* Playlists in which segments cannot be dropped on their own.
MustStayWhole(lines) ==
  \/ \E p \in DOMAIN lines : lines[p].tag \in {"endlist", "event", "byterange"}
  \/ Cardinality(PlacesOf(lines, "map")) > 1
  \/ PlacesOf(lines, "map") # {} /\ PlacesOf(lines, "key") # {}

\* firstSegmentTag: the first of the lines that lead up to the first segment and
\* are about it alone.
FirstSegmentTag(lines, inf) ==
  Min({s \in 1 .. inf : \A p \in s .. inf - 1 : lines[p].tag \in SegmentTags})

CarryFirst(prefix, removed, tag) ==
  LET seen == With(removed \o prefix, tag)
  IN Without(prefix, tag) \o (IF seen = <<>> THEN <<>> ELSE <<Last(seen)>>)

\* carryActivePlaylistTags, for one of its two tags: the latest of them goes to
\* the end of the prefix.
Carry(prefix, removed, tag) ==
  LET seen == With(prefix \o removed, tag)
  IN Without(prefix, tag) \o (IF seen = <<>> THEN <<>> ELSE <<Last(seen)>>)

AdvanceAtTop(lines, tag, delta) ==
  LET at == SelectInSeq(lines, LAMBDA line : line.tag = tag)
  IN IF at = 0 THEN <<[tag |-> tag, val |-> delta, at |-> "none"]>> \o lines
     ELSE IF lines[at].val = Unreadable THEN lines
     ELSE [lines EXCEPT ![at].val = @ + delta]

\* advancePlaylistSequence: a tag that is not there counts from 0.
Advance(lines, tag, delta) ==
  LET at == SelectInSeq(lines, LAMBDA line : line.tag = tag)
      top == IF lines # <<>> /\ lines[1].tag = "m3u" THEN 2 ELSE 1
  IN IF at = 0 THEN InsertAt(lines, top, [tag |-> tag, val |-> delta, at |-> "none"])
     ELSE IF lines[at].val = Unreadable THEN lines
     ELSE [lines EXCEPT ![at].val = @ + delta]

\* trimLivePlaylist, from the first tag of the first segment on: the segments
\* whose EXTINF lines are infs and whose address lines are uris lose the first
\* ones, and the header takes over what they say about the rest.
CutWindow(lines, infs, uris) ==
  LET skipped == Len(infs) - Keep
      first   == FirstSegmentTag(lines, infs[1])
      removed == SubSeq(lines, first, uris[skipped])
      breaks  == Len(With(removed, "discontinuity"))
      header  == Carry(Carry(SubSeq(lines, 1, first - 1), removed, "key"), removed, "map")
      counted == Advance(Without(header, "start"), "sequence", skipped)
      prefix  == IF breaks > 0 THEN Advance(counted, "discontinuitySequence", breaks) ELSE counted
  IN [lines   |-> prefix \o SubSeq(lines, uris[skipped] + 1, Len(lines)),
      live    |-> TRUE, trimmed |-> TRUE, skipped |-> skipped, malformed |-> FALSE]

\* trimLivePlaylist
Trim(lines) ==
  LET infs == PlacesInOrder(lines, "inf")
      uris == [i \in DOMAIN infs |->
                 SelectInSubSeq(lines, infs[i] + 1, Len(lines), LAMBDA line : line.tag = "uri")]
  IN IF MustStayWhole(lines) \/ infs = <<>> THEN NothingTrimmed(lines, FALSE, FALSE)
     ELSE IF \E i \in DOMAIN uris : uris[i] = 0 THEN NothingTrimmed(lines, TRUE, TRUE)
     ELSE IF Len(infs) <= Keep THEN NothingTrimmed(lines, TRUE, FALSE)
     ELSE CutWindow(lines, infs, uris)

RewrittenSegments(lines) ==
  [p \in DOMAIN lines |-> IF lines[p].at = "upstream" /\ lines[p].tag = "uri"
                          THEN [lines[p] EXCEPT !.at = "proxy"] ELSE lines[p]]

\* rewritePlaylist, when it meets no address of a host that is not allowed.
Rewritten(lines) ==
  [p \in DOMAIN lines |-> IF lines[p].at = "upstream"
                          THEN [lines[p] EXCEPT !.at = "proxy"] ELSE lines[p]]

Refuses(lines) == \E p \in DOMAIN lines : lines[p].at = "foreign"

-------------------------------------------------------------------------------
PlaylistInit ==
  /\ \/ arrived = "whole" /\ body \in Bodies
     \/ arrived \in {"partial", "unread"} /\ body = <<>>
  /\ published \in BOOLEAN
  /\ trimmed = NothingTrimmed(<<>>, FALSE, FALSE)
  /\ answer = NoAnswer

\* The playlist branch of handleMediaTargets: an answer that cannot be read whole, or
\* one whose addresses could not be given the proxy's own, is not looked at.
RefusePlaylist ==
  /\ answer = NoAnswer
  /\ arrived # "whole" \/ ~published
  /\ answer' = Refusal(IF arrived = "whole" THEN "PUBLIC_URL" ELSE arrived)
  /\ UNCHANGED <<arrived, body, published, trimmed>>

\* Any other is cut, and what is left of it rewritten, unless it names a foreign host.
Serve ==
  /\ answer = NoAnswer
  /\ arrived = "whole" /\ published
  /\ trimmed' = Trim(body)
  /\ answer' = IF Refuses(trimmed'.lines) THEN Refusal("host")
               ELSE [status |-> 200, cause |-> "", lines |-> Rewritten(trimmed'.lines)]
  /\ UNCHANGED <<arrived, body, published>>

PlaylistNext == RefusePlaylist \/ Serve

-------------------------------------------------------------------------------
(* What a player makes of a playlist, after the rules of HLS.               *)

SequenceStart(lines, tag) ==
  LET tags == With(lines, tag) IN IF tags = <<>> THEN 0 ELSE tags[1].val

InForce(lines, tag) ==
  LET tags == With(lines, tag) IN IF tags = <<>> THEN 0 ELSE Last(tags).val

\* The segment whose address stands at a place, the number-th of the list, with the
\* numbers, the key and the map in force, and what is said of it alone, from a place
\* on.
SegmentAt(lines, from, at, number) ==
  LET past == SubSeq(lines, 1, at - 1)
      own  == SubSeq(lines, from, at - 1)
  IN [segment |-> lines[at].val,
      number  |-> SequenceStart(lines, "sequence") + number - 1,
      period  |-> SequenceStart(lines, "discontinuitySequence") + Len(With(past, "discontinuity")),
      key     |-> InForce(past, "key"),
      map     |-> InForce(past, "map"),
      marks   |-> {own[p] : p \in {q \in DOMAIN own :
                     own[q].tag \in {"discontinuity", "date", "aux"}}}]

Seen(lines) ==
  LET uris == PlacesInOrder(lines, "uri")
  IN [i \in DOMAIN uris |->
       SegmentAt(lines, IF i = 1 THEN 1 ELSE uris[i - 1] + 1, uris[i], i)]

\* Segments as HLS has them: each EXTINF has its address before the next, each
\* address its own EXTINF, and what counts from the start of the list stands ahead.
Regular(lines) ==
  LET infs == PlacesOf(lines, "inf")
      uris == PlacesOf(lines, "uri")
  IN /\ \A p, q \in infs : p < q => \E u \in uris : p < u /\ u < q
     /\ \A u \in uris : \E p \in infs : p < u /\ \A v \in uris : v < u => v < p
     /\ \A p \in infs, q \in DOMAIN lines :
          lines[q].tag \in {"sequence", "discontinuitySequence", "start"} => q < p

\* No line about the whole playlist stands between the first segment and what is
\* said of it alone, and the numbers can be read.
Orderly(lines) ==
  LET inf == SelectInSeq(lines, LAMBDA line : line.tag = "inf")
  IN /\ Regular(lines)
     /\ inf # 0 => \A p \in 1 .. FirstSegmentTag(lines, inf) - 1 :
                     lines[p].tag \notin {"discontinuity", "date", "aux"}
     /\ \A p \in DOMAIN lines : lines[p].val # Unreadable

\* The player of a cut playlist sees the last segments of what upstream sent, and
\* of each the same number, discontinuity period, key, map, date and marks:
\* nothing shifts when segments go, whatever tags went with them.  A list with no
\* more segments, or one that must stay whole, keeps all.
WindowKept ==
  Orderly(body) =>
    LET all == Seen(body)
        now == Seen(trimmed.lines)
    IN answer.status = 200 =>
         IF trimmed.trimmed
         THEN Len(all) > Keep /\ now = SubSeq(all, Len(all) - Keep + 1, Len(all))
         ELSE now = all /\ (trimmed.live /\ ~trimmed.malformed => Len(all) <= Keep)

\* A cut playlist is still a playlist: EXTM3U stays on top, what is said of the
\* whole list stays, in its order and ahead of the segments, and only the START
\* offset, which may point to what was dropped, goes.
HeaderKept ==
  trimmed.trimmed /\ Regular(body) =>
    LET inf == SelectInSeq(trimmed.lines, LAMBDA line : line.tag = "inf")
        top == SelectInSeq(body, LAMBDA line : line.tag = "inf")
    IN /\ body[1].tag = "m3u" => trimmed.lines[1].tag = "m3u"
       /\ IsPrefix(With(SubSeq(body, 1, top), "other"),
                   With(SubSeq(trimmed.lines, 1, inf), "other"))
       /\ "start" \notin {trimmed.lines[p].tag : p \in 1 .. inf}

\* The player is never sent past the proxy, not even for a key or a map.  What it is
\* refused for: an answer that is partial, breaks off or is too long, a proxy that does
\* not know its own address, or a host that is not allowed on a line which it would
\* still see; the README also names one on a line that has been cut off
\* (ForeignRefusesAll).
NothingPastProxy ==
  answer # NoAnswer =>
    /\ \A p \in DOMAIN answer.lines : answer.lines[p].at \in {"none", "proxy"}
    /\ answer.status = 502 <=>
         \/ arrived # "whole" \/ ~published
         \/ \E p \in DOMAIN trimmed.lines : trimmed.lines[p].at = "foreign"

\* What README.md:219 says, which the code does not keep: a playlist in which a host
\* that is not allowed appears anywhere is answered 502 as a whole, so that none is
\* served in which upstream named one.  handleMediaTargets cuts the list before it looks
\* at the hosts; a foreign one that goes with the cut is never seen.
ForeignRefusesAll ==
  answer.status = 200 => \A p \in DOMAIN body : body[p].at # "foreign"
===============================================================================
