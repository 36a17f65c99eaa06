------------------------------ MODULE MCRewriting -----------------------------
(* What passes through the proxy: playlists of up to three segments, put       *)
(* together from headers, the tags that lead up to a segment, and ends;        *)
(* playurl documents and queries; and gRPC requests.                          *)
EXTENDS Rewriting, TLC

CONSTANTS u1, u2, foreign

Line(tag, val) == [tag |-> tag, val |-> val, at |-> "none"]

Address(tag, val, host) == [tag |-> tag, val |-> val, at |-> host]

Tops == {<<>>, <<Line("m3u", 0)>>}

Numbers == {<<>>, <<Line("sequence", 7)>>, <<Line("sequence", Unreadable)>>,
            <<Line("discontinuitySequence", 2), Line("sequence", 7)>>}

\* A key that the first segment's own tags follow, and one that other tags part
\* from it.
Headers == {<<>>, <<Address("key", 1, "upstream"), Line("other", 0), Line("start", 0)>>,
            <<Line("start", 0), Line("other", 0), Address("key", 1, "upstream")>>,
            <<Address("map", 1, "upstream"), Line("other", 0)>>,
            <<Line("date", 9), Address("map", 1, "upstream")>>}

Leads == {<<>>, <<Line("discontinuity", 0)>>, <<Line("date", 1)>>,
          <<Address("key", 2, "upstream")>>, <<Address("key", 3, "foreign")>>,
          <<Line("discontinuity", 0), Address("map", 2, "upstream")>>,
          <<Line("aux", 1), Line("other", 1)>>}

\* Between EXTINF and the address.
Middles == {<<>>, <<Line("blank", 0)>>, <<Line("byterange", 0)>>}

Segments(n) ==
  {lead \o <<Line("inf", 0)>> \o middle \o <<Address("uri", n, "upstream")>> :
     lead \in Leads, middle \in Middles}
  \cup {<<Line("inf", 0), Address("uri", n, "foreign")>>,
        <<Line("inf", 0), Line("inf", 0), Address("uri", n, "upstream")>>}

PlainSegments(n) ==
  {lead \o <<Line("inf", 0), Address("uri", n, "upstream")>> : lead \in Leads}

Runs == {<<>>} \cup Segments(1)
        \cup {a \o b : a \in Segments(1), b \in PlainSegments(2)}
        \cup {a \o b \o c : a \in Segments(1), b \in PlainSegments(2), c \in PlainSegments(3)}

Ends == {<<>>, <<Line("inf", 0)>>, <<Line("endlist", 0)>>}

Playlists == {top \o numbers \o header \o run \o end :
                top \in Tops, numbers \in Numbers, header \in Headers, run \in Runs, end \in Ends}

-------------------------------------------------------------------------------
(* Documents: a root that may state the quality, with up to two objects in it. *)

Word(v) == [array |-> FALSE, items |-> <<v>>]

Row(items) == [array |-> TRUE, items |-> items]

Absent == [array |-> FALSE, items |-> <<>>]

Addresses0 ==
  [field \in {"baseUrl", "base_url", "url", "backupUrl", "backup_url"} |-> Absent]

\* The addresses of an object: none, one, a choice, one given twice, one among
\* others that cannot be used, and a choice in two fields.
AddressSets ==
  {Addresses0,
   [Addresses0 EXCEPT !["baseUrl"] = Word(u1)],
   [Addresses0 EXCEPT !["baseUrl"] = Word(u1), !["base_url"] = Word(u1),
                      !["backupUrl"] = Row(<<foreign, u2, u1>>)],
   [Addresses0 EXCEPT !["url"] = Row(<<u2>>), !["backup_url"] = Row(<<u2, foreign>>)],
   [Addresses0 EXCEPT !["url"] = Word(foreign), !["backupUrl"] = Row(<<u2, u1>>)]}

Object(at, q, accept, labels, id, number) ==
  [at |-> at, quality |-> q, accept |-> accept, labels |-> labels, id |-> id,
   codec |-> IF id = 0 THEN "" ELSE "avc", number |-> number]

Labels == {<<>>, 80 :> "1080P", 80 :> "HD" @@ 64 :> "720P"}

Roots == {Object(Addresses0, q, accept, labels, 0, number) :
            q \in {0, 80}, accept \in {{}, {64, 80}}, labels \in Labels,
            number \in {"exact", "above 2^53"}}

Items == {Object(at, q, {}, labels, id, "exact") :
            at \in AddressSets, q \in {0, 64}, labels \in Labels, id \in {0, 80}}

MCDocuments ==
  {[json |-> FALSE, objects |-> <<>>]}
  \cup {[json |-> TRUE, objects |-> <<root>> \o items] :
          root \in Roots,
          items \in {<<>>} \cup {<<o>> : o \in Items}
                   \cup {<<o, Object(at, 80, {}, 64 :> "720P", 64, "exact")>> :
                           o \in {i \in Items : i.labels = <<>>}, at \in AddressSets}}

-------------------------------------------------------------------------------
(* Queries, with a signature or without, with a value that a signature must    *)
(* not have as it is, and with a name that has two values.                     *)

Value(text, mark) == [text |-> text, mark |-> mark, signed |-> <<>>]

QueryNames == {"bvid", "qn", "w_rid", "wts"}

MCQueries ==
  {Restrict(q, names) : names \in SUBSET QueryNames,
     q \in {[n \in QueryNames |-> <<Value("old", FALSE)>>],
            [n \in QueryNames |-> <<Value("old", TRUE)>>],
            [n \in QueryNames |-> <<Value("old", FALSE), Value("new", TRUE)>>],
            [n \in QueryNames |-> <<Value("", FALSE)>>]}}

-------------------------------------------------------------------------------
(* gRPC requests: every short message in a plain frame; frames of every kind   *)
(* with a few messages; device metadata.                                       *)

\* Tags of the fields 1, 6 and 12 with the wire types 0, 1, 2 and 5, one of a wire
\* type that is refused, numbers, and bytes that another one follows.
Alphabet == {0, 1, 2, 8, 48, 50, 53, 51, 98, 128, 178}

Eight == <<1, 1, 1, 1, 1, 1, 1, 1>>

\* Longer ones: eight bytes of content; a tag in two bytes; a tag, a length and a
\* number of more bytes than four; one of ten bytes, and one of eleven.
LongMessages ==
  {<<49>> \o Eight, <<49>> \o Eight \o <<8, 1>>, <<49, 1, 1>>,
   <<53, 1, 1, 1, 1, 8, 2>>, <<178, 0, 1, 2, 8, 1>>,
   <<178, 128, 128, 128, 0, 1, 7, 8, 1>>, <<178, 128, 128, 128, 1, 1, 7>>,
   <<50, 129, 128, 128, 128, 16, 9>>,
   <<8, 255, 255, 255, 255, 255, 255, 255, 255, 255, 1, 50, 0>>,
   <<8, 255, 255, 255, 255, 255, 255, 255, 255, 255, 255, 1>>}

\* As long as an unpacked message may be, and longer by another field.
Repeated(n) == FlattenSeq([i \in 1 .. n |-> <<50, 1, 9>>])

FewMessages == {<<>>, <<8, 1>>, <<50, 1, 9>>, <<50, 1, 9, 8, 1>>, <<50>>}

Frame(flag, fits, zipped, encoding, message, device, deviceMessage) ==
  [flag |-> flag, fits |-> fits, zipped |-> zipped, encoding |-> encoding, message |-> message,
   device |-> device, deviceMessage |-> deviceMessage]

MCRequests ==
  {Frame(0, TRUE, FALSE, "", message, "", <<>>) :
     message \in BoundedSeq(Alphabet, 3) \cup LongMessages}
  \cup {Frame(flag, fits, zipped, encoding, message, "", <<>>) :
          flag \in 0 .. 2, fits \in BOOLEAN, zipped \in BOOLEAN, encoding \in {"", "gzip", "br"},
          message \in FewMessages}
  \cup {Frame(1, TRUE, TRUE, "gzip", message, "", <<>>) :
          message \in {Repeated(6), Repeated(6) \o <<8, 1>>, Repeated(7)}}
  \cup {Frame(0, TRUE, FALSE, "", <<50, 0>>, device, deviceMessage) :
          device \in {"base64", "other"},
          deviceMessage \in {<<98, 0>>, <<98, 1>>, <<8, 1, 98, 1, 8, 8, 1>>, <<226, 0, 0>>}}
===============================================================================
