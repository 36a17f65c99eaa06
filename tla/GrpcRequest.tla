------------------------------ MODULE GrpcRequest -----------------------------
(***************************************************************************)
(* What handleGRPCPlayurl of internal/proxy/server.go changes in a request    *)
(* before it sends it on: normalizePlayViewUniteRequest (playerunite.go)      *)
(* takes the field with the client's ad context out of the message, and       *)
(* normalizeGRPCMetadata (headers.go) a field out of the device metadata.     *)
(*                                                                         *)
(* A request is a frame: its flag, whether the length it declares is that of  *)
(* its payload, and the payload, a message or its gzip; the Grpc-Encoding     *)
(* header; and the device metadata.  The bytes of a gzip begin with 31, which *)
(* no field begins with.                                                     *)
(***************************************************************************)
EXTENDS Integers, SequencesExt

CONSTANTS Requests,  \* the requests that a client may send, within the limit on bodies
          MaxMessage \* maxGRPCRequestSize, which is the limit on an unpacked message too

VARIABLES request, \* what the client sent
          sent     \* what goes to upstream

grpc == <<request, sent>>

Protobuf == INSTANCE ProtobufFields

\* What a client may send: any frame with any bytes.  Of the encodings that are not
\* gzip, none and br stand for all; device says whether there is device metadata
\* and whether it can be decoded from base64.
Frames == [flag : Protobuf!Bytes, fits : BOOLEAN, zipped : BOOLEAN,
           encoding : {"", "gzip", "br"}, message : Seq(Protobuf!Bytes),
           device : {"", "base64", "other"}, deviceMessage : Seq(Protobuf!Bytes)]

ASSUME RequestsAssumption == Requests \subseteq Frames /\ MaxMessage \in Nat

NotSent == [flag |-> 0, fits |-> FALSE, zipped |-> FALSE, message |-> <<>>, encoding |-> "",
            device |-> "", deviceMessage |-> <<>>]

GzipHeader == <<31>>

-------------------------------------------------------------------------------
AdExtraField == 6

\* A plain message is in the body itself; what the gzip of one unpacks to may be too long.
WithinLimit(r) == r.zipped => Len(r.message) <= MaxMessage

\* The message as the proxy reads it, or none.
Payload(r) ==
  IF ~r.fits THEN {}
  ELSE CASE r.flag = 0 -> {IF r.zipped THEN GzipHeader ELSE r.message}
         [] r.flag = 1 /\ r.zipped /\ r.encoding = "gzip" /\ WithinLimit(r) -> {r.message}
         [] OTHER -> {}

NormalizedKeepsHeader(r) ==
  LET cut == {c \in {Protobuf!RemoveField(m, AdExtraField) : m \in Payload(r)} :
                c.ok /\ Len(c.output) < Len(r.message)}
  IN IF cut = {} THEN r
     ELSE [r EXCEPT !.zipped = FALSE, !.message = (CHOOSE c \in cut : TRUE).output]

\* normalizePlayViewUniteRequest, and the encoding header that handleGRPCPlayurl
\* takes away from a message it has unpacked.
Normalized(r) ==
  LET cut == {c \in {Protobuf!RemoveField(m, AdExtraField) : m \in Payload(r)} :
                c.ok /\ Len(c.output) < Len(r.message)}
  IN IF cut = {} THEN r
     ELSE [r EXCEPT !.flag = 0, !.zipped = FALSE, !.encoding = "",
                    !.message = (CHOOSE c \in cut : TRUE).output]

DeviceField == 12

\* normalizeGRPCMetadata: the device metadata that can be decoded, from base64 and
\* as a message, goes on without the field.
DeviceNormalized(r) ==
  LET cut == Protobuf!RemoveField(r.deviceMessage, DeviceField)
  IN IF r.device = "base64" /\ cut.ok THEN [r EXCEPT !.deviceMessage = cut.output] ELSE r

-------------------------------------------------------------------------------
GrpcInit == request \in Requests /\ sent = NotSent

Forward ==
  /\ sent = NotSent
  /\ sent' = DeviceNormalized(Normalized(request))
  /\ UNCHANGED request

-------------------------------------------------------------------------------
\* Upstream can read the frame.
Readable(r) == r.fits /\ \/ r.flag = 0 /\ ~r.zipped
                         \/ r.flag = 1 /\ r.zipped /\ r.encoding = "gzip"

\* A message that can be cut into fields loses the fields of the number, wherever
\* they stand and however their tags are written, and nothing else; another is not
\* touched.
Cleaned(old, new, number) ==
  LET readings == Protobuf!Readings(old)
  IN IF readings = {} THEN new = old
     ELSE \A fields \in readings : new = Protobuf!Without(fields, number)

\* What upstream could read it can read still, and reads in it the client's message
\* without the ad context.  A frame that the proxy cannot read it passes on as it is,
\* and so, with the ad context, a gzip that upstream could read but that unpacks to
\* more than the limit.  The device metadata loses its field alone.
FieldsRemoved ==
  sent # NotSent =>
    /\ IF Readable(request) /\ WithinLimit(request)
       THEN Readable(sent) /\ Cleaned(request.message, sent.message, AdExtraField)
       ELSE [sent EXCEPT !.deviceMessage = request.deviceMessage] = request
    /\ IF sent.device = "base64"
       THEN Cleaned(request.deviceMessage, sent.deviceMessage, DeviceField)
       ELSE sent.deviceMessage = request.deviceMessage
===============================================================================
