--------------------------- MODULE MediaStreamProofs --------------------------
(***************************************************************************)
(* For every set of hosts, every limit on redirects, every time limit of    *)
(* the watchdog and streams of any length: a media answer is guarded until  *)
(* it ends, ends with the cause that it reports, and leaves no body open    *)
(* and no goroutine behind.                                                 *)
(***************************************************************************)
EXTENDS MediaStream, Sequences, TLAPS

-------------------------------------------------------------------------------
\* The watchdog.  Its types in parts: where each actor is, the flags
\* and what is counted.
PlaceTypes ==
  /\ upstream \in {"open", "eof", "failed"}
  /\ pc \in {"read", "lock", "write", "done"}
  /\ got \in [chunk : BOOLEAN, end : {"none", "eof", "error"}]
  /\ result \in {"", "complete", "upstream_stall", "client_cancelled", "error"}

FlagTypes ==
  /\ armed \in BOOLEAN /\ timedOut \in BOOLEAN /\ closing \in BOOLEAN
  /\ bodyClosed \in BOOLEAN /\ gone \in BOOLEAN

CountTypes ==
  /\ sent \in 0 .. MaxChunks
  /\ taken \in 0 .. sent
  /\ delivered \in 0 .. taken
  /\ left \in 0 .. Timeout
  /\ pending \in Nat /\ waited \in Nat

\* The loop waits for nothing that nobody will end: expire has closed the body or
\* is about to, or will be.  Nobody but expire closes it before the end.
WatchInv ==
  /\ pc # "done" /\ ~bodyClosed => armed \/ pending > 0 \/ closing
  /\ timedOut => bodyClosed \/ closing
  /\ closing => timedOut
  /\ pc # "done" /\ bodyClosed => timedOut
  /\ pc = "done" => bodyClosed

\* What body.Read has returned and the loop has not yet dealt with.
ReadInv ==
  /\ pc = "lock" => got.chunk \/ got.end # "none"
  /\ pc = "write" => got.chunk
  /\ pc \in {"lock", "write"} /\ got.end = "eof" => upstream = "eof" /\ taken = sent
  /\ pc \in {"lock", "write"} /\ got.end = "error" =>
       upstream = "failed" \/ gone \/ (timedOut /\ ~got.chunk)

\* The chunks: what was taken has been delivered, but for the one in the loop's
\* hands.
ChunkInv ==
  /\ pc = "read" => delivered = taken
  /\ pc \in {"lock", "write"} /\ got.chunk => taken = delivered + 1
  /\ pc \in {"lock", "write"} /\ ~got.chunk => delivered = taken
  /\ pc # "done" => result = ""

IdleInv == /\ PlaceTypes /\ FlagTypes /\ CountTypes
           /\ WatchInv /\ ReadInv /\ ChunkInv /\ ResultHasCause

LEMMA IdleInit == Init => IdleInv
<1> SUFFICES ASSUME Init PROVE IdleInv
  OBVIOUS
<1>1. PlaceTypes /\ FlagTypes
  BY DEF Init, PlaceTypes, FlagTypes
<1>2. CountTypes
  <2>1. /\ sent = 0 /\ taken = 0 /\ delivered = 0
        /\ left = Timeout /\ pending = 0 /\ waited = 0
    BY DEF Init
  <2>2. QED
    BY <2>1, ConstantsAssumption DEF CountTypes
<1>3. WatchInv /\ ReadInv /\ ChunkInv /\ ResultHasCause
  BY DEF Init, WatchInv, ReadInv, ChunkInv, ResultHasCause
<1>4. QED
  BY <1>1, <1>2, <1>3 DEF IdleInv

\* The three ways on after a read, by the error that came with it.
LEMMA WaysOn ==
  ASSUME PlaceTypes, ReadOn
  PROVE  \/ got.end = "none" /\ pc' = "read" /\ UNCHANGED <<result, bodyClosed>>
         \/ got.end = "eof" /\ Stop("complete")
         \/ got.end = "error" /\ Stop(Failure)
  BY DEF PlaceTypes, ReadOn

\* The ways through Read's critical section.
LEMMA SectionWays ==
  ASSUME ReadSection
  PROVE  /\ pc = "lock"
         /\ \/ timedOut /\ Stop("upstream_stall") /\ UNCHANGED <<armed, left>>
            \/ /\ ~timedOut /\ got.chunk /\ pc' = "write"
               /\ armed' = TRUE /\ left' = Timeout /\ UNCHANGED <<result, bodyClosed>>
            \/ ~timedOut /\ ~got.chunk /\ ReadOn /\ UNCHANGED <<armed, left>>
         /\ waited' \in {waited, 0}
         /\ UNCHANGED <<got, taken, delivered, pending, timedOut, closing,
                        upstream, sent, gone>>
  BY DEF ReadSection, Reset, world

\* Every step of the loop, the watchdog, upstream or the client keeps the invariant.
LEMMA IdleStep == IdleInv /\ [Next]_vars => IdleInv'
<1> SUFFICES ASSUME PlaceTypes, FlagTypes, CountTypes,
                    WatchInv, ReadInv, ChunkInv, ResultHasCause, [Next]_vars
             PROVE  IdleInv'
  BY DEF IdleInv
<1>1. CASE BodyRead
  <2>1. /\ pc = "read" /\ pc' = "lock"
        /\ got' \in [chunk : BOOLEAN, end : {"none", "eof", "error"}]
        /\ got'.chunk \/ got'.end # "none"
        /\ got'.chunk => taken < sent /\ ~bodyClosed
        /\ got'.end = "eof" => upstream = "eof" /\ sent = taken'
        /\ got'.end = "error" => upstream = "failed" \/ gone \/ bodyClosed
        /\ got'.chunk => taken' = taken + 1
        /\ ~got'.chunk => taken' = taken
        /\ UNCHANGED <<delivered, result, armed, left, pending, timedOut, closing,
                       waited, upstream, sent, gone, bodyClosed>>
    BY <1>1 DEF BodyRead, watch, world
  <2>2. PlaceTypes'
    BY <2>1 DEF PlaceTypes
  <2>3. FlagTypes'
    BY <2>1 DEF FlagTypes
  <2>4. CountTypes'
    BY ConstantsAssumption, <2>1 DEF CountTypes
  <2>5. ReadInv'
    BY <2>1 DEF CountTypes, WatchInv, ReadInv
  <2>6. ChunkInv'
    BY <2>1 DEF CountTypes, ChunkInv
  <2>7. (WatchInv /\ ResultHasCause)'
    BY <2>1 DEF CountTypes, WatchInv, ResultHasCause
  <2>8. QED
    BY <2>2, <2>3, <2>4, <2>5, <2>6, <2>7 DEF IdleInv
<1>2. CASE ReadSection
  <2>1. CASE timedOut /\ Stop("upstream_stall") /\ UNCHANGED <<armed, left>>
    <3>1. /\ pc' = "done" /\ result' = "upstream_stall" /\ bodyClosed' = TRUE
          /\ pc = "lock" /\ timedOut
          /\ waited' \in {waited, 0}
          /\ UNCHANGED <<got, taken, delivered, armed, left, pending, timedOut,
                         closing, upstream, sent, gone>>
      BY <1>2, <2>1, SectionWays DEF Stop
    <3>2. PlaceTypes'
      BY <3>1 DEF PlaceTypes
    <3>3. FlagTypes'
      BY <3>1 DEF FlagTypes
    <3>4. CountTypes'
      BY ConstantsAssumption, <3>1 DEF CountTypes
    <3>5. (WatchInv /\ ReadInv /\ ChunkInv /\ ResultHasCause)'
      BY <3>1 DEF CountTypes, WatchInv, ReadInv, ChunkInv, ResultHasCause
    <3>6. QED
      BY <3>2, <3>3, <3>4, <3>5 DEF IdleInv
  <2>2. CASE /\ ~timedOut /\ got.chunk /\ pc' = "write"
             /\ armed' = TRUE /\ left' = Timeout /\ UNCHANGED <<result, bodyClosed>>
    <3>1. /\ ~timedOut /\ got.chunk
          /\ pc = "lock" /\ pc' = "write"
          /\ armed' = TRUE /\ left' = Timeout
          /\ waited' \in {waited, 0}
          /\ UNCHANGED <<got, taken, delivered, result, pending, timedOut, closing,
                         upstream, sent, gone, bodyClosed>>
      BY <1>2, <2>2, SectionWays
    <3>2. PlaceTypes'
      BY <3>1 DEF PlaceTypes
    <3>3. FlagTypes'
      BY <3>1 DEF FlagTypes
    <3>4. CountTypes'
      BY ConstantsAssumption, <3>1 DEF CountTypes
    <3>5. (WatchInv /\ ReadInv /\ ChunkInv /\ ResultHasCause)'
      BY <3>1 DEF CountTypes, WatchInv, ReadInv, ChunkInv, ResultHasCause
    <3>6. QED
      BY <3>2, <3>3, <3>4, <3>5 DEF IdleInv
  <2>3. CASE ~timedOut /\ ~got.chunk /\ ReadOn /\ UNCHANGED <<armed, left>>
    <3>1. CASE got.end = "none" /\ pc' = "read" /\ UNCHANGED <<result, bodyClosed>>
      <4>1. /\ pc = "lock" /\ ~timedOut /\ ~got.chunk
            /\ got.end = "none" /\ pc' = "read"
            /\ waited' \in {waited, 0}
            /\ UNCHANGED <<got, taken, delivered, result, armed, left, pending,
                           timedOut, closing, upstream, sent, gone,
                           bodyClosed>>
        BY <1>2, <2>3, <3>1, SectionWays
      <4>2. PlaceTypes'
        BY <4>1 DEF PlaceTypes
      <4>3. FlagTypes'
        BY <4>1 DEF FlagTypes
      <4>4. CountTypes'
        BY ConstantsAssumption, <4>1 DEF CountTypes
      <4>5. ReadInv'
        BY <4>1 DEF ReadInv
      <4>6. ChunkInv'
        BY <4>1 DEF CountTypes, ReadInv, ChunkInv
      <4>7. ResultHasCause'
        BY <4>1 DEF ChunkInv, ResultHasCause
      <4>8. WatchInv'
        BY <4>1 DEF CountTypes, WatchInv
      <4>9. QED
        BY <4>2, <4>3, <4>4, <4>5, <4>6, <4>7, <4>8 DEF IdleInv
    <3>2. CASE got.end = "eof" /\ Stop("complete")
      <4>1. /\ pc = "lock" /\ ~timedOut /\ ~got.chunk
            /\ got.end = "eof"
            /\ pc' = "done" /\ result' = "complete" /\ bodyClosed' = TRUE
            /\ waited' \in {waited, 0}
            /\ UNCHANGED <<got, taken, delivered, armed, left, pending, timedOut,
                           closing, upstream, sent, gone>>
        BY <1>2, <2>3, <3>2, SectionWays DEF Stop
      <4>2. PlaceTypes'
        BY <4>1 DEF PlaceTypes
      <4>3. FlagTypes'
        BY <4>1 DEF FlagTypes
      <4>4. CountTypes'
        BY ConstantsAssumption, <4>1 DEF CountTypes
      <4>5. ResultHasCause'
        BY <4>1 DEF CountTypes, ReadInv, ChunkInv, ResultHasCause
      <4>6. (WatchInv /\ ReadInv /\ ChunkInv)'
        BY <4>1 DEF CountTypes, WatchInv, ReadInv, ChunkInv
      <4>7. QED
        BY <4>2, <4>3, <4>4, <4>5, <4>6 DEF IdleInv
    <3>3. CASE got.end = "error" /\ Stop(Failure)
      <4>1. /\ pc = "lock" /\ ~timedOut /\ ~got.chunk
            /\ got.end = "error"
            /\ pc' = "done" /\ bodyClosed' = TRUE
            /\ result' = IF gone THEN "client_cancelled" ELSE "error"
            /\ waited' \in {waited, 0}
            /\ UNCHANGED <<got, taken, delivered, armed, left, pending, timedOut,
                           closing, upstream, sent, gone>>
        BY <1>2, <2>3, <3>3, SectionWays DEF Stop, Failure
      <4>2. PlaceTypes'
        BY <4>1 DEF PlaceTypes
      <4>3. FlagTypes'
        BY <4>1 DEF FlagTypes
      <4>4. CountTypes'
        BY ConstantsAssumption, <4>1 DEF CountTypes
      <4>5. ResultHasCause'
        BY <4>1 DEF ReadInv, ChunkInv, ResultHasCause
      <4>6. (WatchInv /\ ReadInv /\ ChunkInv)'
        BY <4>1 DEF CountTypes, WatchInv, ReadInv, ChunkInv
      <4>7. QED
        BY <4>2, <4>3, <4>4, <4>5, <4>6 DEF IdleInv
    <3>4. QED
      BY <2>3, <3>1, <3>2, <3>3, WaysOn
  <2>4. QED
    BY <1>2, <2>1, <2>2, <2>3, SectionWays
<1>3. CASE Write
  <2>1. CASE delivered' = delivered + 1 /\ ReadOn
    <3>1. CASE got.end = "none" /\ pc' = "read" /\ UNCHANGED <<result, bodyClosed>>
      <4>1. /\ pc = "write" /\ delivered' = delivered + 1
            /\ got.end = "none" /\ pc' = "read"
            /\ UNCHANGED <<got, taken, result, armed, left, pending, timedOut,
                           closing, waited, upstream, sent, gone, bodyClosed>>
        BY <1>3, <2>1, <3>1 DEF Write, watch, world
      <4>2. PlaceTypes'
        BY <4>1 DEF PlaceTypes
      <4>3. FlagTypes'
        BY <4>1 DEF FlagTypes
      <4>4. CountTypes'
        <5>1. delivered' = taken
          BY <4>1 DEF ReadInv, ChunkInv
        <5>2. QED
          BY ConstantsAssumption, <4>1, <5>1 DEF CountTypes
      <4>5. ReadInv'
        BY <4>1 DEF ReadInv
      <4>6. ChunkInv'
        BY <4>1 DEF CountTypes, ReadInv, ChunkInv
      <4>7. ResultHasCause'
        BY <4>1 DEF ChunkInv, ResultHasCause
      <4>8. WatchInv'
        BY <4>1 DEF CountTypes, WatchInv
      <4>9. QED
        BY <4>2, <4>3, <4>4, <4>5, <4>6, <4>7, <4>8 DEF IdleInv
    <3>2. CASE got.end = "eof" /\ Stop("complete")
      <4>1. /\ pc = "write" /\ delivered' = delivered + 1
            /\ got.end = "eof"
            /\ pc' = "done" /\ result' = "complete" /\ bodyClosed' = TRUE
            /\ UNCHANGED <<got, taken, armed, left, pending, timedOut, closing,
                           waited, upstream, sent, gone>>
        BY <1>3, <2>1, <3>2 DEF Write, watch, world, Stop
      <4>2. PlaceTypes'
        BY <4>1 DEF PlaceTypes
      <4>3. FlagTypes'
        BY <4>1 DEF FlagTypes
      <4>4. CountTypes'
        <5>1. delivered' = taken
          BY <4>1 DEF ReadInv, ChunkInv
        <5>2. QED
          BY ConstantsAssumption, <4>1, <5>1 DEF CountTypes
      <4>5. ResultHasCause'
        BY <4>1 DEF CountTypes, ReadInv, ChunkInv, ResultHasCause
      <4>6. (WatchInv /\ ReadInv /\ ChunkInv)'
        BY <4>1 DEF CountTypes, WatchInv, ReadInv, ChunkInv
      <4>7. QED
        BY <4>2, <4>3, <4>4, <4>5, <4>6 DEF IdleInv
    <3>3. CASE got.end = "error" /\ Stop(Failure)
      <4>1. /\ pc = "write" /\ delivered' = delivered + 1
            /\ got.end = "error"
            /\ pc' = "done" /\ bodyClosed' = TRUE
            /\ result' = IF gone THEN "client_cancelled" ELSE "error"
            /\ UNCHANGED <<got, taken, armed, left, pending, timedOut, closing,
                           waited, upstream, sent, gone>>
        BY <1>3, <2>1, <3>3 DEF Write, watch, world, Stop, Failure
      <4>2. PlaceTypes'
        BY <4>1 DEF PlaceTypes
      <4>3. FlagTypes'
        BY <4>1 DEF FlagTypes
      <4>4. CountTypes'
        <5>1. delivered' = taken
          BY <4>1 DEF ReadInv, ChunkInv
        <5>2. QED
          BY ConstantsAssumption, <4>1, <5>1 DEF CountTypes
      <4>5. ResultHasCause'
        BY <4>1 DEF ReadInv, ChunkInv, ResultHasCause
      <4>6. (WatchInv /\ ReadInv /\ ChunkInv)'
        BY <4>1 DEF CountTypes, WatchInv, ReadInv, ChunkInv
      <4>7. QED
        BY <4>2, <4>3, <4>4, <4>5, <4>6 DEF IdleInv
    <3>4. QED
      BY <2>1, <3>1, <3>2, <3>3, WaysOn
  <2>2. CASE gone /\ Stop("client_cancelled") /\ UNCHANGED delivered
    <3>1. /\ pc = "write" /\ gone
          /\ pc' = "done" /\ result' = "client_cancelled" /\ bodyClosed' = TRUE
          /\ UNCHANGED <<got, taken, delivered, armed, left, pending, timedOut,
                         closing, waited, upstream, sent, gone>>
      BY <1>3, <2>2 DEF Write, Stop, watch, world
    <3>2. PlaceTypes'
      BY <3>1 DEF PlaceTypes
    <3>3. FlagTypes'
      BY <3>1 DEF FlagTypes
    <3>4. CountTypes'
      BY ConstantsAssumption, <3>1 DEF CountTypes
    <3>5. (WatchInv /\ ReadInv /\ ChunkInv /\ ResultHasCause)'
      BY <3>1 DEF CountTypes, WatchInv, ReadInv, ChunkInv, ResultHasCause
    <3>6. QED
      BY <3>2, <3>3, <3>4, <3>5 DEF IdleInv
  <2>3. QED
    BY <1>3, <2>1, <2>2 DEF Write
<1>4. CASE Tick
  <2>1. /\ left > 0 /\ left' = left - 1 /\ waited' \in {waited + 1, 0}
        /\ UNCHANGED <<pc, got, taken, delivered, result, armed, pending,
                       timedOut, closing, upstream, sent, gone,
                       bodyClosed>>
    BY <1>4 DEF Tick, loop, world
  <2>2. PlaceTypes'
    BY <2>1 DEF PlaceTypes
  <2>3. FlagTypes'
    BY <2>1 DEF FlagTypes
  <2>4. CountTypes'
    BY ConstantsAssumption, <2>1 DEF CountTypes
  <2>5. WatchInv'
    BY <2>1 DEF CountTypes, WatchInv
  <2>6. (ReadInv /\ ChunkInv /\ ResultHasCause)'
    BY <2>1 DEF ReadInv, CountTypes, ChunkInv, ResultHasCause
  <2>7. QED
    BY <2>2, <2>3, <2>4, <2>5, <2>6 DEF IdleInv
<1>5. CASE TimerFires
  <2>1. /\ armed' = FALSE /\ pending' = pending + 1 /\ waited' \in {waited, 0}
        /\ UNCHANGED <<pc, got, taken, delivered, result, left, timedOut, closing,
                       upstream, sent, gone, bodyClosed>>
    BY <1>5 DEF TimerFires, loop, world
  <2>2. PlaceTypes'
    BY <2>1 DEF PlaceTypes
  <2>3. FlagTypes'
    BY <2>1 DEF FlagTypes
  <2>4. CountTypes'
    BY ConstantsAssumption, <2>1 DEF CountTypes
  <2>5. WatchInv'
    BY <2>1 DEF CountTypes, WatchInv
  <2>6. (ReadInv /\ ChunkInv /\ ResultHasCause)'
    BY <2>1 DEF ReadInv, CountTypes, ChunkInv, ResultHasCause
  <2>7. QED
    BY <2>2, <2>3, <2>4, <2>5, <2>6 DEF IdleInv
<1>6. CASE ExpireSection
  <2>1. /\ pending > 0 /\ pending' = pending - 1
        /\ timedOut' = TRUE /\ closing' = (closing \/ ~timedOut)
        /\ waited' \in {waited, 0}
        /\ UNCHANGED <<pc, got, taken, delivered, result, armed, left, upstream,
                       sent, gone, bodyClosed>>
    BY <1>6 DEF ExpireSection, loop, world
  <2>2. PlaceTypes'
    BY <2>1 DEF PlaceTypes
  <2>3. FlagTypes'
    BY <2>1 DEF FlagTypes
  <2>4. CountTypes'
    BY ConstantsAssumption, <2>1 DEF CountTypes
  <2>5. WatchInv'
    BY <2>1 DEF FlagTypes, CountTypes, WatchInv
  <2>6. (ReadInv /\ ChunkInv /\ ResultHasCause)'
    BY <2>1 DEF ReadInv, CountTypes, ChunkInv, ResultHasCause
  <2>7. QED
    BY <2>2, <2>3, <2>4, <2>5, <2>6 DEF IdleInv
<1>7. CASE ExpireClose
  <2>1. /\ closing /\ closing' = FALSE /\ bodyClosed' = TRUE
        /\ UNCHANGED <<pc, got, taken, delivered, result, armed, left, pending,
                       timedOut, waited, upstream, sent, gone>>
    BY <1>7 DEF ExpireClose, loop, world
  <2>2. PlaceTypes'
    BY <2>1 DEF PlaceTypes
  <2>3. FlagTypes'
    BY <2>1 DEF FlagTypes
  <2>4. CountTypes'
    BY ConstantsAssumption, <2>1 DEF CountTypes
  <2>5. (WatchInv /\ ReadInv /\ ChunkInv /\ ResultHasCause)'
    BY <2>1 DEF CountTypes, WatchInv, ReadInv, ChunkInv, ResultHasCause
  <2>6. QED
    BY <2>2, <2>3, <2>4, <2>5 DEF IdleInv
<1>8. CASE UpstreamSends
  <2>1. /\ upstream = "open" /\ sent < MaxChunks /\ sent' = sent + 1
        /\ UNCHANGED <<pc, got, taken, delivered, result, armed, left, pending,
                       timedOut, closing, waited, upstream, gone, bodyClosed>>
    BY <1>8 DEF UpstreamSends, loop, watch
  <2>2. PlaceTypes'
    BY <2>1 DEF PlaceTypes
  <2>3. FlagTypes'
    BY <2>1 DEF FlagTypes
  <2>4. CountTypes'
    BY ConstantsAssumption, <2>1 DEF CountTypes
  <2>5. (WatchInv /\ ReadInv /\ ChunkInv /\ ResultHasCause)'
    BY <2>1 DEF CountTypes, WatchInv, ReadInv, ChunkInv, ResultHasCause
  <2>6. QED
    BY <2>2, <2>3, <2>4, <2>5 DEF IdleInv
<1>9. CASE UpstreamEnds
  <2>1. /\ upstream = "open" /\ upstream' \in {"eof", "failed"}
        /\ UNCHANGED <<pc, got, taken, delivered, result, armed, left, pending,
                       timedOut, closing, waited, sent, gone, bodyClosed>>
    BY <1>9 DEF UpstreamEnds, loop, watch
  <2>2. PlaceTypes'
    BY <2>1 DEF PlaceTypes
  <2>3. FlagTypes'
    BY <2>1 DEF FlagTypes
  <2>4. CountTypes'
    BY ConstantsAssumption, <2>1 DEF CountTypes
  <2>5. (WatchInv /\ ReadInv /\ ChunkInv /\ ResultHasCause)'
    BY <2>1 DEF CountTypes, WatchInv, ReadInv, ChunkInv, ResultHasCause
  <2>6. QED
    BY <2>2, <2>3, <2>4, <2>5 DEF IdleInv
<1>10. CASE ClientLeaves
  <2>1. /\ gone' = TRUE
        /\ UNCHANGED <<pc, got, taken, delivered, result, armed, left, pending,
                       timedOut, closing, waited, upstream, sent, bodyClosed>>
    BY <1>10 DEF ClientLeaves, loop, watch
  <2>2. PlaceTypes'
    BY <2>1 DEF PlaceTypes
  <2>3. FlagTypes'
    BY <2>1 DEF FlagTypes
  <2>4. CountTypes'
    BY ConstantsAssumption, <2>1 DEF CountTypes
  <2>5. (WatchInv /\ ReadInv /\ ChunkInv /\ ResultHasCause)'
    BY <2>1 DEF CountTypes, WatchInv, ReadInv, ChunkInv, ResultHasCause
  <2>6. QED
    BY <2>2, <2>3, <2>4, <2>5 DEF IdleInv
<1>11. CASE UNCHANGED vars
  <2>1. /\ TRUE
        /\ UNCHANGED <<pc, got, taken, delivered, result, armed, left, pending,
                       timedOut, closing, waited, upstream, sent, gone,
                       bodyClosed>>
    BY <1>11 DEF vars, loop, watch, world
  <2>2. PlaceTypes'
    BY <2>1 DEF PlaceTypes
  <2>3. FlagTypes'
    BY <2>1 DEF FlagTypes
  <2>4. CountTypes'
    BY ConstantsAssumption, <2>1 DEF CountTypes
  <2>5. (WatchInv /\ ReadInv /\ ChunkInv /\ ResultHasCause)'
    BY <2>1 DEF CountTypes, WatchInv, ReadInv, ChunkInv, ResultHasCause
  <2>6. QED
    BY <2>2, <2>3, <2>4, <2>5 DEF IdleInv
<1>12. QED
  BY <1>1, <1>2, <1>3, <1>4, <1>5, <1>6, <1>7, <1>8, <1>9, <1>10, <1>11
     DEF Next, StreamStep, LoopStep, WatchStep

-------------------------------------------------------------------------------
\* The fetch, and how it hands over to the stream.

\* Where the fetch is tells what runs beside it; the stream has not begun.
FetchInv ==
  /\ Fetch!FetchReleases
  /\ fetch = "do" => Len(asked) <= MaxRedirects
  /\ fetch = "close" => drain = "none"
  /\ fetch = "wait" => drain \in {"copying", "done"} /\ timer \in {"running", "fired"}
  /\ fetch # "reply" => pc = "read"

MediaInv == IdleInv /\ Fetch!FetchTypes /\ FetchInv

\* Every step of the media answer is one of the watchdog's module, or one that it
\* does not see.
LEMMA StreamOrStutter == [MediaNext]_mediaVars => [Next]_vars
  BY DEF MediaNext, Fetching, Streaming, Leave, Next, mediaVars, vars, stream, loop, watch,
         world, Fetch!FetchStep, Fetch!Check, Fetch!Do, Fetch!CloseOrDrain, Fetch!CopyEnds,
         Fetch!DrainTimerFires, Fetch!Drained, Fetch!DrainTimedOut, Fetch!Join, Fetch!Follow

LEMMA FetchPreserved ==
  MediaInv /\ [MediaNext]_mediaVars => Fetch!FetchTypes' /\ FetchInv'
<1> SUFFICES ASSUME MediaInv, [MediaNext]_mediaVars PROVE Fetch!FetchTypes' /\ FetchInv'
  OBVIOUS
<1> USE ConstantsAssumption, FetchAssumption
    DEF MediaInv, FetchInv, Fetch!FetchReleases, Fetch!FetchTypes, mediaVars, vars, fetching,
        stream, loop, watch, world
<1>1. CASE Fetching
  <2>1. CASE Fetch!Check
    BY <1>1, <2>1 DEF Fetching, Fetch!Check, Fetch!Replies
  <2>2. CASE Fetch!Do
    <3>1. /\ fetch = "do" /\ fetch' \in {"error", "reply", "close"}
          /\ asked' = Append(asked, target)
          /\ reply' \in Fetch!Replies
          /\ (fetch' = "error" /\ UNCHANGED open) \/ (fetch' # "error" /\ open' = TRUE)
          /\ UNCHANGED <<target, drain, timer, gone, pc>>
      BY <1>1, <2>2 DEF Fetching, Fetch!Do
    <3>2. asked' \in Seq(Hosts) /\ Len(asked') <= MaxRedirects + 1
      BY <3>1
    <3>3. Fetch!FetchTypes'
      BY <3>1, <3>2
    <3>4. FetchInv'
      BY <3>1
    <3>5. QED
      BY <3>3, <3>4
  <2>3. CASE Fetch!CloseOrDrain
    BY <1>1, <2>3 DEF Fetching, Fetch!CloseOrDrain, Fetch!Replies
  <2>4. CASE Fetch!CopyEnds
    BY <1>1, <2>4 DEF Fetching, Fetch!CopyEnds, Fetch!Replies
  <2>5. CASE Fetch!DrainTimerFires
    BY <1>1, <2>5 DEF Fetching, Fetch!DrainTimerFires, Fetch!Replies
  <2>6. CASE Fetch!Drained
    BY <1>1, <2>6 DEF Fetching, Fetch!Drained, Fetch!Replies
  <2>7. CASE Fetch!DrainTimedOut
    BY <1>1, <2>7 DEF Fetching, Fetch!DrainTimedOut, Fetch!Replies
  <2>8. CASE Fetch!Join
    BY <1>1, <2>8 DEF Fetching, Fetch!Join, Fetch!Replies
  <2>9. CASE Fetch!Follow
    BY <1>1, <2>9 DEF Fetching, Fetch!Follow, Fetch!Replies
  <2>10. QED
    BY <1>1, <2>1, <2>2, <2>3, <2>4, <2>5, <2>6, <2>7, <2>8, <2>9
       DEF Fetching, Fetch!FetchStep
<1>2. CASE Streaming
  BY <1>2, StreamOrStutter
     DEF Streaming, StreamStep, LoopStep, WatchStep, BodyRead, ReadSection, Write, Tick,
         TimerFires, ExpireSection, ExpireClose, UpstreamSends, UpstreamEnds, IdleInv,
         PlaceTypes
<1>3. CASE Leave
  BY <1>3 DEF Leave, ClientLeaves
<1>4. CASE UNCHANGED mediaVars
  BY <1>4
<1>5. QED
  BY <1>1, <1>2, <1>3, <1>4 DEF MediaNext

\* The fetch in front of it does nothing to the stream that IdleTimeout does not
\* know: a media answer is a stream under its watchdog.
THEOREM ImplementsIdleTimeout == MediaSpec => Spec
<1>1. MediaInit => Init
  BY DEF MediaInit
<1>2. [MediaNext]_mediaVars => [Next]_vars
  BY StreamOrStutter
<1>3. QED
  BY <1>1, <1>2, PTL DEF MediaSpec, Spec

\* The invariant of the media answer.
LEMMA Invariance == MediaSpec => []MediaInv
<1>1. MediaInit => MediaInv
  <2> SUFFICES ASSUME MediaInit PROVE MediaInv
    OBVIOUS
  <2>1. IdleInv
    BY IdleInit DEF MediaInit
  <2>2. Fetch!FetchTypes /\ FetchInv
    <3>1. /\ target \in Hosts /\ asked = <<>> /\ fetch = "check" /\ reply = Fetch!NoReply
          /\ open = FALSE /\ drain = "none" /\ timer = "off" /\ gone = FALSE /\ pc = "read"
      BY DEF MediaInit, Init, Fetch!FetchInit
    <3>2. reply \in Fetch!Replies
      BY <3>1 DEF Fetch!NoReply, Fetch!Replies
    <3>3. asked \in Seq(Hosts) /\ Len(asked) = 0
      BY <3>1
    <3>4. Len(asked) <= MaxRedirects + 1
      BY <3>3, FetchAssumption
    <3>5. Fetch!FetchTypes
      BY <3>1, <3>2, <3>3, <3>4 DEF Fetch!FetchTypes
    <3>6. QED
      BY <3>1, <3>5 DEF FetchInv, Fetch!FetchReleases
  <2>3. QED
    BY <2>1, <2>2 DEF MediaInv
<1>2. MediaInv /\ [MediaNext]_mediaVars => MediaInv'
  <2> SUFFICES ASSUME MediaInv, [MediaNext]_mediaVars PROVE MediaInv'
    OBVIOUS
  <2>1. [Next]_vars
    BY StreamOrStutter
  <2>2. IdleInv'
    BY <2>1, IdleStep DEF MediaInv
  <2>3. QED
    BY <2>2, FetchPreserved DEF MediaInv
<1>3. QED
  BY <1>1, <1>2, PTL DEF MediaSpec

-------------------------------------------------------------------------------
\* The types, and with them the limit on redirects: no more requests than one and
\* maxRedirects.
THEOREM TypeCorrect == MediaSpec => []MediaTypeOK
<1>1. MediaInv => MediaTypeOK
  BY DEF MediaInv, MediaTypeOK, IdleInv, TypeOK, PlaceTypes, FlagTypes, CountTypes
<1>2. QED
  BY <1>1, Invariance, PTL

\* While the loop waits in body.Read for a body that is open, the timer runs or
\* expire is on its way.
THEOREM AlwaysGuarded == MediaSpec => []Guarded
<1>1. MediaInv => Guarded
  BY DEF MediaInv, IdleInv, WatchInv, Guarded
<1>2. QED
  BY <1>1, Invariance, PTL

\* The result of a stream has the cause that it names, and a complete one is
\* complete.
THEOREM ResultsHaveCause == MediaSpec => []ResultHasCause
<1>1. MediaInv => ResultHasCause
  BY DEF MediaInv, IdleInv
<1>2. QED
  BY <1>1, Invariance, PTL

\* Between two hops and when the handler is through, no body is open that should
\* not be, and no goroutine drains one.
THEOREM NothingLeftBehind == MediaSpec => []BodiesReleased
<1>1. MediaInv => BodiesReleased
  BY DEF MediaInv, IdleInv, WatchInv, FetchInv, BodiesReleased, Ended, Fetch!FetchReleases
<1>2. QED
  BY <1>1, Invariance, PTL
===============================================================================
