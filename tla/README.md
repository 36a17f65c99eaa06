# Bili-Acc: specification and verification

Bili-Acc is a reverse proxy, one Go process, between Bilibili players and the Bilibili APIs and CDNs.
This directory holds TLA+ models of the parts of it that keep state and run concurrently, the TLC
configurations that check them, and TLAPS proofs. The models are translated from `src/internal/proxy` and
`src/cmd/bili-acc`; `PROJECT.json` maps every definition to its lines.

    tlc -config MCWbiKey.cfg MCWbiKey        # one of the runs below
    tlapm WbiKeyProofs.tla                   # one of the proof modules

## 1. Inventory

Everything lives in one `server` value. Each HTTP request is a goroutine; requests meet only at the
mutexes and the channel named here.

| Part | State | Operations | What is hard | What makes it right |
|---|---|---|---|---|
| Signing key cache (`quality.go`) | `wbiMixinKey`, `wbiKeyExpires`, `wbiRefresh` under `wbiMu` | `getWBIKey`, called by `handlePlayurl` with a 3 s context | one caller fetches while others wait on a channel; the fetch may fail, the leader's client may leave, a waiter may time out | one fetch at a time, nobody waits for a channel that will not be closed, an error stays with its call, the whole is a plain cache |
| Media groups (`fallback.go`) | `mediaGroups` under `mediaGroupMu` | registration (by clients, and by the playurl rewriting), lookup, pruning | stamps are read before the lock; a full table; a batch larger than the table | a group is lost only to age or to newer groups; 410 has a reason |
| Candidate health (`fallback.go`) | `candidateHealth` under `candidateMu` | success, failure, ranking, pruning | backoff arithmetic, cap and doubling; eviction under late stamps; a sort with five criteria | penalties bounded and never shortened by a further failure; the order is an order |
| Media fetch (`fallback.go`, `upstream.go`) | the ranked list of one request | `mediaGroupCandidates`, `fetchMediaCandidates` | a ranked copy goes stale; a client leaves during an attempt; what the last candidate answers | first acceptable answer wins, every fetch reported once and truly |
| Idle watchdog (`idle_timeout.go`, `copyBody`) | timer, `closed`, `timedOut` under `r.mu` | `Read`, `expire` | timer against read, close against read, a slow client | no unguarded read, the result names the true cause |
| Request handling (`server.go`, `completeRequest`) | `requestLog`, the response writer, the gauge `active`, counters | `ServeHTTP` and the handlers | a client leaves at any moment; panics and deferred calls; the order of checks that makes the verdict | each request counted once and for what it was |
| Error log (`shouldEmitFailure`) | `dedup` under `dedupMu` | one call per failure | stamps before the lock, a full table | every failure accounted for, lines keep their distance |
| Metrics (`metricsStore`) | 900 buckets, the recent errors, under `m.mu` | `record`, `snapshot`, `logTrafficSummary` | the ring, late stamps, the limits on host names, a log line written after the record and under another lock | windows count what was recorded in them, once; the figures of one page agree with each other and with the log |
| Redirects (`upstream.go`) | none shared; a drain goroutine per redirect | `fetchAllowedBody`, `closeRedirectBody` | the drain of a redirect's body against its timer, a body that hangs | nothing stays open or at work between two hops; the fetch ends |
| Live playlists (`playlist.go`) | none | `trimLivePlaylist`, `rewritePlaylist` | sequence numbers, keys and maps must stay in step with the segments that go | the player sees the last segments as it would have in the whole list |
| Playurl rewriting (`playurl.go`) | none; registers media groups | `summarizePlayurl`, `collectPlayurlMediaGroups`, `rewritePlayurlResponse` | Go's map order, addresses given twice, places that must not be touched | a link leads to the address it replaced; the summary does not depend on the order |
| Quality and signature (`quality.go`) | none | `highestQualityTarget`, `signWBI` | queries that were signed before | a query is the client's own or has one signature over all of it |
| gRPC messages (`headers.go`, `playerunite.go`) | none | `removeProtobufField`, `normalizePlayViewUniteRequest`, `normalizeGRPCMetadata` | messages cut off anywhere, numbers written too long, compression | only the field goes, or nothing; what could be read still can |
| Process (`main.go`) | listeners, server goroutines, `errCh`, the signal context | `run`, `bindServers` | partial failure, a server that fails while another works, stop before start | ports released, requests get their 30 seconds, the process ends |
| Flight recorder (`flightrecorder_unix.go`) | goroutine, `traceSignals`, `done`, a temporary file | `startFlightRecorder`, `writeFlightRecording` | stop against signal, the process ending in the middle of a recording | a file under its own name is whole |
| Diagnostics page (`diagnostics.go`) | none | serves a snapshot | — | see the metrics |
| Surge scripts, userscript | in the clients | registration, URL rewriting | callbacks of the player's platform | not modelled |

**Interactions.** `handlePlayurl` asks `getWBIKey` for a key, fetches, rewrites and thereby registers media
groups. `handleMediaGroup` looks a group up and ranks its candidates; `handleMediaTargets` walks them with
`fetchMediaCandidates`, which updates the health table, and copies the body through the watchdog.
`completeRequest`, deferred in `ServeHTTP`, classifies the request, records it in the metrics and, for a
failure, asks the error log whether to write a line. `run` starts the recorder, then the servers, and stops
them in the opposite order. Nothing of the proxy's state is persisted: a restart loses all, and there is no
crash recovery to model; only the recordings stay, and `Process` lets the process be killed at every step of
writing one.

## 2. Modules

| Module | Models | State and actions against the code |
|---|---|---|
| `KeyCache` | what a caller may expect of the key cache | a key with an expiry, fetches that fill it, calls that are answered; no lock, channel or waiting |
| `WbiKey` | `getWBIKey` | `pc[c]` is the place of a call in the function; `Lookup`'s three cases are the critical section of lines 71–89, `Wake`/`GiveUp` the `select`, `FetchDone`/`Publish` lines 91–100; channels are numbered, `closed` is the set of closed ones. It implements `KeyCache` |
| `Eviction` | "drop the oldest while over the limit" | `Youngest`: the subsets a loop like `pruneMediaGroupsLocked`'s may leave; of equally old entries the map's order decides |
| `MediaGroups` | the group table | `Begin*` reads the clock, `Register`/`Lookup` are the critical sections, both with all their prunings |
| `CandidateTable` | the health table's arithmetic and the ranking, as functions | an entry missing from the map reads as the zero value, hence a total function |
| `CandidateHealth` | the table under concurrent calls | `Begin*` reads the clock, `Record*`/`RankPrune` are the sections |
| `MediaFetch` | requests that rank and walk a group | `tried` is the history of attempts; `AttemptError`/`AttemptRetried`/`AttemptServed` are the ways round the loop; `Cancel` is the client |
| `IdleTimeout` | watchdog, read loop, timer and client | `BodyRead` outside the lock, `ReadSection` inside, `TimerFires` starts an `expire` goroutine (`pending`), `ExpireSection` and `ExpireClose` are its two halves; `waited` is history: for how many ticks of the limit the next chunk has lain waiting behind one `Write` |
| `RequestLifecycle` | `ServeHTTP`, handlers, `completeRequest` | one action per stretch between two points at which something else can happen; `Leave` is the client; `pc = "complete"` is the deferred call, reached by return and by panic |
| `ErrorDedup` | `shouldEmitFailure` | a section per case: `EmitNew`, `EmitAgain`, `Suppress` |
| `Subsequences` | the elements of a sequence in chosen places | what a loop with a test and an `append` makes |
| `LivePlaylist` | the playlist branch of `handleMediaTargets` | a playlist is a sequence of lines with a tag, a number and an address; `Trim` and `Rewritten` are the two functions; `RefusePlaylist` is the branch up to the first of them (an answer that is partial, breaks off or is too long; no `PUBLIC_URL`), `Serve` the rest; `Seen` is what HLS makes a player see of a list and comes from no code |
| `MetricsRing` | the ring of buckets, as functions | `Bucket` is `bucketLocked`, `WithRequest` the counting of `record`; `AggregateHosts` walks the hosts in any order, `ListedHosts` sorts and cuts them for the page |
| `Observability` | `completeRequest` to the log line, the page, the summary | extends `ErrorDedup`, takes `MetricsRing`; `Complete*` reads the clock, `Record` is the section under `m.mu`, `Log` the later one under `dedupMu`; `Ask` reads a reader's clock, `Snapshot`/`Summarize` are its sections |
| `UpstreamRedirect` | one fetch with its redirects | `Check`, `Do`, `Follow` are the loop; `CloseOrDrain` starts the goroutine (`CopyEnds`) and the timer (`DrainTimerFires`), `Drained`/`DrainTimedOut`/`Join` are the `select` and the wait behind it |
| `MediaStream` | a media answer from the first request to the last byte | extends `IdleTimeout` (the answer's body) and takes `UpstreamRedirect` (the fetch); both share the client, whose leaving cancels both |
| `PlayurlRewrite` | the playurl answer | a document is the row of its objects with the fields that the code reads; `Orders` are the walks that Go's map order allows; `Rewrite`, `PassOn`, `PassOnUnread` are the ways out |
| `QualityRequest` | the playurl request that goes out | a query maps names to values; `Sign` is `signWBI`, a signature stands for what was hashed |
| `ProtobufFields` | `removeProtobufField` | byte by byte, as a function of the place it has come to; `Readings` is the reference: every way to cut a message into fields by the wire format |
| `GrpcRequest` | what changes in a gRPC request | a frame with flag, length, compression and metadata; `MaxMessage` is the limit on what a gzip unpacks to, beyond which the frame is left as it is; `Normalized`, `DeviceNormalized` are the two functions |
| `Rewriting` | the four above and the playlists, by route | one request takes one route |
| `FlightRecorder` | the recorder's goroutine | each call of `writeFlightRecording` is a step that may fail, so that a signal or the end of the process may come between two |
| `Process` | `run`, `bindServers`, the servers' goroutines, signals, requests | extends `FlightRecorder`; `main` is the place in `run`, `next` the place in its loops |

The modules compose where they share state: `MediaFetch` extends `CandidateTable`, so its requests share the
table of `CandidateHealth`; `MediaStream`, `Observability`, `Rewriting` and `Process` are compositions. Where
they share only a result, they compose by abstraction: `RequestLifecycle` takes a fetch, a key, a stall and a
registration as one step each, `MediaFetch` an attempt, which the other modules show in detail.
`MC*` modules only give constants values and, where only safety is checked, symmetries.

**Data left out.** URLs are model values with a risk class; a status is a representative of the class that
the code distinguishes (404 for "refusal passed on", 400 for every 4xx of the proxy's own); headers, logging
and formatting are absent. Of a health entry, `Successes` is kept as "any?" since that is all the code reads.
The error of `rand.Read`, which the Go version of `go.mod` never returns, is possible in `RequestLifecycle` and
`PlayurlRewrite`, whose callers have a path for it, and left out of `MediaGroups`; also left out is the
branch of `fetchMediaCandidates` at `fallback.go:285`, whose condition is never true there, and the
wrapper's own `Close`, which the proxy never calls. `MEDIA_IDLE_TIMEOUT=0` takes the watchdog away, and with it
what `MediaStream` shows of the stream. `MetricsRing` counts requests, results and errors; the other counters
(bytes, statuses, routes, candidates, playlists) are summed in the same way and are left out, as are stalls,
of which the order of the listed hosts also takes account: of the rows with errors any may come first.
Bodies longer than the limits of `io.LimitReader` come up where they are refused: a playlist in `LivePlaylist`,
a playurl answer or a gRPC message in `RequestLifecycle`; the inputs of `PlayurlRewrite` and `GrpcRequest` are
within them.
In `PlayurlRewrite` which object stands in which is left out, but for the root: the others come in any order.
A varint is evaluated up to the size that a message can
have; what is larger is one value, since the code only compares it with the length.

## 3. Runs

Distinct states in brackets. With two workers no run takes more than two minutes.

| Run | Question | Bounds and why they are enough |
|---|---|---|
| `wbi_key` (67 k) | one fetch at a time, no lost wakeup, errors stay apart, implements `KeyCache`, every call returns | three calls: a leader, a waiter, and one that comes between; the key expires within the run, so a second refresh happens |
| `media_groups` (220 k) | retention, honest 410, a fresh batch lands | room for two groups, batches up to three, two goroutines with late stamps, time past the TTL |
| `candidate_health` (1.6 M) | penalty bounds, backoff never shrinks, a running penalty is forgotten only for a reason, the ranking prefers what it should | three candidates of two kinds and room for two, two goroutines with late stamps, a limit that cuts off the third failure in a row (the second, if a 403), every table four calls can make, every index |
| `media_fetch` (2.0 M) | order of attempts, honest selection record, COS last | two requests, three candidates, a redirect target shared with the list, a direct request |
| `media_stream` (187 k) | guarded reads, true causes, nothing left open or at work, the request ends | two redirects, so that a drain comes between two requests and after the last; two hosts of which one is refused; three chunks (one with the client, one with the loop, one waiting), a timer of two ticks that is reset, fires and fires late |
| `lifecycle` (630 k) | counters and gauge, verdicts; a leaver is counted | two requests, every route and method, so that all pairs meet |
| `observability` (445 k) | limits, accounting and distance of log lines, exact windows, figures of a page that agree | three hosts that fail in a table of one key, with room for one name beside the rest in a bucket and on the page; a ring of two seconds that the clock goes round; three requests by two goroutines |
| `rewriting` (654 k) | the window a player sees, headers and addresses of a playlist; links that resolve, a stable summary; one signature; fields that go alone | 157 440 playlists: up to three segments of which one is kept, with or without each of the tags in the places where the code looks for them, unreadable numbers, foreign hosts, an unfinished end; each with `PUBLIC_URL` set or not, and an answer that is partial or cannot be read; documents of up to three objects with addresses once, twice and unusable, in every order of the walk; queries with and without signature; every message of up to three bytes of eleven kinds and the longer ones whose cut is doubtful, and gzips that unpack to the limit of 18 bytes and beyond it, to 20 and 21 |
| `process` (82 k) | ports released, graceful stop, whole recordings, the end | two servers with a request each, so that one fails to bind, or fails later, while the other works |

`CHECK_DEADLOCK FALSE` stands where the modelled work ends: a finite set of requests or a bounded clock.
`MaxClock`, `MaxChunks`, `MaxRepeats`, `MaxRequests` and their like bound a run only; `MaxLate` (metrics) is an
assumption, that nobody waits for the metrics lock for a whole turn of the ring (15 minutes).

What the properties say is in the comment above each. Some results worth knowing:

* `FreshBatchLands`, `KeptUntilDisplaced`: with late stamps a registration may be thrown out by its own
  second pruning, but only when `maxMediaGroups` groups no older are there.
* `BackoffNeverShrinks` needs `candidateFailureMax <= 16 * candidateFailureBase` (it is 10 times); otherwise
  the cap of the shift would undercut it.
* `WindowsExact` allows the 15-minute window, and only it, to miss its oldest second when a record of the
  next second slips in between a snapshot's reading of the clock and its lock: the ring is exactly as long
  as that window.
* `LinesApart` holds only while a key stays in the table: above 1024 keys an evicted key is new again, and
  its count of repeats is lost (`dropped` in `FailuresAccounted`).
* `WindowKept` holds of playlists in which the date and the discontinuity of the first segment stand next to
  it. One that stands before a `MAP` line or an unknown tag stays in the header (`firstSegmentTag` stops
  there), and the player then takes it for the first *kept* segment's. A playlist is also taken to name one
  key at a time: of several `KEY` lines for one segment, with different formats, only the last is carried over.
* `WindowKept` and `HeaderKept` also ask for segments as HLS has them (`Regular`): each EXTINF with its address
  before the next, and sequence, discontinuity sequence and START ahead of the first. The attempt to prove them
  asked for it, and TLC confirmed it: of two EXTINF before one address, the cut counts a segment that is none and
  drops the address of one that stays; a START or a sequence tag behind the first segment survives the cut.

### Where the code and its README disagree

| Run | What TLC shows |
|---|---|
| `media_fetch_cooldown` | `fallback.go:274` penalises the candidate before it asks whether the client has left: one seek puts a healthy candidate into cooldown for 30 s, for all clients |
| `idle_timeout_silence` | the idle timer that a chunk restarts goes on running while that chunk is written to a slow client. In the trace upstream's next chunk lies waiting in every tick of the limit while the loop sits in one `Write`; timer and `expire` strike during that `Write`, and the read that follows, chunk in hand, makes an `upstream_stall` of it. README.md:240 has the limit as the longest time without upstream data |
| `lifecycle_departure` | a client that leaves while a playlist or playurl body is read gets a 502 and counts as `upstream_error` (`server.go:280`, `server.go:524`); one that leaves while the playurl answer is written counts as `stream_error` (`server.go:546`) |

`lifecycle_departure` only falsifies the statistics and the log, which the README promises are clean of client
cancellations.

A fourth has no run of its own. A live playlist is cut before its hosts are looked at (`server.go:290`,
`server.go:292`), so one that names a foreign host only among the segments that go is served with 200, where
README.md:219 has the whole request answered 502. `NothingPastProxy` says what the code does, and that nothing
foreign reaches the player; `ForeignRefusesAll` (`LivePlaylist`) says what the README does, and TLC refutes it when
it is added to the invariants of `MCRewriting.cfg`.

### Fairness

* `Process`: weak fairness of `run`, of the 30 seconds and of the recorder's goroutine; none of the requests or
  of Serve, which `run` does not wait for. Signals for recordings may come without end, and the goroutine may
  always prefer them to `done`; what ends it is that `signal.Stop` comes first.
* `WbiKey`: weak fairness of each call's own steps and of the end of its fetch, which the client's time
  limits guarantee. No fairness of the call's own deadline: the property shows that none is needed. A waiter
  can be overtaken by newcomers only finitely often because calls are finitely many.
* `MediaStream`: weak fairness of the fetch's local steps, of a request's end (the transport's time limits), of
  the drain's timer, of a copy from a closed body, and then of the watchdog's time, timer and goroutines and of
  a client that goes on reading. None of a body, of a redirect or of the answer, which may fall silent for ever.
  `MaxChunks` makes the stream finite, so what is shown is that a *silent* upstream ends it, not that an endless
  live stream ends. That closing a body ends a read of it is what `net/http` promises and is assumed.
* `RequestLifecycle`: weak fairness of the handler's local steps and of the errors that a cancelled context
  forces; none of upstream or of reading a client's body. So the property is about requests whose client
  has left. Without the client leaving, an *error* answer of a CDN that stalls in its body has no watchdog
  (`server.go:316` asks for a status of 200 to 399) and ends only with the client.

## 4. Proofs

| Module | Theorems | Argument |
|---|---|---|
| `WbiKeyProofs` | `TypeCorrect`, `Invariance`, `OneFetchAtATime`, `NobodyLeftWaiting`, `FailuresStayApart`, `Refinement` | the inductive invariant ties `refresh` to the one call that leads: a channel is registered exactly while its leader is fetching or publishing, and every waiter holds either that channel or a closed one. Without the tie, `NoLostWakeup` is not inductive: nothing would stop a leader from dropping a channel that waiters hold. `Refinement` maps the key and the answers and lets `Publish` be the abstract step |
| `RewritingProofs` | of the group table: `TypeCorrect`, `NeverAboveCap`, `GroupsKept`, `LookupsAnsweredHonestly`, `BatchLands`; of what passes through: `PlayerStaysInside`, `HeaderStays`, `WindowStays`, `LinksLead`, `SummariesAgree`, `SignaturesCover`, `FieldsGone` | cardinality of `Youngest`, proved once; `GroupsKept` follows an evicted group to the `Cap` groups no older that took its place, `issued` and `created` keeping the history; `BatchLands` counts the groups that a registration's own pruning would have to prefer to its last `Cap`. For the rest see below |
| `CandidateHealthProofs` | `TypeCorrect`, `NeverAboveLimit`, `PenaltiesBounded`, `BackoffMonotone`, `PenaltiesRemembered`, `RankingIsAnOrder`, `RankingAvoidsWorse`, `AskedForIsFirst` | lemmas on `Penalty` by cases on the five steps of the backoff; the invariant bounds every stamp by the clock and every penalty by stamp plus `candidateFailureMax`. The ranking: a strict total order gives every candidate a number of predecessors of its own, these numbers are the places, so that the sorted list is a permutation in the order's order |
| `MediaFetchProofs` | `FirstAcceptableIsServed`, `SelectionsAreHonest`, `CosComesLast` | one invariant for all requests: what was tried is a beginning of the ranked list, every attempt but the last failed or was retryable, and each was reported as it went. `CosComesLast` takes the ranking's lemmas from `CandidateHealthProofs` and needs the fact that a row ranked once stays the row that is walked, whatever the other requests do to the table. Its hypothesis is a group of two or more: in a group of one nothing comes before COS |
| `MediaStreamProofs` | `TypeCorrect`, `ImplementsIdleTimeout`, `AlwaysGuarded`, `ResultsHaveCause`, `NothingLeftBehind` | the watchdog's invariant is proved of `IdleTimeout` alone and holds of the stream because every step of `MediaStream` is one of the watchdog's or a stutter of it; the fetch adds which bodies are open in which place of the redirect loop |
| `RequestLifecycleProofs` | `PageIsTrue`, `NoHollowSuccess`, `VerdictsHaveCauses` | `Inv` has four parts: what each variable may hold, what upstream has done in each place of a handler, the story behind each `requestLog` (who left, what failed, what was written), and counters that are the cardinalities of the sets of requests that ended so. The gauge is the cardinality of those between their two ends |
| `ProcessProofs` | `TypeCorrect`, `Invariance`, `AllPortsReleased`, `StopsGracefully`, `RecordingsWhole` | the invariant has three parts that tie the temporary file to the place of the recorder's goroutine, each listener to the place of `run` and of its goroutine, and the requests to the servers that the loop of the shutdown has passed: a server that was shut takes no request, which is why none can be running behind the loop |
| `ObservabilityProofs` | of the error log: `TypeCorrect`, `Invariance`, `AllAccounted`, `DistanceKept`; with the metrics: `ObsTypeCorrect`, `ObsInvariance`, `ObsRefines`, `ObsAllAccounted`, `ObsDistanceKept`, `WindowsAreExact`, `PagesAgree` | see below |

**The error log.** Each section takes one goroutine out of flight (cardinality of `InFlight`, one lemma) and
moves its failure to a line, to the entry's count or, with an evicted entry, to `dropped`. The entry bears the
stamp of its last line, which `DistanceKept` needs: `Due` is tested against the entry, the property speaks of
lines. `ObsRefines` shows that the whole of `Observability` is a behaviour of `ErrorDedup`, and so carries both
over to it.

**The metrics.** `ObsInv` says that each bucket stands in its second's place and within its limits; that a
second still kept (later than the clock less the ring) is in its place with all the requests recorded in it; and
that stamps are late by `MaxLate` at most. Two seconds less than a ring apart have different places, which is
why a bucket that is thrown out holds no second that is still kept. `WindowsAreExact` follows. For `PagesAgree`
the invariant grows by `CountsOK`: the counters of each bucket add up, over results and over hosts; the recent
errors of a kept second are failures it counts, and all of them while the list has room; a goroutine's pending
record and pending line match; and in a kept second lines, plus goroutines that still have to ask for one, are
no more than failures, because the record comes before the log.

Counters are sums over buckets, hosts and results, of which the library has no theorems. The module proves its
own: `SumFunctionOnSet` is a fold that picks any member of a set; induction over the subsets of a finite set, by
the well-foundedness of their inclusion, shows that the choice is immaterial, that sums split, and when sums
over rows and over columns agree. That takes no theorem with an operator parameter: the induction is over a set
of counterexamples, which has a least member.

**What passes through.** The functions of `Rewriting` select from sequences. They do so by `Chosen`, a recursive
function, since the provers know no definition of `SelectSeq`; the module proves what it returns by induction
over a set of numbers and of sequences. `LinksLead`: the candidates are the first places of their addresses,
so the address of every reference is among them, and the place of a candidate is the number in its link; the id
is the place of the object in the row of groups, which holds each object once because an order of the walk is a
bijection. `SummariesAgree`: in a document that says each thing once, of what the walk meets first there is but
one. `SignaturesCover`: queries are compared name by name. `PlayerStaysInside`: trimming only moves lines of
upstream's or adds numbers, so that the rewriting meets no link of its own; and the five ways to an answer of the
playlist branch are followed one by one, so that the causes of a 502 are these and no others.

`HeaderStays` and `WindowStays` take a cut list apart: `lines = above \o removed \o rest` becomes
`prefix \o rest`. A selection of a list in two parts is the selections of its parts, so that each tag can be
followed by itself through `Carry`, `Without` and `Advance` (`HeaderTags`): the prefix has the last key and map
of `above \o removed`, its two counts moved on by the segments and the breaks that went, and of every other tag
what `above` has. By `Regular` the address after the n-th EXTINF is the n-th address of the list
(`AddressesMatch`; the enumeration of a set in ascending order is unique), so that the lines that go hold exactly
n of them. The n+j-th segment of the list and the j-th of the cut one then have the same own lines, the same key
and map in force and the same sums (`SegmentStays`). Only the first kept segment reads the header as its own
lines, and there `Orderly` says that none of them is a mark.

`FieldsGone` compares `RemoveField`, which walks a message by the lengths it finds in it, with every way to cut
the message into fields (`Readings`). A number is read alike in the message and by itself (`NumberAt`), content
and field alike (`ContentAt`, `FieldAt`), so that of all the ends that may be tried for a field there is one, and
it is the one that the code computes. Both are recursive functions of a place; that such functions exist is
itself proved (`TableExists`: each entry is made of entries of lower rank). Downwards from the end of the message
then (`RemoveAgrees`): the walk succeeds from a place exactly when there is a reading from it, gives what every
reading leaves without the field, and what it gives is shorter than the message unless it is the message. The
last part is what the comparison of lengths in `normalizePlayViewUniteRequest` rests on.

The inputs of all these theorems are any that satisfy `PlaylistAssumption`, `DocumentsAssumption`,
`QueriesAssumption` and `RequestsAssumption`, which say what a line, an object, a value and a frame are. There is
no bound on lengths but `MaxMessage`, any number, on what a gzip unpacks to: `FieldsGone` says of a longer one that
it goes on untouched.

`TypeCorrect` of the key cache, the groups, the health table, the error log and the media stream, and the limits
of the tables, are proved and therefore not among the runs' properties. The types of `MediaFetch` and
`RequestLifecycle` are parts of the invariants proved there.

The theorems hold for every number of servers, hosts, candidates, ids and error keys, every finite set of calls,
requests and goroutines, every table size and every time limit that satisfies the named `ASSUME`s: limits
positive, `FailureBase <= FailureMax <= 16 * FailureBase`, `FailureMax <= HealthTTL`, room for two hosts in a
bucket and on the page, all true of the constants in the code; and `MaxLate < Ring`, that nobody waits for the
metrics lock for a whole turn of the ring.

**Only model-checked.** All liveness (`EveryCallReturns`, `StreamEnds`, `LeaversAreCounted`,
`StopEndsProcess`): fairness and ENABLED are out of the prover's reach. Every safety property of the passing
runs is proved.

## 5. Not modelled

* Parsing and string rules without state: the environment, `targetFromRequest`, the DNS names and lists of
  hosts (a target is allowed or not: a set), the regular expressions of the playurl paths, CORS and the copying
  of headers, `makeMixinKey`, the text of log lines and keys. Each has one case per input and tables of tests.
* The latency percentiles and the counters of the metrics that go the way of the requests.
* `net/http`, `os/signal` and `runtime/trace`, modelled from how `main.go` and `flightrecorder_unix.go` use them:
  Serve closes its listener when it returns, Shutdown waits for running requests, Close cuts them. That the
  removal of a temporary file works is assumed. `run` passes one server to `bindServers`; the model, like
  `bindServers`, takes any number.
* The page of `diagnostics.go`, a static file, and the variant of the recorder for other systems
  (`flightrecorder_other.go`), which does nothing.
* The Surge scripts and the userscript: string work in the callbacks of the player's platform. What reaches the
  proxy from them, registrations and media requests in any order, the models take.

## 6. Plan

Done: all stateful parts, their compositions, and the rewriting of what passes through; the proofs of every
safety property. What is not modelled is left out for the reasons given in section 5, and liveness stays with
TLC. Left is the upkeep: a change of the source that section 2 maps to a module is made there first, TLC says on
the run whether the properties still hold, and the step of the proof that fails says why they might not.
