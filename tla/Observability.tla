----------------------------- MODULE Observability ----------------------------
(***************************************************************************)
(* How a request that is over is observed: completeRequest of               *)
(* internal/proxy/observability.go takes its time, records it in the metrics *)
(* (MetricsRing) under m.mu, and then, when it has failed, asks              *)
(* shouldEmitFailure under dedupMu for a line in the log (ErrorDedup).        *)
(* The diagnostics page and the summary in the log read the metrics at any   *)
(* moment, by a time that was read before m.mu is taken.                    *)
(*                                                                         *)
(* A key of ErrorDedup stands for an upstream host here: a host fails in one *)
(* way, so its failures share their key.                                    *)
(***************************************************************************)
EXTENDS ErrorDedup, Integers, Sequences, Functions

CONSTANTS Other,         \* overflowHost
          Ring,          \* metricWindowSeconds
          Windows,       \* the windows of a snapshot, in seconds
          Summary,       \* the interval of the summaries, in seconds
          MaxHosts,      \* maxHostsPerBucket
          MaxAggregated, \* maxAggregatedHosts
          MaxShown,      \* the hosts that hostsFromAggregate lists
          MaxRecent,     \* maxRecentErrors
          MaxLate,       \* bound on the seconds between a stamp and its section
          MaxRequests    \* bound on the requests, for model checking only

ASSUME MetricsAssumption ==
  /\ Other \notin Keys
  /\ Ring \in Nat \ {0}
  /\ Windows \subseteq 1 .. Ring /\ Ring \in Windows
  /\ Summary \in Nat \ {0}
  /\ MaxHosts \in Nat /\ MaxHosts >= 2
  /\ MaxAggregated \in Nat /\ MaxAggregated >= 2
  /\ MaxShown \in Nat \ {0}
  /\ MaxRecent \in Nat \ {0}
  /\ MaxLate \in Nat /\ MaxLate < Ring
  /\ MaxRequests \in Nat

VARIABLES buckets,  \* m.buckets
          recent,   \* m.recentErrors
          request,  \* the observation that a goroutine is about to record
          page,     \* what the reader of the metrics is doing, or has been shown
          recorded  \* history: the requests recorded with each second's stamp

Metrics == INSTANCE MetricsRing WITH Hosts <- Keys

metrics == <<buckets, recent, recorded>>
dedup == <<table, call, history>>
obsVars == <<vars, metrics, request, page>>

Seconds == 0 .. MaxClock

Requests == {Idle} \cup [op : {"record"}, host : Keys, result : Metrics!Results, now : Nat]

Errors == [host : Keys, now : Nat]

\* logTrafficSummary takes a window no wider than the ring.
SummaryWindow == IF Summary > Ring THEN Ring ELSE Summary

Counters(windows) == [windows -> [requests : Nat, results : [Metrics!Results -> Nat]]]

\* A reader has asked, or has been shown: the window counters, and, on the page,
\* the hosts of the widest window with their errors, those that the page lists, and
\* the recent errors.
Pages ==
  {Idle}
  \cup [op : {"snapshot", "summary"}, now : Nat]
  \cup [op : {"shown"}, now : Nat, windows : Counters(Windows),
        hosts : [Metrics!Names -> [requests : Nat, errors : Nat]],
        listed : SUBSET Metrics!Names, recent : Seq(Errors)]
  \cup [op : {"summarized"}, now : Nat, windows : Counters({SummaryWindow})]

\* The types, and the limits of what is kept: the keys of the dedup table, the
\* hosts of a bucket and of the page, the name for the rest included, and the list
\* of recent errors.  A second has its place in the ring.
ObsTypeOK ==
  /\ TypeOK
  /\ buckets \in [Metrics!Slots -> Metrics!Buckets]
  /\ \A i \in Metrics!Slots :
       /\ buckets[i].second # -Ring => buckets[i].second % Ring = i
       /\ Cardinality(Metrics!Present(buckets[i])) <= MaxHosts
  /\ recent \in Seq(Errors) /\ Len(recent) <= MaxRecent
  /\ request \in [Workers -> Requests]
  /\ page \in Pages
  /\ page.op = "shown" =>
       Cardinality({h \in Metrics!Names : page.hosts[h].requests > 0}) <= MaxAggregated
  /\ recorded \in [Seconds -> Nat]

ObsInit ==
  /\ Init
  /\ buckets = Metrics!NoBuckets
  /\ recent = <<>>
  /\ request = [w \in Workers |-> Idle]
  /\ page = Idle
  /\ recorded = [s \in Seconds |-> 0]

-------------------------------------------------------------------------------
Pending == {w \in Workers : request[w] # Idle}

CompleteWith(w, host, result) ==
  /\ SumFunction(recorded) + Cardinality(Pending) < MaxRequests
  /\ request' = [request EXCEPT ![w] = [op |-> "record", host |-> host, result |-> result,
                                        now |-> clock]]
  /\ UNCHANGED <<metrics, page>>

\* completeRequest, up to the record: of a request that has failed, which has a
\* failure to log then, and of one that has not.
CompleteFailed(w) ==
  /\ request[w] = Idle
  /\ Begin(w)
  /\ CompleteWith(w, call'[w].key, "failed")

CompleteOther(w) ==
  /\ request[w] = Idle
  /\ call[w] = Idle
  /\ \E h \in Keys, result \in {"success", "cancelled"} : CompleteWith(w, h, result)
  /\ UNCHANGED vars

\* The list keeps the last errors, in the order of the sections.
Listed(error) ==
  IF Len(recent) = MaxRecent THEN Append(Tail(recent), error) ELSE Append(recent, error)

\* record's critical section.
Record(w) ==
  /\ request[w] # Idle
  /\ LET o == request[w]
     IN /\ buckets' = Metrics!WithRequest(buckets, o.now, o.host, o.result)
        /\ recent' = IF o.result = "failed" THEN Listed([host |-> o.host, now |-> o.now])
                     ELSE recent
        /\ recorded' = [recorded EXCEPT ![o.now] = @ + 1]
  /\ request' = [request EXCEPT ![w] = Idle]
  /\ UNCHANGED <<vars, page>>

LogEarly(w) ==
  /\ \E k \in Keys : EmitNew(w, k) \/ EmitAgain(w, k) \/ Suppress(w, k)
  /\ UNCHANGED <<metrics, request, page>>

\* logRequest for a failure, once it is recorded: shouldEmitFailure.
Log(w) ==
  /\ request[w] = Idle
  /\ \E k \in Keys : EmitNew(w, k) \/ EmitAgain(w, k) \/ Suppress(w, k)
  /\ UNCHANGED <<metrics, request, page>>

\* The page asks for a snapshot, or the ticker for a summary, of this moment.
Ask ==
  /\ page.op \in {"idle", "shown", "summarized"}
  /\ \E kind \in {"snapshot", "summary"} : page' = [op |-> kind, now |-> clock]
  /\ UNCHANGED <<vars, metrics, request>>

\* snapshot's critical section: all windows, the hosts of the widest and the
\* recent errors of one state of the metrics.
Snapshot ==
  /\ page.op = "snapshot"
  /\ LET taken == Metrics!Taken(buckets, page.now, Ring)
         windows == [n \in Windows |-> Metrics!Aggregate(buckets, page.now, n)]
     IN \E hosts \in {Metrics!AggregateHosts(buckets, taken, order) : order \in Metrics!Orders} :
          \E listed \in Metrics!ListedHosts(hosts) :
            page' = [op |-> "shown", now |-> page.now, windows |-> windows, hosts |-> hosts,
                     listed |-> listed, recent |-> recent]
  /\ UNCHANGED <<vars, metrics, request>>

\* logTrafficSummary: one window and nothing else.  The gauge of active streams
\* it logs beside it is read in a section of its own.
Summarize ==
  /\ page.op = "summary"
  /\ page' = [op |-> "summarized", now |-> page.now,
              windows |-> [n \in {SummaryWindow} |-> Metrics!Aggregate(buckets, page.now, n)]]
  /\ UNCHANGED <<vars, metrics, request>>

\* A second passes; no goroutine waits for m.mu longer than MaxLate.
ObsTick ==
  /\ Tick
  /\ \A w \in Pending : clock < request[w].now + MaxLate
  /\ page.op \in {"snapshot", "summary"} => clock < page.now + MaxLate
  /\ UNCHANGED <<metrics, request, page>>

ObsNext ==
  \/ \E w \in Workers : CompleteFailed(w) \/ CompleteOther(w) \/ Record(w) \/ Log(w)
  \/ Ask \/ Snapshot \/ Summarize
  \/ ObsTick

ObsSpec == ObsInit /\ [][ObsNext]_obsVars

-------------------------------------------------------------------------------
FirstSecond(now, n) == now - n + 1

\* The seconds of a window whose place in the ring the clock has not reached again.
StillKept(now, n) == {s \in FirstSecond(now, n) .. now : s > clock - Ring}

RecordedIn(seconds) == SumFunctionOnSet(recorded, seconds \cap Seconds)

\* A snapshot and a summary count what was recorded in their windows, each request
\* once: nothing of the seconds before the window or after their own, and nothing
\* is missing but the seconds whose place in the ring the clock has reached again.
\* A window shorter than the ring by MaxLate is exact.
WindowsExact ==
  [][page'.op \in {"shown", "summarized"} /\ page' # page =>
       \A n \in DOMAIN page'.windows :
         LET count == page'.windows[n].requests
         IN /\ count <= RecordedIn(FirstSecond(page.now, n) .. page.now)
            /\ count >= RecordedIn(StillKept(page.now, n))]_obsVars

\* The figures of one page agree.  The results of a window add up to its requests,
\* and the hosts, however many were merged into the rest, to the widest window; when
\* that has failures, a host with some is listed; the failures it counts are those of
\* the recent errors, as far as the list and the ring reach; and a failure whose line
\* is in the log is among them.
PageAgrees ==
  [][page'.op = "shown" /\ page' # page =>
       LET widest == page'.windows[Ring]
           failed == widest.results["failed"]
           listed(seconds) == {i \in DOMAIN page'.recent : page'.recent[i].now \in seconds}
           logged == {k \in Keys : accounted[k] > 0 /\ written[k] \in StillKept(page.now, Ring)}
       IN /\ \A n \in Windows :
               page'.windows[n].requests =
                 SumFunction(page'.windows[n].results)
          /\ SumFunction([h \in Metrics!Names |-> page'.hosts[h].requests]) = widest.requests
          /\ SumFunction([h \in Metrics!Names |-> page'.hosts[h].errors]) = failed
          /\ failed > 0 => \E h \in page'.listed : page'.hosts[h].errors > 0
          /\ Cardinality(listed(StillKept(page.now, Ring))) <= failed
          /\ Len(page'.recent) < MaxRecent =>
               failed <= Cardinality(listed(FirstSecond(page.now, Ring) .. page.now))
          /\ Cardinality(logged) <= failed]_obsVars
===============================================================================
