------------------------------ MODULE MetricsRing -----------------------------
(***************************************************************************)
(* The data of metricsStore in internal/proxy/observability.go and what is  *)
(* computed from it: the ring of one bucket per second, bucketLocked and    *)
(* record which write a bucket, aggregateLocked and aggregateHost which add  *)
(* up the buckets of a window.  The steps that use it are in Observability.  *)
(*                                                                         *)
(* A bucket's counters of bytes, statuses, routes and latencies go the way  *)
(* of requests and are left out; its table of hosts is kept, with the limit  *)
(* and the name for the rest.  A request refused before its target is known *)
(* has no host and counts in the other counters alone; the requests here    *)
(* are those that have one.                                                 *)
(***************************************************************************)
EXTENDS Integers, FiniteSets, FiniteSetsExt, Functions

CONSTANTS Hosts,         \* the upstream hosts
          Other,         \* overflowHost
          Ring,          \* metricWindowSeconds
          MaxHosts,      \* maxHostsPerBucket
          MaxAggregated, \* maxAggregatedHosts
          MaxShown       \* the hosts that hostsFromAggregate lists

Slots == 0 .. Ring - 1

Names == Hosts \cup {Other}

Results == {"success", "failed", "cancelled"}

Buckets == [second : Int, requests : Nat, results : [Results -> Nat],
            hosts : [Names -> [requests : Nat, errors : Nat]]]

EmptyBucket(second) ==
  [second |-> second, requests |-> 0, results |-> [r \in Results |-> 0],
   hosts |-> [h \in Names |-> [requests |-> 0, errors |-> 0]]]

\* The zero buckets bear a second that lies before every window.
NoBuckets == [i \in Slots |-> EmptyBucket(-Ring)]

Present(bucket) == {h \in Names : bucket.hosts[h].requests > 0}

-------------------------------------------------------------------------------
\* bucketLocked: the second's bucket, which another second may still occupy.
Bucket(buckets, second) ==
  LET bucket == buckets[second % Ring]
  IN IF bucket.second # second THEN EmptyBucket(second) ELSE bucket

HostUnlimited(bucket, host) == host

\* The host an observation counts for: its own, or the one for the rest when the
\* bucket has no room for another name.
Host(bucket, host) ==
  IF host \notin Present(bucket) /\ Cardinality(Present(bucket)) >= MaxHosts - 1
  THEN Other ELSE host

\* record, for a request with this stamp.
WithRequest(buckets, now, name, result) ==
  LET bucket == Bucket(buckets, now)
      host == Host(bucket, name)
      error == IF result = "failed" THEN 1 ELSE 0
  IN [buckets EXCEPT ![now % Ring] =
        [bucket EXCEPT !.requests = @ + 1,
                       !.results[result] = @ + 1,
                       !.hosts[host] = [requests |-> @.requests + 1,
                                        errors |-> @.errors + error]]]

-------------------------------------------------------------------------------
InWindowFuture(bucket, now, seconds) == bucket.second >= now - seconds + 1

\* aggregateLocked takes the buckets of the seconds up to now, now included.
InWindow(bucket, now, seconds) ==
  now - seconds + 1 <= bucket.second /\ bucket.second <= now

Taken(buckets, now, seconds) == {i \in Slots : InWindow(buckets[i], now, seconds)}

Aggregate(buckets, now, seconds) ==
  LET taken == Taken(buckets, now, seconds)
  IN [requests |-> SumFunction([i \in taken |-> buckets[i].requests]),
      results |-> [r \in Results |-> SumFunction([i \in taken |-> buckets[i].results[r]])]]

Seen(buckets, taken) == UNION {Present(buckets[i]) : i \in taken}

\* The hosts whose first counters come to aggregateHost before those of h: by the
\* place of the bucket, and within a bucket as the map's iteration, order, has it.
Before(buckets, taken, order, h) ==
  LET first(g) == Min({i \in taken : g \in Present(buckets[i])})
  IN {g \in Seen(buckets, taken) :
        first(g) < first(h) \/ (first(g) = first(h) /\ order[g] < order[h])}

\* A host gets a row of its own while there is room for one more beside the rest;
\* from then on a host without a row goes to the rest.
Kept(buckets, taken, order) ==
  {h \in Seen(buckets, taken) \ {Other} :
     Cardinality(Before(buckets, taken, order, h)) < MaxAggregated - 1}

\* The names whose counters a row adds up.
Merged(kept, h) == CASE h \in kept  -> {h}
                     [] h = Other   -> Names \ kept
                     [] OTHER       -> {}

AggregateHosts(buckets, taken, order) ==
  LET kept == Kept(buckets, taken, order)
      merged(h) == taken \X Merged(kept, h)
  IN [h \in Names |->
        [requests |-> SumFunction([at \in merged(h) |-> buckets[at[1]].hosts[at[2]].requests]),
         errors |-> SumFunction([at \in merged(h) |-> buckets[at[1]].hosts[at[2]].errors])]]

\* hostsFromAggregate lists the first MaxShown rows by their stalls, errors and
\* requests.  Stalls, a part of the errors, are left out here: of the rows with
\* errors any may come first.
ListedBefore(hosts, g, h) ==
  \/ hosts[g].errors > 0
  \/ hosts[h].errors = 0 /\ hosts[g].requests >= hosts[h].requests

ListedHosts(hosts) ==
  LET rows == {h \in Names : hosts[h].requests > 0}
  IN {shown \in SUBSET rows :
        /\ Cardinality(shown) = Min({MaxShown, Cardinality(rows)})
        /\ \A g \in shown, h \in rows \ shown : ListedBefore(hosts, g, h)}

\* The orders that an iteration over the hosts may take.
Orders == Injection(Names, 1 .. Cardinality(Names))
===============================================================================
