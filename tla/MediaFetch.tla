------------------------------ MODULE MediaFetch ------------------------------
(***************************************************************************)
(* A media request for a group, from the ranked list to the answer:         *)
(* mediaGroupCandidates and fetchMediaCandidates in                         *)
(* internal/proxy/fallback.go, with fetchAllowed of upstream.go as one      *)
(* step that ends in an answer or an error.  A request for a single URL     *)
(* (/proxy/) has a list of one.  Requests run side by side and              *)
(* share the health table; each has ranked its list once, at its start, and *)
(* walks it while the others change the table.  The client may leave at any *)
(* moment, which cancels the attempt in flight.                             *)
(***************************************************************************)
EXTENDS CandidateTable

CONSTANTS Requests,   \* the media requests, all for one group
          Urls,       \* the group's URLs, as registered
          Direct,     \* the URLs that are asked for singly
          Redirected, \* URLs that a candidate may redirect to
          MaxClock    \* bound on the clock, for model checking only

ASSUME ConstantsAssumption ==
  /\ Urls \in Seq(Candidates)
  /\ Len(Urls) > 0
  /\ Direct \subseteq Candidates
  /\ Redirected \subseteq Candidates
  /\ MaxClock \in Nat

\* The answers the code tells apart: a success (2xx or 3xx), a refusal that is
\* passed on, a 403 and another retryable status.  0 stands for an error of the
\* attempt itself, 499 for one that the client's leaving caused.
Statuses == {200, 404, 403, 500}

Retryable(status) == status \in {403, 408, 425, 429} \/ status >= 500

VARIABLES clock,     \* what s.now() returns
          table,     \* s.candidateHealth
          pc,        \* "new", "fetch", "served" or "failed"
          list,      \* the ranked candidates of each request
          tried,     \* the attempts of each request and how they ended
          live,      \* whether the present attempt began before the client left
          cancelled, \* the requests whose client has gone
          selected   \* what recordCandidateSelection was told, per request

vars == <<clock, table, pc, list, tried, live, cancelled, selected>>

Attempts == [url : Candidates, final : Candidates, status : Statuses \cup {0, 499}]

Selections == [attempts : Nat, recovered : BOOLEAN, exhausted : BOOLEAN]

TypeOK == /\ clock \in Nat
          /\ table \in [Candidates -> Health]
          /\ pc \in [Requests -> {"new", "fetch", "served", "failed"}]
          /\ list \in [Requests -> Seq(Candidates)]
          /\ tried \in [Requests -> Seq(Attempts)]
          /\ live \in [Requests -> BOOLEAN]
          /\ cancelled \subseteq Requests
          /\ selected \in [Requests -> Seq(Selections)]

Init == /\ clock = 0
        /\ table = [c \in Candidates |-> Unobserved]
        /\ pc = [r \in Requests |-> "new"]
        /\ list = [r \in Requests |-> <<>>]
        /\ tried = [r \in Requests |-> <<>>]
        /\ live = [r \in Requests |-> TRUE]
        /\ cancelled = {}
        /\ selected = [r \in Requests |-> <<>>]

-------------------------------------------------------------------------------
Index(r) == Len(tried[r]) + 1

Target(r) == list[r][Index(r)]

AtLast(r) == Index(r) = Len(list[r])

StartUnranked(r, preferred) ==
  /\ pc[r] = "new"
  /\ table' \in PrunedHealth(table, clock)
  /\ list' = [list EXCEPT ![r] = Urls]
  /\ pc' = [pc EXCEPT ![r] = "fetch"]
  /\ live' = [live EXCEPT ![r] = r \notin cancelled]
  /\ UNCHANGED <<clock, tried, cancelled, selected>>

\* mediaGroupCandidates: the list for the index asked for, ranked now and for
\* the whole request.
Start(r, preferred) ==
  /\ pc[r] = "new"
  /\ table' \in PrunedHealth(table, clock)
  /\ list' = [list EXCEPT ![r] = Rank(table', clock, MediaOrder(Urls, preferred))]
  /\ pc' = [pc EXCEPT ![r] = "fetch"]
  /\ live' = [live EXCEPT ![r] = r \notin cancelled]
  /\ UNCHANGED <<clock, tried, cancelled, selected>>

\* handleMedia: one URL, neither looked up nor ranked.
StartDirect(r) ==
  /\ pc[r] = "new"
  /\ \E c \in Direct : list' = [list EXCEPT ![r] = <<c>>]
  /\ pc' = [pc EXCEPT ![r] = "fetch"]
  /\ live' = [live EXCEPT ![r] = r \notin cancelled]
  /\ UNCHANGED <<clock, table, tried, cancelled, selected>>

\* The end of an attempt, its place in the history.
Ended(r, final, status) ==
  tried' = [tried EXCEPT ![r] =
              Append(@, [url |-> Target(r), final |-> final, status |-> status])]

\* recordCandidateFailure and recordCandidateSuccess, which prune as well.
RecordFailure(c, status) ==
  table' \in PrunedHealth([table EXCEPT ![c] = AfterFailure(@, status, clock)], clock)

RecordSuccess(c, latency) ==
  table' \in PrunedHealth([table EXCEPT ![c] = AfterSuccess(@, latency, clock)], clock)

\* The fetch is over, with an answer or without.
Finish(r, how, recovered, exhausted) ==
  /\ pc' = [pc EXCEPT ![r] = how]
  /\ selected' = [selected EXCEPT ![r] =
       Append(@, [attempts |-> Index(r), recovered |-> recovered, exhausted |-> exhausted])]
  /\ UNCHANGED live

\* The loop goes on to the next candidate.
Continue(r) == /\ live' = [live EXCEPT ![r] = r \notin cancelled]
               /\ UNCHANGED <<pc, selected>>

\* fetchAllowed returns an error: the connection, TLS, a time limit, a redirect
\* to a host that is not allowed, or the client has left.  The target is
\* penalized in every case; only then does the loop look at the context.
AttemptError(r) ==
  /\ pc[r] = "fetch"
  /\ \E why \in {0, 499} :
       /\ why = 499 => r \in cancelled
       /\ why = 0 => live[r]
       /\ Ended(r, Target(r), why)
  /\ RecordFailure(Target(r), 0)
  /\ IF r \in cancelled \/ AtLast(r)
     THEN Finish(r, "failed", FALSE, AtLast(r))
     ELSE Continue(r)
  /\ UNCHANGED <<clock, list, cancelled>>

AttemptServedEarly(r) ==
  /\ pc[r] = "fetch"
  /\ live[r]
  /\ \E status \in Statuses, final \in {Target(r)} \cup Redirected, latency \in Latencies :
       /\ Ended(r, final, status)
       /\ IF status = 200
          THEN RecordSuccess(final, latency)
          ELSE UNCHANGED table
       /\ Finish(r, "served", Index(r) > 1 /\ status = 200, AtLast(r) /\ Retryable(status))
  /\ UNCHANGED <<clock, list, cancelled>>

AttemptServedRecoversAny(r) ==
  /\ pc[r] = "fetch"
  /\ live[r]
  /\ \E status \in Statuses, final \in {Target(r)} \cup Redirected, latency \in Latencies :
       /\ ~Retryable(status) \/ AtLast(r)
       /\ Ended(r, final, status)
       /\ IF status = 200
          THEN RecordSuccess(final, latency)
          ELSE UNCHANGED table
       /\ Finish(r, "served", Index(r) > 1, AtLast(r) /\ Retryable(status))
  /\ UNCHANGED <<clock, list, cancelled>>

\* An answer that is not to be retried, or the last candidate's, whatever it is:
\* it is passed on.  Health is credited to the URL that answered in the end.  (A
\* retryable answer of the last candidate is not recorded at all: the code's
\* condition for it, index < len-1, is never true there.)
AttemptServed(r) ==
  /\ pc[r] = "fetch"
  /\ live[r]
  /\ \E status \in Statuses, final \in {Target(r)} \cup Redirected, latency \in Latencies :
       /\ ~Retryable(status) \/ AtLast(r)
       /\ Ended(r, final, status)
       /\ IF status = 200
          THEN RecordSuccess(final, latency)
          ELSE UNCHANGED table
       /\ Finish(r, "served", Index(r) > 1 /\ status = 200, AtLast(r) /\ Retryable(status))
  /\ UNCHANGED <<clock, list, cancelled>>

\* A retryable answer of an earlier candidate: penalize the URL that gave it,
\* close the body, go on.
AttemptRetried(r) ==
  /\ pc[r] = "fetch"
  /\ live[r]
  /\ ~AtLast(r)
  /\ \E status \in Statuses, final \in {Target(r)} \cup Redirected :
       /\ Retryable(status)
       /\ Ended(r, final, status)
       /\ RecordFailure(final, IF status = 403 THEN 403 ELSE 0)
  /\ Continue(r)
  /\ UNCHANGED <<clock, list, cancelled>>

\* The client goes away: r.Context() is cancelled.
Cancel(r) == /\ pc[r] \in {"new", "fetch"}
             /\ r \notin cancelled
             /\ cancelled' = cancelled \cup {r}
             /\ UNCHANGED <<clock, table, pc, list, tried, live, selected>>

Tick == /\ clock < MaxClock
        /\ clock' = clock + 1
        /\ UNCHANGED <<table, pc, list, tried, live, cancelled, selected>>

Next == \/ \E r \in Requests : \/ \E preferred \in 1 .. Len(Urls) : Start(r, preferred)
                               \/ StartDirect(r)
                               \/ AttemptError(r)
                               \/ AttemptServed(r)
                               \/ AttemptRetried(r)
                               \/ Cancel(r)
        \/ Tick

Spec == Init /\ [][Next]_vars

-------------------------------------------------------------------------------
Done(r) == pc[r] \in {"served", "failed"}

Acceptable(attempt) == attempt.status # 0 /\ attempt.status # 499 /\ ~Retryable(attempt.status)

\* What a player gets: the candidates are tried in the order of the list, each
\* once, and the first acceptable answer is the one it is served.  It sees a
\* failure of a candidate only when every one has been tried, or it has left.
ServedFirstAcceptable ==
  \A r \in Requests :
    /\ \A i \in DOMAIN tried[r] : tried[r][i].url = list[r][i]
    /\ \A i \in DOMAIN tried[r] : Acceptable(tried[r][i]) => Done(r) /\ i = Len(tried[r])
    /\ Done(r) => \/ Acceptable(tried[r][Len(tried[r])])
                  \/ Len(tried[r]) = Len(list[r])
                  \/ r \in cancelled

\* The diagnostics count each fetch once and tell its story: as many attempts as
\* were made, a recovery exactly when a fallback was served with success, an
\* exhaustion exactly when all were tried and none was acceptable.
SelectionHonest ==
  \A r \in Requests :
    LET last == tried[r][Len(tried[r])]
    IN IF Done(r)
       THEN selected[r] = <<[attempts  |-> Len(tried[r]),
                             recovered |-> Len(tried[r]) > 1 /\ last.status = 200,
                             exhausted |-> /\ Len(tried[r]) = Len(list[r])
                                           /\ ~Acceptable(last)]>>
       ELSE selected[r] = <<>>

\* A COS mirror bound to an address is a last resort: no request touches one
\* before it has tried everything else in its group, whatever other requests
\* have recorded meanwhile.  (A single URL is tried, whatever it is.)
CosIsLastResort ==
  \A r \in {q \in Requests : Len(list[q]) = Len(Urls)} :
    \A i \in DOMAIN tried[r] :
      LikelyCOS(tried[r][i].url) =>
        \A p \in DOMAIN Urls :
          ~LikelyCOS(Urls[p]) => \E j \in 1 .. i - 1 : tried[r][j].url = Urls[p]

\* The README promises a cooldown for failures.  Stated here: a candidate in
\* cooldown has failed some request, by an error of its own or by a retryable
\* answer.
CooldownIsForFailures ==
  \A c \in Candidates :
    Penalized(table[c], clock) =>
      \E r \in Requests : \E i \in DOMAIN tried[r] :
        /\ tried[r][i].final = c
        /\ \/ tried[r][i].status = 0
           \/ Retryable(tried[r][i].status)
===============================================================================
