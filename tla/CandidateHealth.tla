---------------------------- MODULE CandidateHealth ---------------------------
(***************************************************************************)
(* The health table of the candidates under concurrent use: media requests  *)
(* record successes and failures and rank their lists, each reading the     *)
(* clock before it takes candidateMu (recordCandidateSuccess,               *)
(* recordCandidateFailure and rankMediaCandidates in                        *)
(* internal/proxy/fallback.go; the ranking's stamp is even older, it was    *)
(* read before mediaGroupMu).  So a call may be recorded after a younger    *)
(* one, and LastObserved may go back.                                       *)
(***************************************************************************)
EXTENDS CandidateTable

CONSTANTS Workers,  \* the goroutines that serve media requests
          Urls,     \* the list of a media group, as registered
          MaxCalls, \* bound on the calls, for model checking only
          MaxClock  \* bound on the clock, for model checking only

ASSUME ConstantsAssumption ==
  /\ Urls \in Seq(Candidates)
  /\ Len(Urls) > 0
  /\ MaxCalls \in Nat
  /\ MaxClock \in Nat

VARIABLES clock, \* what s.now() returns
          table, \* s.candidateHealth
          call,  \* the call each goroutine is in, with its stamp
          calls  \* the number of calls so far, to bound it

vars == <<clock, table, call, calls>>

Idle == [op |-> "idle"]

Calls == {Idle}
         \cup [op : {"success"}, key : Candidates, latency : Latencies, now : Nat]
         \cup [op : {"failure"}, key : Candidates, status : FailureStatus, now : Nat]
         \cup [op : {"rank"}, now : Nat]

TypeOK == /\ clock \in Nat
          /\ table \in [Candidates -> Health]
          /\ call \in [Workers -> Calls]
          /\ calls \in Nat

Init == /\ clock = 0
        /\ table = [c \in Candidates |-> Unobserved]
        /\ call = [w \in Workers |-> Idle]
        /\ calls = 0

-------------------------------------------------------------------------------
\* now := s.now(), before the lock.
Begin(w, c) == /\ call[w] = Idle
               /\ calls < MaxCalls
               /\ calls' = calls + 1
               /\ call' = [call EXCEPT ![w] = c]
               /\ UNCHANGED <<clock, table>>

BeginSuccess(w) ==
  \E key \in Candidates, latency \in Latencies :
    Begin(w, [op |-> "success", key |-> key, latency |-> latency, now |-> clock])

BeginFailure(w) ==
  \E key \in Candidates, status \in FailureStatus :
    Begin(w, [op |-> "failure", key |-> key, status |-> status, now |-> clock])

BeginRank(w) == Begin(w, [op |-> "rank", now |-> clock])

\* The end of a critical section: what the call recorded, pruned at its stamp.
Commit(w, recorded) == /\ table' \in PrunedHealth(recorded, call[w].now)
                       /\ call' = [call EXCEPT ![w] = Idle]
                       /\ UNCHANGED <<clock, calls>>

RecordSuccess(w) ==
  /\ call[w].op = "success"
  /\ LET c == call[w]
     IN Commit(w, [table EXCEPT ![c.key] = AfterSuccess(@, c.latency, c.now)])

RecordFailure(w) ==
  /\ call[w].op = "failure"
  /\ LET c == call[w]
     IN Commit(w, [table EXCEPT ![c.key] = AfterFailure(@, c.status, c.now)])

\* The lock is held while the entries are copied; the sort comes after it.
RankPrune(w) == call[w].op = "rank" /\ Commit(w, table)

Tick == /\ clock < MaxClock
        /\ clock' = clock + 1
        /\ UNCHANGED <<table, call, calls>>

Next == \/ \E w \in Workers : \/ BeginSuccess(w)
                              \/ BeginFailure(w)
                              \/ BeginRank(w)
                              \/ RecordSuccess(w)
                              \/ RecordFailure(w)
                              \/ RankPrune(w)
        \/ Tick

Spec == Init /\ [][Next]_vars

-------------------------------------------------------------------------------
\* The map never holds more than maxCandidateHealth entries between two calls.
TableBounded == Cardinality(Tracked(table)) <= MaxHealth

\* A candidate is kept out of the way exactly while its last recorded call was a
\* failure, and never for longer than candidateFailureMax from now: neither the
\* doubling, nor the 403 factor, nor a stale stamp can lock a mirror out for
\* good.
PenaltyBounded ==
  \A c \in Candidates : /\ table[c].until <= clock + FailureMax
                        /\ table[c].consecutive = 0 <=> table[c].until = 0

\* A penalty that is still running is forgotten only because the candidate
\* answered, or because the map is full: the age limit, which looks at a field
\* of its own and at stamps that come out of order, never takes an entry whose
\* penalty matters.
PenaltyRemembered ==
  [][\A c \in Candidates :
       clock < table[c].until /\ table'[c].until = 0
       => \/ \E w \in Workers : call[w].op = "success" /\ call[w].key = c
          \/ c \notin Tracked(table)' /\ Cardinality(Tracked(table)') = MaxHealth]_vars

\* One more failure, seen no earlier than what the table knows, never shortens
\* the penalty: a plain failure after a 403 must not let the candidate back
\* sooner, at any count and at the limit.
BackoffNeverShrinks ==
  [][\A w \in Workers :
       LET key == call[w].key
       IN RecordFailure(w) /\ table[key].last <= call[w].now /\ key \in Tracked(table)'
          => table[key].until <= table'[key].until]_vars

-------------------------------------------------------------------------------
\* The list of each index that can be asked for.
Lists == [preferred \in 1 .. Len(Urls) |-> MediaOrder(Urls, preferred)]

\* One place of a list is clearly worse than another.
Worse(c, d) == \/ Risk[d] < Risk[c]
               \/ Risk[d] = Risk[c] /\ Penalized(table[c], clock)
                                    /\ ~Penalized(table[d], clock)

\* Whatever the table says, a ranked list has every candidate of the group, and
\* none behind one that is clearly worse: a COS mirror bound to another client's
\* address never goes before a plain one, however fast it was.
RankAvoidsWorse ==
  \A list \in {Lists[preferred] : preferred \in DOMAIN Lists} :
    LET ranked == Rank(table, clock, list)
    IN /\ \A c \in Candidates :
            Cardinality({p \in DOMAIN ranked : ranked[p] = c})
              = Cardinality({p \in DOMAIN Urls : Urls[p] = c})
       /\ \A p, q \in DOMAIN ranked : p < q => ~Worse(ranked[p], ranked[q])

\* The candidate the player asked for is tried first unless the table holds
\* something against it, or something for another of the same kind.
PreferredHonoured ==
  \A preferred \in 1 .. Len(Urls) :
    LET asked  == Urls[preferred]
        ranked == Rank(table, clock, Lists[preferred])
        others == {Urls[p] : p \in DOMAIN Urls} \ {asked}
    IN (\A c \in others :
          /\ ~Worse(asked, c)
          /\ table[c].reliable => table[asked].reliable /\ table[asked].ewma <= table[c].ewma)
       => ranked[1] = asked
===============================================================================
