---------------------------- MODULE CandidateTable ----------------------------
(***************************************************************************)
(* The data of the candidate ranking of internal/proxy/fallback.go, as      *)
(* functions: what recordCandidateSuccess, recordCandidateFailure and       *)
(* pruneCandidateHealthLocked make of the health table, and the order in    *)
(* which mediaGroupCandidates and rankMediaCandidates put a group's URLs.   *)
(*                                                                         *)
(* A candidate stands for its URL, the key of the table.  A missing entry   *)
(* of the map reads as the zero value, so the table is a total function     *)
(* with Unobserved where the map has no entry.  Of Successes only whether   *)
(* there are any is ever read; Failures is never read.                      *)
(***************************************************************************)
EXTENDS Integers, Sequences, FiniteSets, Eviction

CONSTANTS Candidates,     \* the URLs
          Risk,           \* 2: likely IP bound COS mirror, 1: likely P2P, 0: other
          Latencies,      \* the times to the response header
          FailureBase,    \* candidateFailureBase
          FailureMax,     \* candidateFailureMax
          MaxConsecutive, \* the 16 at which Consecutive stops
          HealthTTL,      \* candidateHealthTTL
          MaxHealth       \* maxCandidateHealth

ASSUME TableAssumption ==
  /\ Risk \in [Candidates -> 0 .. 2]
  /\ Latencies \subseteq Nat
  /\ FailureBase \in Nat \ {0}
  /\ FailureMax \in Nat /\ FailureBase <= FailureMax
  /\ FailureMax <= 16 * FailureBase
  /\ FailureMax <= HealthTTL
  /\ HealthTTL \in Nat
  /\ MaxConsecutive \in Nat /\ MaxConsecutive >= 5
  /\ MaxHealth \in Nat \ {0}
  /\ IsFiniteSet(Candidates)

\* candidateHealth; until 0 is the zero PenalizedUntil, ewma 0 the unset one.
Health == [reliable : BOOLEAN, consecutive : 0 .. MaxConsecutive, ewma : Nat,
           last : Nat, until : Nat]

Unobserved == [reliable |-> FALSE, consecutive |-> 0, ewma |-> 0,
               last |-> 0, until |-> 0]

Tracked(table) == {c \in Candidates : table[c] # Unobserved}

Penalized(h, now) == now < h.until

Smaller(x, y) == IF x <= y THEN x ELSE y

\* What recordCandidateFailure tells apart: 403, and any other status or error.
FailureStatus == {0, 403}

\* candidateFailureBase << min(Consecutive - 1, 4)
Backoff(n) == FailureBase * <<1, 2, 4, 8, 16>>[Smaller(n, 5)]

PenaltyDoubledLast(n, status) ==
  IF status = 403 THEN 2 * Smaller(FailureMax, Backoff(n)) ELSE Smaller(FailureMax, Backoff(n))

Penalty(n, status) ==
  Smaller(FailureMax, IF status = 403 THEN 2 * Backoff(n) ELSE Backoff(n))

Ewma(old, latency) == IF old = 0 THEN latency ELSE (old * 3 + latency) \div 4

AfterSuccess(h, latency, now) ==
  [reliable |-> TRUE, consecutive |-> 0, ewma |-> Ewma(h.ewma, latency),
   last |-> now, until |-> 0]

AfterFailureKeepsStamp(h, status, now) ==
  LET n == Smaller(h.consecutive + 1, MaxConsecutive)
  IN [reliable |-> h.reliable, consecutive |-> n, ewma |-> h.ewma,
      last |-> h.last, until |-> now + Penalty(n, status)]

AfterFailure(h, status, now) ==
  LET n == Smaller(h.consecutive + 1, MaxConsecutive)
  IN [reliable |-> h.reliable, consecutive |-> n, ewma |-> h.ewma,
      last |-> now, until |-> now + Penalty(n, status)]

LastSeen(table) == [c \in Candidates |-> table[c].last]

\* What pruneCandidateHealthLocked may leave of the table: the entries observed
\* no longer than candidateHealthTTL before the caller's stamp, at most
\* MaxHealth of them, the earliest observed going first.
PrunedHealth(table, now) ==
  LET fresh == {c \in Tracked(table) : now <= table[c].last + HealthTTL}
  IN {[c \in Candidates |-> IF c \in kept THEN table[c] ELSE Unobserved] :
        kept \in Youngest(fresh, LastSeen(table), MaxHealth)}

-------------------------------------------------------------------------------
LikelyCOS(c) == Risk[c] = 2

\* A list with its places in the order Before, a strict total order: what
\* appending in that order makes of it, or sort.SliceStable.
Sorted(urls, Before(_, _)) ==
  LET places == 1 .. Len(urls)
      rank == [i \in places |-> Cardinality({j \in places : Before(j, i)})]
  IN [p \in places |-> urls[CHOOSE i \in places : rank[i] = p - 1]]

AppendedAsRegistered(urls, preferred, i, j) ==
  IF LikelyCOS(urls[i]) # LikelyCOS(urls[j]) THEN LikelyCOS(urls[j]) ELSE i < j

\* mediaGroupCandidates appends the COS mirrors behind all the rest and, of either
\* kind, the index asked for before the others, which go as they were registered.
\* Of two places, which is appended first.
Appended(urls, preferred, i, j) ==
  IF LikelyCOS(urls[i]) # LikelyCOS(urls[j]) THEN LikelyCOS(urls[j])
  ELSE IF preferred \in {i, j} THEN i = preferred /\ j # i
  ELSE i < j

MediaOrder(urls, preferred) ==
  Sorted(urls, LAMBDA i, j : Appended(urls, preferred, i, j))

LessIgnoresPenalty(table, now, urls, i, j) ==
  LET left == table[urls[i]]
      right == table[urls[j]]
  IN IF Risk[urls[i]] # Risk[urls[j]] THEN Risk[urls[i]] < Risk[urls[j]]
     ELSE IF left.reliable # right.reliable THEN left.reliable
     ELSE IF left.reliable /\ left.ewma # right.ewma THEN left.ewma < right.ewma
     ELSE i < j

\* The comparison of rankMediaCandidates: of two places in the list, which goes
\* first.
Less(table, now, urls, i, j) ==
  LET left == table[urls[i]]
      right == table[urls[j]]
  IN IF Risk[urls[i]] # Risk[urls[j]] THEN Risk[urls[i]] < Risk[urls[j]]
     ELSE IF Penalized(left, now) # Penalized(right, now) THEN ~Penalized(left, now)
     ELSE IF left.reliable # right.reliable THEN left.reliable
     ELSE IF left.reliable /\ left.ewma # right.ewma THEN left.ewma < right.ewma
     ELSE i < j

\* rankMediaCandidates.
Rank(table, now, urls) == Sorted(urls, LAMBDA i, j : Less(table, now, urls, i, j))
===============================================================================
