------------------------------- MODULE Eviction -------------------------------
(***************************************************************************)
(* How the bounded maps of internal/proxy/fallback.go make room: while the  *)
(* map is above its limit the entry with the earliest time goes.            *)
(***************************************************************************)
EXTENDS Naturals, FiniteSets

\* What may be left of S: n of its members, none older than one that went.
\* Which of several members of one age goes depends on a map iteration.
Youngest(S, time, n) ==
  IF Cardinality(S) <= n
  THEN {S}
  ELSE {kept \in SUBSET S : /\ Cardinality(kept) = n
                            /\ \A i \in kept, j \in S \ kept : time[j] <= time[i]}
===============================================================================
