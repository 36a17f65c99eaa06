-------------------------- MODULE MCCandidateHealth ---------------------------
(* An instance of CandidateHealth: a group of a COS mirror and two plain      *)
(* ones.                                                                      *)
EXTENDS CandidateHealth, TLC

CONSTANTS cdn1, cdn2, cos

AllRisks == (cdn1 :> 0) @@ (cdn2 :> 0) @@ (cos :> 2)

RiskOf == [c \in Candidates |-> AllRisks[c]]

GroupUrls == <<cos, cdn1, cdn2>>

WorkerSymmetry == Permutations(Workers)
===============================================================================
