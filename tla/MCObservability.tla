---------------------------- MODULE MCObservability ---------------------------
(* Hosts and goroutines may be exchanged.                                      *)
EXTENDS Observability, TLC

ObservabilitySymmetry == Permutations(Keys) \cup Permutations(Workers)
===============================================================================
