---------------------------- MODULE MCMediaGroups -----------------------------
(* A small instance of MediaGroups: ids and goroutines are interchangeable.  *)
EXTENDS MediaGroups, TLC

IdSymmetry == Permutations(Ids) \cup Permutations(Workers)
===============================================================================
