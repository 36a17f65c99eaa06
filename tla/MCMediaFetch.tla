----------------------------- MODULE MCMediaFetch -----------------------------
(* Two requests for a group of a COS mirror and two plain ones; a plain one   *)
(* may redirect to the other.                                                 *)
EXTENDS MediaFetch, TLC

CONSTANTS cdn1, cdn2, cos

RiskOf == (cdn1 :> 0) @@ (cdn2 :> 0) @@ (cos :> 2)

GroupUrls == <<cos, cdn1, cdn2>>

RequestSymmetry == Permutations(Requests)
===============================================================================
