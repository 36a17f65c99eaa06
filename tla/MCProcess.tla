------------------------------ MODULE MCProcess -------------------------------
(* One request for each of two servers. *)
EXTENDS Process, TLC

CONSTANTS r1, r2

HomeOf == (r1 :> 1) @@ (r2 :> 2)
===============================================================================
