----------------------------- MODULE Subsequences -----------------------------
(***************************************************************************)
(* The elements of a sequence that stand in some of its places, in their     *)
(* order.  It is what SelectSeq makes of the places whose element passes a    *)
(* test, written as a recursive function over the sequence's beginnings, so   *)
(* that it can be reasoned about: the provers know no definition of           *)
(* SelectSeq.                                                               *)
(***************************************************************************)
EXTENDS Naturals, Sequences

Chosen(s, places) ==
  LET upTo[n \in 0 .. Len(s)] ==
        IF n = 0 THEN <<>>
        ELSE IF n \in places THEN Append(upTo[n - 1], s[n]) ELSE upTo[n - 1]
  IN upTo[Len(s)]
===============================================================================
