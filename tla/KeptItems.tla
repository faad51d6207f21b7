----------------------------- MODULE KeptItems -----------------------------
(***************************************************************************)
(* The code's Array.filter: a sequence without the items at some places.   *)
(* A recursive function, which the provers can unfold (SelectSeq they      *)
(* cannot).                                                                *)
(***************************************************************************)
EXTENDS Integers, Sequences

\* The items at the places in "at", most often all of them, in their order.
Kept(items, at) ==
  LET upTo[n \in 0..Len(items)] ==
        IF n = 0 THEN <<>>
        ELSE IF n \in at THEN Append(upTo[n - 1], items[n]) ELSE upTo[n - 1]
  IN IF at = DOMAIN items THEN items ELSE upTo[Len(items)]
=============================================================================
