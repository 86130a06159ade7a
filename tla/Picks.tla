-------------------------------- MODULE Picks --------------------------------
(* A loop that keeps some elements of a list, those at the places in K, in  *)
(* their order.                                                             *)
EXTENDS Integers, Sequences

Picked(s, K) ==
  LET upTo[n \in 0..Len(s)] ==
        IF n = 0 THEN <<>>
        ELSE IF n \in K THEN Append(upTo[n - 1], s[n]) ELSE upTo[n - 1]
  IN upTo[Len(s)]
=============================================================================
