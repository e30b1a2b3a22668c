------------------------------ MODULE Selection ------------------------------
(***************************************************************************)
(* Selecting items of a sequence by their place: the filter and retain of  *)
(* the code's lists, as a function that recurses where proofs can follow   *)
(* (the library's SelectSeq is a recursive operator with a parameter).     *)
(***************************************************************************)
EXTENDS Naturals, Sequences

\* The items at the indices of I, in their order.
Picked(items, I) ==
  LET upTo[n \in 0..Len(items)] ==
        IF n = 0 THEN <<>>
        ELSE IF n \in I THEN Append(upTo[n - 1], items[n]) ELSE upTo[n - 1]
  IN  upTo[Len(items)]
==============================================================================
