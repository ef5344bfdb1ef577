----------------------------- MODULE Selection ------------------------------
(***************************************************************************)
(* What a loop collects that goes over a sequence and skips some members:  *)
(* those at the other places, in their order.  SelectSeq takes an operator *)
(* as its test, which a proof cannot be given; here it is the set of the   *)
(* places that pass, and the collection is a function of how far the loop  *)
(* has come.                                                               *)
(***************************************************************************)
EXTENDS Naturals, Sequences

Collected(list, places) ==
  LET after[n \in 0..Len(list)] ==
        IF n = 0 THEN <<>>
        ELSE IF n \in places THEN Append(after[n - 1], list[n]) ELSE after[n - 1]
  IN  after

Selected(list, places) == Collected(list, places)[Len(list)]
=============================================================================
