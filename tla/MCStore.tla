------------------------------- MODULE MCStore -------------------------------
(***************************************************************************)
(* LogStore for TLC: two records of one index line and one of another, and *)
(* a list of differences that is soon full.                                *)
(***************************************************************************)
EXTENDS LogStore, TLC

CONSTANTS r1, r2, l1, l2, a, b

TwoLines == r1 :> l1 @@ r2 :> l2
SameValues == Permutations(Value)
=============================================================================
