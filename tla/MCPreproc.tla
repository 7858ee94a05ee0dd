----------------------------- MODULE MCPreproc -----------------------------
(* Instances of Preproc for TLC. *)
EXTENDS Preproc

CONSTANTS m, a, b, s, w1, w2

\* m is the master of a and b; s has no dependent items
MasterOfTwo == [i \in Items |-> IF i = m THEN <<a, b>> ELSE <<>>]
=============================================================================
