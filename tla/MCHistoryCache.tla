--------------------------- MODULE MCHistoryCache ---------------------------
(* Instances of HistoryCache for TLC. *)
EXTENDS HistoryCache, TLC

CONSTANTS a, b, t, u, s1, s2, main

\* the syncers are alike; used where only safety is checked
Symmetry == Permutations(Syncers)

\* trigger t refers to both items, trigger u to the second
SharedTrigger == [i \in Items |-> IF i = a THEN {t} ELSE {t, u}]

\* item a may have several records in the cache, item b one
ThreeAndOne == [i \in Items |-> IF i = a THEN 3 ELSE 1]
TwoAndOne == [i \in Items |-> IF i = a THEN 2 ELSE 1]
=============================================================================
