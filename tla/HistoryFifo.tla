---------------------------- MODULE HistoryFifo ----------------------------
(***************************************************************************)
(* What the history cache promises for each item: the values that have     *)
(* been added are stored once each, in the order in which they were added, *)
(* except those that are given up; a value that is neither stored nor      *)
(* given up is still there.                                                *)
(***************************************************************************)
EXTENDS Integers, SequencesExt

CONSTANT Items

VARIABLES
    pending,    \* values added and not yet settled, by item, in order
    stored,     \* values stored, in order
    given       \* values given up

vars == <<pending, stored, given>>

Init ==
    /\ pending = [i \in Items |-> <<>>]
    /\ stored = [i \in Items |-> <<>>]
    /\ given = [i \in Items |-> {}]

\* values that have been added before
Known(i) == Range(pending[i]) \cup Range(stored[i]) \cup given[i]

Keep(i) == pending'[i] = pending[i] /\ stored'[i] = stored[i] /\ given'[i] = given[i]

Accept(i) ==
    /\ stored'[i] = stored[i] /\ given'[i] = given[i]
    /\ IsStrictPrefix(pending[i], pending'[i])
    /\ \A k \in Len(pending[i]) + 1 .. Len(pending'[i]) : pending'[i][k] \notin Known(i)

Store(i) ==
    /\ pending[i] # <<>>
    /\ pending'[i] = Tail(pending[i])
    /\ stored'[i] = Append(stored[i], Head(pending[i]))
    /\ given'[i] = given[i]

GiveUp(i) ==
    /\ stored'[i] = stored[i]
    /\ given[i] \subseteq given'[i] /\ given'[i] \ given[i] \subseteq Range(pending[i])
    /\ pending'[i] = SelectSeq(pending[i], LAMBDA v : v \notin given'[i])

\* a batch has one value of each of several items
Next == \A i \in Items : Keep(i) \/ Accept(i) \/ Store(i) \/ GiveUp(i)

Spec == Init /\ [][Next]_vars
=============================================================================
