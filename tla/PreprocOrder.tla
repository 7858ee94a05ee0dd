---------------------------- MODULE PreprocOrder ----------------------------
(***************************************************************************)
(* What the preprocessing manager promises its callers, whatever its       *)
(* workers do: every value taken in leaves once; the values of an item     *)
(* that is preprocessed serially leave in the order in which they came in, *)
(* except that a value without data does not wait for those before it; a   *)
(* value that leaves a master item with a result comes in at each of its   *)
(* dependent items.  The promise ends when the item configuration changes. *)
(***************************************************************************)
EXTENDS Naturals, Sequences, SequencesExt, Functions

CONSTANTS
    Items,      \* items
    Serial,     \* items preprocessed serially
    Plain,      \* items without preprocessing and without dependent items
    Deps,       \* dependent items of each item
    Values      \* values received

VARIABLES
    inbox,      \* values of an item that have come in and not left: a sequence
                \* for a serial item, a set for another
    flushed,    \* values that have left, by item
    empty,      \* values without data that have been received
    phase       \* "steady"; "changed" configuration; manager "closed"

vars == <<inbox, flushed, empty, phase>>

Dependent == UNION {Range(Deps[i]) : i \in Items}

Empty == [i \in Items |-> IF i \in Serial THEN <<>> ELSE {}]

Put(box, i, v) ==
    [box EXCEPT ![i] = IF i \in Serial THEN Append(@, v) ELSE @ \cup {v}]

\* the values of an item that may leave next, and what remains
Ready(i) == IF i \in Serial THEN {inbox[i][n] : n \in DOMAIN inbox[i] \cap {1}} ELSE inbox[i]
Taken(i, v) == IF i \in Serial THEN Tail(inbox[i]) ELSE inbox[i] \ {v}

\* v has not been received before
Fresh(v) ==
    \A i \in Items \ Dependent : /\ v \notin Range(flushed[i])
                                /\ v \notin (IF i \in Serial THEN Range(inbox[i]) ELSE inbox[i])

Leave(i, v) == flushed' = [flushed EXCEPT ![i] = Append(@, v)]

Init ==
    /\ inbox = Empty
    /\ flushed = [i \in Items |-> <<>>]
    /\ empty = {}
    /\ phase = "steady"

Accept(i, v) ==
    /\ UNCHANGED <<flushed, empty, phase>>
    /\ i \notin Dependent /\ Fresh(v)
    /\ inbox' = Put(inbox, i, v)

\* a value leaves as it comes, for one of two reasons: it has no data, or its
\* item needs no preprocessing
Pass(i, v) ==
    /\ i \notin Dependent /\ Fresh(v)
    /\ Leave(i, v)
    /\ \/ empty' = empty \cup {v}
       \/ i \in Plain /\ UNCHANGED empty
    /\ UNCHANGED <<inbox, phase>>

\* v leaves item i with a result, or without one and then goes no further
Emit(i, v, result) ==
    LET rest == [inbox EXCEPT ![i] = Taken(i, v)]
        put(box, d) == Put(box, d, v)
    IN  /\ Leave(i, v)
        /\ v \in Ready(i)
        /\ inbox' = IF result THEN FoldLeft(put, rest, Deps[i]) ELSE rest
        /\ UNCHANGED <<empty, phase>>

\* the values still inside are given up
Close ==
    /\ phase' = "closed"
    /\ inbox' = Empty
    /\ UNCHANGED <<flushed, empty>>

Next ==
    \/ phase # "closed" /\ phase' = "changed"
    \/ Close
    \/ /\ phase = "steady"
       /\ \E i \in Items, v \in Values :
            \/ Accept(i, v)
            \/ Pass(i, v)
            \/ \E result \in BOOLEAN : Emit(i, v, result)

Spec == Init /\ [][Next]_vars
=============================================================================
