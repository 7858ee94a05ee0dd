---------------------------- MODULE MCHAManager ----------------------------
(* Instances of HAManager for TLC. *)
EXTENDS HAManager, TLC

CONSTANTS s1, s2

\* a node is named after its server, so that the nodes are alike
TwoNodes == s1 :> s1 @@ s2 :> s2
OneName == s1 :> s1 @@ s2 :> s1
OneAlone == s1 :> "" @@ s2 :> s2

Alike == Permutations(Servers)

Case(name, delay, faults, maxTime, maxStarts) ==
    [name |-> name, delay |-> delay, faults |-> faults,
     maxTime |-> maxTime, maxStarts |-> maxStarts]

Failover == Case(TwoNodes, 4, {"down", "crash"}, 13, 2)
Shutdown == Case(TwoNodes, 4, {"stop", "crash"}, 15, 2)
Slow == Case(TwoNodes, 8, {"slow", "hang", "delay"}, 12, 2)
Removal == Case(OneAlone, 4, {"crash", "remove", "fail"}, 9, 3)
InDoubt == Case(OneAlone, 4, {"crash", "lost"}, 7, 3)
SameName == Case(OneName, 4, {"down"}, 11, 2)

Cases == {Failover, Shutdown, Slow, Removal, InDoubt, SameName}
SlowStart == {Case(TwoNodes, 4, {"down", "slowstart"}, 14, 2)}
=============================================================================
