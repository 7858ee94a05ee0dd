--------------------------- MODULE MCProxyGroups ---------------------------
(* Instances of ProxyGroups for TLC. *)
EXTENDS ProxyGroups

CONSTANTS h1, h2, p1, p2

None == [hosts |-> {h1}, passive |-> {}, moves |-> 0, renames |-> 0, asks |-> 0,
         losses |-> 0, reboots |-> 0, outages |-> 0, restarts |-> 0]

\* Moves: a host leaves, joins or is deleted while a proxy asks.
\* Renames: it is renamed, too.
\* Lost, LostPassive: an answer is lost or not stored, and the proxy restarts.
\* Restart: the server restarts between any two steps.
\* LostRestart: it restarts, and an answer is lost or not stored.
\* Failover: proxies fall silent and come back.
\* Busy: and hosts come and go meanwhile.
\* Again: a host leaves, returns and is renamed while the group is not online.
Moves == [None EXCEPT !.moves = 2, !.asks = 3]
Renames == [None EXCEPT !.moves = 1, !.renames = 1, !.asks = 3]
Lost == [None EXCEPT !.moves = 1, !.asks = 3, !.losses = 1, !.reboots = 1]
LostPassive == [Lost EXCEPT !.passive = Proxies]
Restart == [None EXCEPT !.moves = 2, !.restarts = 1, !.asks = 3]
LostRestart == [None EXCEPT !.renames = 1, !.restarts = 1, !.asks = 3, !.losses = 1]
Failover == [None EXCEPT !.hosts = Hosts, !.outages = 3]
Busy == [None EXCEPT !.hosts = Hosts, !.moves = 1, !.outages = 2]
Again == [None EXCEPT !.moves = 2, !.renames = 1, !.outages = 2]
AllSetups == {Moves, Renames, Lost, LostPassive, Restart, LostRestart, Failover, Busy,
              Again}
OnePassive == {LostPassive}
=============================================================================
