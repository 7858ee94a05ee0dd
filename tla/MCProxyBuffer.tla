--------------------------- MODULE MCProxyBuffer ---------------------------
(* Instances of ProxyBuffer for TLC. *)
EXTENDS ProxyBuffer

CONSTANTS w1, w2

HistoryOnly == <<"history">>
HistoryAutoreg == <<"history", "autoreg">>
HistoryDiscovery == <<"history", "discovery">>

OneSyncer  == w1 :> "history"
TwoSyncers == w1 :> "history" @@ w2 :> "history"
SyncerAndTrapper == w1 :> "history" @@ w2 :> "autoreg"
SyncerAndDiscoverer == w1 :> "history" @@ w2 :> "discovery"
=============================================================================
