---------------------------- MODULE ProxyGroups ----------------------------
(***************************************************************************)
(* One proxy group of the proxy group manager (zabbix_server/pgmanager):   *)
(* the manager thread watches the proxies, gives the hosts of the group to *)
(* proxies that are online and writes the map to table host_proxy; the     *)
(* service thread takes host changes from the configuration syncer and     *)
(* tells the pollers and trappers that talk to proxies which part of the   *)
(* map to send; every proxy keeps a copy of the map.                       *)
(*                                                                         *)
(* A stretch of code under the cache lock is one step.  The proxies of the *)
(* group are fixed and have the server's version.  Time is counted in      *)
(* PG_STATE_CHECK_INTERVALs and passes in Update; times are kept as ages.  *)
(***************************************************************************)
EXTENDS Integers, FiniteSets, FiniteSetsExt, SequencesExt

CONSTANTS
    Hosts,
    Proxies,        \* the proxies of the group
    Asking,         \* the proxies whose copies are followed
    Delay,          \* failover_delay
    MinOnline,      \* min_online, or 1
    Wait,           \* failover_delay * PG_UNBALANCE_PERIOD_COEFF
    Limit,          \* PG_GROUP_UNBALANCE_LIMIT
    Factor,         \* PG_GROUP_UNBALANCE_FACTOR
    NoProxy,        \* proxyid 0: take the host from its proxy
    Keep,           \* the host is not in hostmap_updates
    Setups          \* hosts, passive proxies, how often the environment takes each step

Never == -1

VARIABLES
    left,           \* what is left of the bounds of the chosen setup
    conf,           \* the hosts: in the group, out of it or deleted; the name
    mail,           \* host relocations on their way to the service
    rows,           \* table host_proxy
    ids,            \* table ids: the last hostproxyid and the last revision
    cache,          \* zbx_pg_cache_t
    pgm,            \* the manager thread: where it is, what it has to write
    heard,          \* proxies whose messages reach the server
    quiet,          \* age of each proxy's lastaccess
    remote,         \* the proxies: revision and rows of their copy, the sync lock of passive
                    \* ones, whether they got every row from this server
    sync,           \* the configuration request of each proxy
    known,          \* proxies whose configuration session the server knows
    based,          \* proxies that got everything since the server keeps deletions for them
    refused,        \* the database has refused a transaction of the manager
    crossed         \* a mapped host was renamed while it waited for a proxy

vars == <<left, conf, mail, rows, ids, cache, pgm, heard, quiet, remote, sync,
          known, based, refused, crossed>>

ASSUME Bounds == /\ IsFiniteSet(Hosts) /\ IsFiniteSet(Proxies)
                 /\ NoProxy \notin Proxies /\ Keep \notin Proxies \cup {NoProxy}
                 /\ Delay \in Nat \ {0} /\ Wait \in Nat \ {0}
                 /\ MinOnline \in 1..Cardinality(Proxies)
                 /\ \A s \in Setups : s.hosts \subseteq Hosts

Row(h, i, p, r) == [host |-> h, id |-> i, proxy |-> p, rev |-> r]
RowOf(S, h) == CHOOSE r \in S : r.host = h
HostsOf(S) == {r.host : r \in S}
Older(a, cap) == IF a = Never THEN Never ELSE IF a < cap THEN a + 1 ELSE a

Spend(what) == left[what] > 0 /\ left' = [left EXCEPT ![what] = @ - 1]

-----------------------------------------------------------------------------
(* The states of the proxies and of the group (pgm_update) *)

Online(c) == {p \in Proxies : c.pstate[p] = "online"}

Aged(c) ==
    [c EXCEPT !.uptime = Older(@, Delay), !.since = Older(@, Delay + 1),
              !.alive = [p \in Proxies |-> Older(@[p], Delay)],
              !.wait = IF @ > 0 THEN @ - 1 ELSE @]

\* A proxy that was offline has to be alive for a failover delay; a silent one
\* is not offline before the manager itself has run for a failover delay.
UpdateProxyState(c, age) ==
    LET fresh(p) == age[p] < Delay
        alive == [p \in Proxies |->
                    IF fresh(p) THEN IF c.alive[p] = Never THEN age[p] ELSE c.alive[p]
                    ELSE IF c.uptime >= Delay THEN Never ELSE c.alive[p]]
        pstate == [p \in Proxies |->
                    IF fresh(p) /\ (c.pstate[p] = "unknown" \/ alive[p] >= Delay)
                    THEN "online"
                    ELSE IF ~fresh(p) /\ c.uptime >= Delay THEN "offline"
                    ELSE c.pstate[p]]
    IN  [c EXCEPT !.alive = alive, !.pstate = pstate,
                  !.queued = @ \/ pstate # c.pstate]

\* Mutant: the references of an offline proxy are not cleared.
ClearOfflineProxiesKept(c) ==
    LET lost == UNION {c.refs[p] : p \in Proxies \ Online(c)}
    IN  [c EXCEPT !.unassigned = @ \cup lost,
                  !.updates = [h \in Hosts |-> IF h \in lost THEN NoProxy ELSE @[h]]]

ClearOfflineProxies(c) ==
    LET lost == UNION {c.refs[p] : p \in Proxies \ Online(c)}
    IN  [c EXCEPT !.unassigned = @ \cup lost,
                  !.updates = [h \in Hosts |-> IF h \in lost THEN NoProxy ELSE @[h]],
                  !.refs = [p \in Proxies |-> IF p \in Online(c) THEN @[p] ELSE {}]]

NextGroupState(c, age) ==
    LET online == Cardinality(Online(c))
        offline == Cardinality({p \in Proxies : c.pstate[p] = "offline"})
        healthy == Cardinality({p \in Online(c) : age[p] + 1 < Delay})
        total == Cardinality(Proxies)
        since == IF c.state = "unknown" THEN 0 ELSE c.since
    IN  CASE c.state \in {"unknown", "recovering"} ->
                IF total - offline < MinOnline THEN "offline"
                ELSE IF total = online THEN "online"
                ELSE IF since <= Delay THEN "recovering"
                ELSE IF online >= MinOnline THEN "online" ELSE "offline"
          [] c.state = "degrading" ->
                IF healthy >= MinOnline THEN "online"
                ELSE IF online < MinOnline THEN "offline" ELSE "degrading"
          [] c.state = "offline" ->
                IF online >= MinOnline THEN "recovering" ELSE "offline"
          [] c.state = "online" ->
                IF total - offline < MinOnline THEN "offline"
                ELSE IF healthy < MinOnline THEN "degrading" ELSE "online"

\* Mutant: the time of the state is set also when the state stays.
UpdateGroupStateRestarted(c, age) ==
    LET state == NextGroupState(c, age)
        d == [c EXCEPT !.state = state, !.since = 0,
                       !.queued = @ \/ (state = "online" /\ state # c.state)]
    IN  IF state = "online" THEN ClearOfflineProxies(d) ELSE d

UpdateGroupState(c, age) ==
    LET state == NextGroupState(c, age)
        d == [c EXCEPT !.state = state,
                       !.since = IF state = c.state THEN @ ELSE 0,
                       !.queued = @ \/ (state = "online" /\ state # c.state)]
    IN  IF state = "online" THEN ClearOfflineProxies(d) ELSE d

-----------------------------------------------------------------------------
(* Giving hosts to proxies (pg_cache_rebalance_groups) *)

Number(c) == [p \in Proxies |-> Cardinality(c.refs[p])]

\* The hosts are given out in passes over the proxies.  Every pass fills up to
\* the next level and ends at the first proxy that has as many hosts already.
Level(c, order, i) == Max({Number(c)[order[j]] : j \in 1..i})

Distribute(c, order) ==
    LET given(f, i) == Cardinality({h \in c.unassigned : f[h] = order[i]})
        top(f, i) == Level(c, order, i) + given(f, i)
        passes(f) == \A i, j \in DOMAIN order : given(f, j) > 0 =>
                        top(f, i) >= IF i <= j THEN top(f, j) ELSE top(f, j) - 1
    IN  {[c EXCEPT !.updates = [h \in Hosts |-> IF h \in c.unassigned THEN f[h] ELSE @[h]],
                   !.unassigned = {}] :
            f \in {g \in [c.unassigned -> Online(c)] : passes(g)}}

\* The host lists that the proxies are sorted by are empty in the first call:
\* any order of the proxies may come out.
DistributeUnassigned(c) == UNION {Distribute(c, order) : order \in SetToSeqs(Online(c))}

HostsNum(c) == MapThenSumSet(LAMBDA p : Cardinality(c.refs[p]), Online(c))

IsGroupBalanced(c) ==
    LET num == Number(c)
        avg == HostsNum(c) \div Cardinality(Online(c))
    IN  /\ c.unassigned = {}
        /\ (\E p \in Online(c) : num[p] = 0) => \A p \in Proxies : num[p] <= 1
        /\ Cardinality(Online(c)) >= MinOnline => \A p \in Online(c) :
              /\ num[p] - avg >= Limit /\ avg # 0 => num[p] \div avg < Factor
              /\ avg - num[p] >= Limit /\ num[p] # 0 => avg \div num[p] < Factor

\* The hosts that pg_cache_group_unassign_excess_hosts may take: the ones
\* assigned last, always from a proxy that has most, none below the average.
Excess(c) ==
    LET num == Number(c)
        n == Cardinality(Online(c))
        least == IF HostsNum(c) > n THEN HostsNum(c) \div n ELSE 1
        rich == {p \in Online(c) : num[p] >= least}
        need == MapThenSumSet(LAMBDA p : least - num[p], Online(c) \ rich)
        rest(p, T) == Cardinality(c.refs[p] \ T)
    IN  {T \in SUBSET UNION {c.refs[p] : p \in rich} :
            /\ Cardinality(T) <= need
            /\ Cardinality(T) < need => \A p \in rich : rest(p, T) <= least
            /\ \A p \in rich : c.refs[p] \cap T # {} =>
                  /\ rest(p, T) >= least
                  /\ \A q \in rich : rest(q, T) <= rest(p, T) + 1
                  /\ \A h \in c.refs[p] \cap T, g \in c.refs[p] \ T :
                        RowOf(c.map, g).rev <= RowOf(c.map, h).rev}

Unassign(c, T) ==
    [c EXCEPT !.unassigned = @ \cup T,
              !.updates = [h \in Hosts |-> IF h \in T THEN NoProxy ELSE @[h]],
              !.refs = [p \in Proxies |-> @[p] \ T]]

\* In the second call the proxies with too few hosts, whose lists are empty,
\* come first and the others follow by what they keep.
Spread(c, least) ==
    LET listed(p) == IF Cardinality(c.refs[p]) < least THEN 0 ELSE Cardinality(c.refs[p])
    IN  UNION {Distribute(c, order) :
            order \in {o \in SetToSeqs(Online(c)) :
                          \A i \in 1..Len(o) - 1 : listed(o[i]) <= listed(o[i + 1])}}

ReassignHosts(c) ==
    LET n == Cardinality(Online(c))
        least == IF HostsNum(c) > n THEN HostsNum(c) \div n ELSE 1
        done(d) == [d EXCEPT !.wait = Never, !.unbalanced = FALSE]
    IN  IF n = 0 THEN {c}
        ELSE IF c.unassigned # {} THEN DistributeUnassigned(c)
        ELSE {done(d) : d \in UNION {Spread(Unassign(c, T), least) : T \in Excess(c)}}

RebalanceGroup(c) ==
    LET d == [c EXCEPT !.unbalanced = TRUE,
                       !.wait = IF c.unassigned # {} THEN 0 ELSE @]
    IN  IF c.state # "online" THEN {c}
        ELSE IF IsGroupBalanced(c) THEN {[c EXCEPT !.wait = Never, !.unbalanced = FALSE]}
        ELSE IF d.wait = Never THEN {[d EXCEPT !.wait = Wait]}
        ELSE IF d.wait > 0 THEN {d}
        ELSE ReassignHosts(d)

-----------------------------------------------------------------------------
(* The manager thread *)

\* The queue of groups to look at keeps the ones that time alone can change.
StaysQueued(c) == c.state = "recovering" \/ c.unbalanced

Changed(c) == {h \in Hosts : c.updates[h] # Keep}
Removed(c) == {h \in Changed(c) : c.updates[h] = NoProxy}
Modified(c) == (Changed(c) \cap HostsOf(c.map)) \ Removed(c)
Added(c) == Changed(c) \ (HostsOf(c.map) \cup Removed(c))

\* pg_cache_get_hostmap_updates, pg_cache_add_new_hostmaps and
\* pg_cache_add_deleted_hostmaps.
GetHostmapUpdates(c, firstid) ==
    LET rev == IF Changed(c) = {} THEN c.last ELSE c.last + 1
        new == SetToSeq(Added(c))
        written == {Row(h, RowOf(c.map, h).id, c.updates[h], rev) : h \in Modified(c)}
                   \cup {Row(new[i], firstid + i, c.updates[new[i]], rev) : i \in DOMAIN new}
        gone == {[id |-> r.id, rev |-> rev] : r \in {s \in c.map : s.host \in Removed(c)}}
    IN  [c EXCEPT !.last = rev,
                  !.map = {r \in @ : r.host \notin Changed(c)} \cup written,
                  !.refs = [p \in Proxies |-> @[p] \cup HostsOf({r \in written : r.proxy = p})],
                  !.deleted = [p \in Proxies |-> IF c.synced[p] THEN @[p] \cup gone ELSE @[p]],
                  !.updates = [h \in Hosts |-> Keep],
                  !.queued = StaysQueued(c)]

\* What is written to the database, and whether the revision of the group
\* is to be set once it is there (groupids).
Flush(c, d) ==
    [pc |-> IF Changed(c) = {} THEN "idle" ELSE "commit",
     new |-> {r \in d.map : r.host \in Added(c)},
     mod |-> {r \in d.map : r.host \in Modified(c)},
     del |-> Removed(c),
     touched |-> Modified(c) \cup Added(c) \cup (Removed(c) \cap HostsOf(c.map)) # {}]

Nothing == [pc |-> "idle", new |-> {}, mod |-> {}, del |-> {}, touched |-> FALSE]

\* Mutant: the revision of the group is set before the rows are in the database.
RebalanceShown ==
    /\ pgm.pc \in {"idle", "check"}
    /\ cache.queued
    /\ \E c \in RebalanceGroup(cache) :
         /\ LET d == GetHostmapUpdates(c, ids.id)
            IN  cache' = [d EXCEPT !.shown = IF Changed(c) = {} THEN @ ELSE d.last]
         /\ pgm' = Flush(c, cache')
         /\ ids' = [ids EXCEPT !.id = @ + Cardinality(Added(c))]
    /\ UNCHANGED <<left, conf, mail, rows, heard, quiet, remote, sync, known, based, refused, crossed>>

Rebalance ==
    /\ pgm.pc \in {"idle", "check"}
    /\ cache.queued
    /\ \E c \in RebalanceGroup(cache) :
         /\ cache' = GetHostmapUpdates(c, ids.id)
         /\ pgm' = Flush(c, cache')
         /\ ids' = [ids EXCEPT !.id = @ + Cardinality(Added(c))]
    /\ UNCHANGED <<left, conf, mail, rows, heard, quiet, remote, sync, known, based, refused, crossed>>

NothingQueued ==
    /\ pgm.pc = "check"
    /\ ~cache.queued
    /\ pgm' = Nothing
    /\ UNCHANGED <<left, conf, mail, rows, ids, cache, heard, quiet, remote, sync, known, based, refused, crossed>>

\* Mutant: the update leaves the revision of the row alone.
UpdatedProxy(r) == IF r.host \in HostsOf(pgm.mod)
                   THEN [r EXCEPT !.proxy = RowOf(pgm.mod, r.host).proxy] ELSE r

\* The rows after the statements of the transaction, in their order: update
\* and delete by hostid, then insert for hosts that still exist.
Updated(r) == IF r.host \in HostsOf(pgm.mod)
              THEN [RowOf(pgm.mod, r.host) EXCEPT !.id = r.id] ELSE r

Rest == {Updated(r) : r \in {s \in rows : s.host \notin pgm.del}}
Inserted == {r \in pgm.new : conf[r.host].at # "gone"}

\* A transaction that meets the unique index on hostid fails and is not
\* repeated; the revision of the group is not set either.
Commit ==
    /\ pgm.pc = "commit"
    /\ IF HostsOf(Inserted) \cap HostsOf(Rest) = {}
       THEN /\ rows' = Rest \cup Inserted
            /\ ids' = [ids EXCEPT !.rev = cache.last]
            /\ pgm' = IF pgm.touched THEN [Nothing EXCEPT !.pc = "publish"] ELSE Nothing
            /\ UNCHANGED refused
       ELSE /\ refused' = TRUE
            /\ pgm' = Nothing
            /\ UNCHANGED <<rows, ids>>
    /\ UNCHANGED <<left, conf, mail, cache, heard, quiet, remote, sync, known, based, crossed>>

Publish ==
    /\ pgm.pc = "publish"
    /\ cache' = [cache EXCEPT !.shown = cache.last]
    /\ pgm' = Nothing
    /\ UNCHANGED <<left, conf, mail, rows, ids, heard, quiet, remote, sync, known, based, refused, crossed>>

\* pgm_update, with the proxies heard since the last one.  The loop looks at
\* the queue once before it comes here again.
Update ==
    /\ pgm.pc = "idle"
    /\ quiet' = [p \in Proxies |-> IF p \in heard THEN 0 ELSE Older(quiet[p], Delay)]
    /\ cache' = UpdateGroupState(UpdateProxyState(Aged(cache), quiet'), quiet')
    /\ pgm' = [Nothing EXCEPT !.pc = "check"]
    /\ UNCHANGED <<left, conf, mail, rows, ids, heard, remote, sync, known, based, refused, crossed>>

-----------------------------------------------------------------------------
(* The service thread: host relocations *)

\* Mutant: the host stays among the unassigned ones.
RemoveHostListed(c, h) ==
    [c EXCEPT !.hosts = @ \ {h}, !.queued = TRUE,
              !.refs = [p \in Proxies |->
                          IF h \in HostsOf(c.map) /\ RowOf(c.map, h).proxy = p
                          THEN @[p] \ {h} ELSE @[p]],
              !.updates[h] = IF h \in HostsOf(c.map) THEN NoProxy ELSE @]

RemoveHost(c, h) ==
    [c EXCEPT !.hosts = @ \ {h}, !.unassigned = @ \ {h}, !.queued = TRUE,
              !.refs = [p \in Proxies |->
                          IF h \in HostsOf(c.map) /\ RowOf(c.map, h).proxy = p
                          THEN @[p] \ {h} ELSE @[p]],
              !.updates[h] = IF h \in HostsOf(c.map) THEN NoProxy ELSE @]

\* Mutant: a host that still has a proxy is not among the unassigned ones.
AddHostUnmapped(c, h) ==
    [c EXCEPT !.hosts = @ \cup {h}, !.queued = TRUE,
              !.unassigned = IF h \in c.hosts \cup HostsOf(c.map) THEN @ ELSE @ \cup {h}]

AddHost(c, h) ==
    [c EXCEPT !.hosts = @ \cup {h}, !.queued = TRUE,
              !.unassigned = IF h \in c.hosts THEN @ ELSE @ \cup {h}]

\* A host that stays in the group is given to its proxy again, so that its
\* row gets a new revision.
TouchHost(c, h) ==
    IF h \in HostsOf(c.map)
    THEN [c EXCEPT !.updates[h] = RowOf(c.map, h).proxy, !.queued = TRUE]
    ELSE c

UpdateHostPgroup ==
    /\ mail # <<>>
    /\ mail' = Tail(mail)
    /\ LET m == Head(mail) IN
         /\ cache' = IF m.src = m.dst THEN TouchHost(cache, m.host)
                     ELSE IF m.src = "in" THEN RemoveHost(cache, m.host)
                     ELSE AddHost(cache, m.host)
         /\ crossed' = (crossed \/ /\ m.src = m.dst
                                   /\ m.host \in cache.unassigned \cap HostsOf(cache.map))
    /\ UNCHANGED <<left, conf, rows, ids, pgm, heard, quiet, remote, sync, known, based, refused>>

-----------------------------------------------------------------------------
(* The copies of the map at the proxies *)

NoSync == [pc |-> "none"]

\* pg_get_proxy_sync_data.  A sync time of 0 is more than a day ago.
Mode(p, asked) ==
    IF cache.shown = 0 THEN "none"
    ELSE IF asked = 0 \/ asked > cache.shown \/ ~cache.synced[p] THEN "full"
    ELSE IF asked < cache.shown THEN "partial" ELSE "none"

\* The deletions that the proxy has yet to be told of, and those that are kept:
\* what is told now is told again until the proxy is past its revision.
Told(p, asked) == {d \in cache.deleted[p] : d.rev > asked}

\* Mutant: what is told is not kept.
KeptForgotten(p, asked) == IF Mode(p, asked) = "partial" THEN {} ELSE cache.deleted[p]

Kept(p, asked) == IF Mode(p, asked) = "partial" THEN Told(p, asked) ELSE cache.deleted[p]

\* The proxy asks for its configuration.  One that the server does not know,
\* or that has no configuration, gets everything.
GetProxySyncData(p) ==
    LET all == p \notin known \/ ~remote[p].configured
        asked == IF all THEN 0 ELSE remote[p].rev
        mode == Mode(p, asked)
    IN  /\ sync[p].pc = "none"
        /\ ~remote[p].locked
        /\ p \in heard \cap Asking
        /\ Spend("asks")
        /\ known' = known \cup {p}
        /\ cache' = [cache EXCEPT !.synced[p] = @ \/ cache.shown # 0,
                                  !.deleted[p] = Kept(p, asked)]
        /\ sync' = IF ~all /\ asked = cache.shown THEN sync ELSE [sync EXCEPT ![p] =
                      [pc |-> "read", all |-> all, hostmap |-> all \/ mode # "none",
                       above |-> IF mode = "full" THEN 0 ELSE asked, rev |-> cache.shown,
                       del |-> IF mode = "partial" THEN {d.id : d \in Told(p, asked)} ELSE {},
                       sure |-> /\ all /\ cache.shown # 0
                                /\ {r.id : r \in rows} \subseteq {r.id : r \in cache.map}]]
        /\ remote' = [remote EXCEPT ![p].locked = sync' # sync /\ p \in left.passive]
        /\ UNCHANGED <<conf, mail, rows, ids, pgm, heard, quiet, based, refused, crossed>>

\* proxyconfig_get_hostmap reads the table in a transaction of its own.
Copy(r) == [id |-> r.id, host |-> r.host, name |-> conf[r.host].name, proxy |-> r.proxy]

GetHostmap(p) ==
    /\ sync[p].pc = "read"
    /\ sync' = [sync EXCEPT ![p] =
                  [pc |-> "reply", all |-> @.all, hostmap |-> @.hostmap, above |-> @.above,
                   rev |-> @.rev, del |-> @.del, sure |-> @.sure,
                   rows |-> IF @.hostmap
                            THEN {Copy(r) : r \in {s \in rows : conf[s.host].at = "in"
                                                                /\ s.rev > @.above}}
                            ELSE {}]]
    /\ UNCHANGED <<left, conf, mail, rows, ids, cache, pgm, heard, quiet, remote, known, based, refused, crossed>>

\* proxyconfig_sync_proxy_group.  Rows that the proxy has are updated after the
\* delete, rows that it does not have are inserted.
Applied(have, reply) ==
    LET sent == {r.id : r \in reply.rows}
        old == {r.id : r \in have}
    IN  IF ~reply.hostmap THEN have
        ELSE IF reply.all THEN reply.rows
        ELSE {r \in have : r.id \notin sent \cup reply.del}
             \cup {r \in reply.rows : r.id \in reply.del => r.id \notin old}

SyncProxyGroup(p) ==
    /\ sync[p].pc = "reply"
    /\ remote' = [remote EXCEPT ![p] = [configured |-> TRUE, rev |-> sync[p].rev, locked |-> FALSE,
                                        rows |-> Applied(@.rows, sync[p]),
                                        served |-> @.served \/ (p \in known /\ sync[p].above = 0)]]
    /\ based' = IF sync[p].sure /\ p \in known THEN based \cup {p} ELSE based
    /\ sync' = [sync EXCEPT ![p] = NoSync]
    /\ UNCHANGED <<left, conf, mail, rows, ids, cache, pgm, heard, quiet, known, refused, crossed>>

-----------------------------------------------------------------------------
(* The environment *)

\* A user moves the host into the group or out of it, deletes or renames it;
\* the configuration syncer reports it.  A deleted host takes its row along.
EditHost(h) ==
    /\ conf[h].at # "gone"
    /\ \E c \in {[at |-> "in", name |-> conf[h].name], [at |-> "out", name |-> conf[h].name],
                 [at |-> "gone", name |-> conf[h].name],
                 [at |-> conf[h].at, name |-> conf[h].name + 1]} :
         /\ c # conf[h]
         /\ Spend(IF c.at = conf[h].at THEN "renames" ELSE "moves")
         /\ conf' = [conf EXCEPT ![h] = c]
         /\ mail' = IF "in" \in {c.at, conf[h].at}
                    THEN Append(mail, [host |-> h, src |-> conf[h].at, dst |-> c.at])
                    ELSE mail
         /\ rows' = IF c.at = "gone" THEN {r \in rows : r.host # h} ELSE rows
    /\ UNCHANGED <<ids, cache, pgm, heard, quiet, remote, sync, known, based, refused, crossed>>

\* The proxy's own transaction fails: the revisions are not set.
CommitFails(p) ==
    /\ sync[p].pc = "reply"
    /\ Spend("losses")
    /\ sync' = [sync EXCEPT ![p] = NoSync]
    /\ remote' = [remote EXCEPT ![p].locked = FALSE]
    /\ UNCHANGED <<conf, mail, rows, ids, cache, pgm, heard, quiet, known, based, refused, crossed>>

\* The transfer fails.  An active proxy (process_configuration_sync) forgets
\* its revisions; a passive one (zbx_recv_proxyconfig) keeps them, and returns
\* without releasing its sync lock.
WithoutAnswer(p) ==
    IF p \in left.passive THEN remote[p]
    ELSE [remote[p] EXCEPT !.configured = FALSE, !.rev = 0]

Lose(p) ==
    /\ sync[p].pc = "reply"
    /\ Spend("losses")
    /\ sync' = [sync EXCEPT ![p] = NoSync]
    /\ remote' = [remote EXCEPT ![p] = WithoutAnswer(p)]
    /\ UNCHANGED <<conf, mail, rows, ids, cache, pgm, heard, quiet, known, based, refused, crossed>>

\* The proxy restarts: a new session, no revision, the table is still there.
RestartProxy(p) ==
    /\ Spend("reboots")
    /\ remote' = [remote EXCEPT ![p].configured = FALSE, ![p].rev = 0,
                              ![p].locked = FALSE]
    /\ known' = known \ {p}
    /\ sync' = [sync EXCEPT ![p] = NoSync]
    /\ UNCHANGED <<conf, mail, rows, ids, cache, pgm, heard, quiet, based, refused, crossed>>

Hear(S) ==
    /\ S # heard
    /\ Spend("outages")
    /\ heard' = S
    /\ UNCHANGED <<conf, mail, rows, ids, cache, pgm, quiet, remote, sync, known, based, refused, crossed>>

\* pgm_init, pgm_update and pgm_db_get_hosts: the group is queued because it is
\* new, and so is every host whose row is not there or not wanted.
Started(age) ==
    LET empty == [state |-> "unknown", since |-> 0, uptime |-> 0, queued |-> TRUE,
                  hosts |-> {}, unassigned |-> {}, shown |-> 0, wait |-> Never,
                  unbalanced |-> FALSE, map |-> {}, last |-> ids.rev,
                  updates |-> [h \in Hosts |-> Keep],
                  pstate |-> [p \in Proxies |-> "unknown"],
                  alive |-> [p \in Proxies |-> Never],
                  refs |-> [p \in Proxies |-> {}],
                  synced |-> [p \in Proxies |-> FALSE],
                  deleted |-> [p \in Proxies |-> {}]]
        in == {h \in Hosts : conf[h].at = "in"}
        map == {r \in rows : r.host \in in}
    IN  [UpdateGroupState(UpdateProxyState(empty, age), age) EXCEPT
            !.hosts = in, !.unassigned = in \ HostsOf(map), !.map = map,
            !.updates = [h \in Hosts |-> IF h \in HostsOf(rows) \ in THEN NoProxy ELSE Keep],
            !.refs = [p \in Proxies |-> HostsOf({r \in map : r.proxy = p})],
            !.shown = Max({0} \cup {r.rev : r \in map})]

RestartServer ==
    /\ Spend("restarts")
    /\ mail' = <<>>
    /\ cache' = Started(quiet)
    /\ pgm' = [Nothing EXCEPT !.pc = "check"]
    /\ sync' = [p \in Proxies |-> IF sync[p].pc = "read" THEN NoSync ELSE sync[p]]
    /\ remote' = [p \in Proxies |->
                    [(IF sync[p].pc = "read" THEN WithoutAnswer(p) ELSE remote[p])
                        EXCEPT !.served = FALSE]]
    /\ known' = {}
    /\ based' = {}
    /\ crossed' = FALSE
    /\ UNCHANGED <<conf, rows, ids, heard, quiet, refused>>

-----------------------------------------------------------------------------
\* A server starts with a map left by an earlier run, or with none.
Init ==
    /\ left \in Setups
    /\ conf = [h \in Hosts |-> [at |-> IF h \in left.hosts THEN "in" ELSE "gone", name |-> 0]]
    /\ mail = <<>>
    /\ \E h \in left.hosts, p \in Proxies : rows \in {{}, {Row(h, 1, p, 1)}}
    /\ ids = IF rows = {} THEN [id |-> 0, rev |-> 0] ELSE [id |-> 1, rev |-> 1]
    /\ heard = Proxies
    /\ quiet = [p \in Proxies |-> 0]
    /\ cache = Started(quiet)
    /\ pgm = [Nothing EXCEPT !.pc = "check"]
    /\ remote = [p \in Proxies |-> [configured |-> FALSE, rev |-> 0, locked |-> FALSE,
                                    rows |-> {Copy(r) : r \in rows}, served |-> FALSE]]
    /\ sync = [p \in Proxies |-> NoSync]
    /\ known = {}
    /\ based = {}
    /\ refused = FALSE
    /\ crossed = FALSE

Next ==
    \/ Rebalance \/ NothingQueued \/ Commit \/ Publish \/ Update
    \/ UpdateHostPgroup
    \/ \E p \in Proxies : GetProxySyncData(p) \/ GetHostmap(p) \/ SyncProxyGroup(p)
                          \/ CommitFails(p) \/ Lose(p) \/ RestartProxy(p)
    \/ \E h \in Hosts : EditHost(h)
    \/ \E S \in SUBSET Proxies : Hear(S)
    \/ RestartServer

Spec == Init /\ [][Next]_vars

\* The loop of the manager goes on (some step of it can be taken in every
\* state, and changes pgm or waits for Update, which does), and so does the
\* loop of the service thread.
LiveSpec == Spec /\ []<><<TRUE>>_pgm /\ WF_mail(UpdateHostPgroup)

-----------------------------------------------------------------------------
\* Types; ids and revisions are not ahead of their counters, and a host that
\* waits for a proxy is a host of the group.
TypeOK ==
    /\ \A h \in Hosts : conf[h].at \in {"in", "out", "gone"} /\ conf[h].name \in Nat
    /\ \A r \in rows \cup cache.map :
          r.host \in Hosts /\ r.proxy \in Proxies /\ r.id \in 1..ids.id /\ r.rev \in 1..cache.last
    /\ cache.state \in {"offline", "recovering", "online", "degrading"}
    /\ cache.pstate \in [Proxies -> {"unknown", "offline", "online"}]
    /\ cache.alive \in [Proxies -> Never..Delay] /\ quiet \in [Proxies -> 0..Delay]
    /\ cache.uptime \in 0..Delay /\ cache.since \in 0..Delay + 1 /\ cache.wait \in Never..Wait
    /\ cache.unassigned \subseteq Hosts /\ cache.hosts \subseteq Hosts
    /\ ~crossed => cache.unassigned \subseteq cache.hosts
    /\ cache.updates \in [Hosts -> Proxies \cup {NoProxy, Keep}]
    /\ cache.shown \in 0..cache.last
    /\ pgm.pc \in {"idle", "check", "commit", "publish"}
    /\ known \subseteq Proxies /\ heard \subseteq Proxies

Settled == /\ mail = <<>> /\ pgm.pc = "idle" /\ ~cache.queued /\ ~refused /\ ~crossed
           /\ \A h \in Hosts : cache.updates[h] = Keep

\* zbx_pg_proxy_t.hosts points into the map: what a proxy refers to is in the
\* map under that proxy, and a mapped host that no proxy refers to is about to
\* be given away or removed.  One that is renamed while it waits for a proxy is
\* given to its old one (TouchHost) and waits on; what follows is not claimed.
RefsValid ==
    ~crossed =>
        /\ \A p \in Proxies : \A h \in cache.refs[p] :
              \E r \in cache.map : r.host = h /\ r.proxy = p
        /\ \A r \in cache.map : r.host \in cache.refs[r.proxy] \/ cache.updates[r.host] # Keep

\* The map of the manager is in the database whenever no transaction is open,
\* rows of a deleted host and rows about to be deleted apart.
DbMatches ==
    pgm.pc # "commit" /\ ~refused =>
        /\ \A r \in cache.map : r \in rows \/ conf[r.host].at = "gone"
        /\ \A r \in rows : r \in cache.map \/ cache.updates[r.host] = NoProxy
        /\ ids.rev = cache.last

\* In an online group every host, and no other, has a proxy that is online as
\* soon as the queue of the manager is empty.
AllServed ==
    Settled /\ cache.state = "online" =>
        \A h \in Hosts : conf[h].at = "in" <=>
            \E r \in cache.map : r.host = h /\ r.proxy \in Online(cache)

\* A proxy at the revision of the group has every row of the map as it is now,
\* new names included, once it has stored an answer of this server that had all
\* of them ...
UpToDate(p) == /\ remote[p].configured /\ remote[p].rev = cache.shown
               /\ remote[p].served /\ p \in known /\ sync[p].pc = "none"
CopyCurrent ==
    \A p \in Proxies : Settled /\ UpToDate(p) => {Copy(r) : r \in cache.map} \subseteq remote[p].rows

\* ... and no other, once it got everything in one answer of this server.
CopyExact ==
    \A p \in Proxies : Settled /\ UpToDate(p) /\ p \in based
        => remote[p].rows \subseteq {Copy(r) : r \in cache.map}

\* A group that keeps hearing enough proxies serves all its hosts by them
\* (pg_cache_update_group_state, pg_cache_rebalance_groups).
Recovers ==
    <>[](Cardinality(heard) >= MinOnline /\ ~refused =>
            \A h \in Hosts : conf[h].at = "in" =>
                \E r \in rows : r.host = h /\ r.proxy \in heard)

\* A passive proxy that holds its sync lock, and so refuses a configuration
\* with "configuration sync is already in progress", has one in progress.
SyncLockUsed == \A p \in Proxies : remote[p].locked => sync[p].pc # "none"

=============================================================================
