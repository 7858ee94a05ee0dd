------------------------ MODULE ProxyGroupsProofs ------------------------
(* Theorems about ProxyGroups: for any hosts, proxies and delays, the lists  *)
(* of the proxies, the map and the table agree, and an online group serves   *)
(* its hosts.                                                                *)
EXTENDS ProxyGroups, FiniteSetTheorems, WellFoundedInduction, TLAPS

----------------------------------------------------------------------------
(* The inductive invariant. *)

GroupStates == {"offline", "recovering", "online", "degrading"}
Places == {"in", "out", "gone"}
RowType == [host : Hosts, id : Nat, proxy : Proxies, rev : Nat]
Mail == {m \in [host : Hosts, src : Places, dst : Places] : m.src = "in" \/ m.dst = "in"}

CacheType(states) ==
    [state : states, since : 0..Delay + 1, uptime : 0..Delay, queued : BOOLEAN,
     hosts : SUBSET Hosts, unassigned : SUBSET Hosts, shown : Nat,
     wait : Never..Wait, unbalanced : BOOLEAN, map : SUBSET RowType, last : Nat,
     updates : [Hosts -> Proxies \cup {NoProxy, Keep}],
     pstate : [Proxies -> {"unknown", "offline", "online"}],
     alive : [Proxies -> Never..Delay], refs : [Proxies -> SUBSET Hosts],
     synced : [Proxies -> BOOLEAN], deleted : [Proxies -> SUBSET [id : Nat, rev : Nat]]]

Types ==
    /\ conf \in [Hosts -> [at : Places, name : Nat]]
    /\ mail \in Seq(Mail)
    /\ rows \in SUBSET RowType
    /\ ids \in [id : Nat, rev : Nat]
    /\ cache \in CacheType(GroupStates)
    /\ pgm \in [pc : {"idle", "check", "commit", "publish"}, new : SUBSET RowType,
                mod : SUBSET RowType, del : SUBSET Hosts, touched : BOOLEAN]
    /\ heard \in SUBSET Proxies /\ known \in SUBSET Proxies
    /\ quiet \in [Proxies -> 0..Delay]
    /\ refused \in BOOLEAN /\ crossed \in BOOLEAN

\* no id and no revision is ahead of its counter
Counted ==
    /\ \A r \in rows \cup cache.map : r.id \in 1..ids.id /\ r.rev >= 1
    /\ \A r \in cache.map : r.rev <= cache.last
    /\ \A r \in rows : r.rev <= ids.rev
    /\ ids.rev <= cache.last /\ cache.shown <= cache.last

\* a host has one row at most, and a deleted one has none
OneRow ==
    /\ \A r, s \in cache.map : r.host = s.host => r = s
    /\ \A r, s \in rows : r.host = s.host => r = s
    /\ \A r \in rows : conf[r.host].at # "gone"

\* the transaction that is open makes the table what the map is
Writing ==
    /\ HostsOf(pgm.mod) \cap pgm.del = {}
    /\ \A r \in cache.map :
          \/ conf[r.host].at = "gone"
          \/ r \in pgm.new
          \/ r \in pgm.mod /\ \E s \in rows : s.host = r.host /\ s.id = r.id
          \/ r \in rows /\ r.host \notin HostsOf(pgm.mod) \cup pgm.del
    /\ \A s \in rows :
          \/ s.host \in pgm.del
          \/ \E r \in pgm.mod : r.host = s.host /\ r.id = s.id
          \/ s \in cache.map /\ s.host \notin HostsOf(pgm.mod)
          \/ s.host \in HostsOf(pgm.new)

Stored == /\ pgm.new \cup pgm.mod \subseteq cache.map
          /\ pgm.pc = "commit" /\ ~refused => Writing

\* the lists of the proxies, the waiting hosts and the updates of cache c
Listed(c) ==
    /\ \A p \in Proxies : \A h \in c.refs[p] :
          /\ \E r \in c.map : r.host = h /\ r.proxy = p
          /\ h \in c.hosts /\ h \notin c.unassigned /\ c.updates[h] \in {Keep, p}
    /\ \A h \in c.hosts :
          h \in c.unassigned \/ c.updates[h] \in Proxies \/ \E p \in Proxies : h \in c.refs[p]
    /\ \A h \in c.unassigned : h \in c.hosts /\ c.updates[h] \notin Proxies
    /\ \A h \in Hosts : c.updates[h] \in Proxies =>
          /\ h \in c.hosts
          /\ c.state = "online" => c.updates[h] \in Online(c)
          /\ \A p \in Proxies : h \in c.refs[p] => c.updates[h] = p
    /\ \A r \in c.map : r.host \in c.refs[r.proxy] \/ c.updates[r.host] # Keep
    /\ c.state = "online" => \A p \in Proxies \ Online(c) : c.refs[p] = {}

\* between two steps a host that is to be written again keeps its proxy
Kind(c) ==
    /\ \A h \in Hosts : c.updates[h] \in Proxies => h \in c.refs[c.updates[h]]
    /\ c.state = "online" /\ c.unassigned # {} => c.queued

Linked == ~crossed => Listed(cache) /\ Kind(cache)

\* the group that the service thread knows is the configured one before the
\* moves that it has yet to hear of
Chained ==
    /\ \A j \in 1..Len(mail) : (\A i \in 1..j - 1 : mail[i].host # mail[j].host) =>
          (mail[j].src = "in" <=> mail[j].host \in cache.hosts)
    /\ \A i, j \in 1..Len(mail) :
          /\ i < j /\ mail[i].host = mail[j].host
          /\ \A k \in i + 1..j - 1 : mail[k].host # mail[j].host
          => (mail[j].src = "in" <=> mail[i].dst = "in")
    /\ \A i \in 1..Len(mail) : (\A k \in i + 1..Len(mail) : mail[k].host # mail[i].host) =>
          (conf[mail[i].host].at = "in" <=> mail[i].dst = "in")
    /\ \A h \in Hosts : (\A i \in 1..Len(mail) : mail[i].host # h) =>
          (conf[h].at = "in" <=> h \in cache.hosts)

IInv == Types /\ Counted /\ OneRow /\ Stored /\ DbMatches /\ Linked /\ Chained
----------------------------------------------------------------------------
(* The operators on the cache. *)

\* An age stays within its cap.
LEMMA OlderAge ==
    ASSUME NEW cap \in Nat, NEW a \in Never..cap
    PROVE  Older(a, cap) \in Never..cap /\ (a \in 0..cap => Older(a, cap) \in 0..cap)
BY DEF Older, Never

LEMMA AgedTypes ==
    ASSUME NEW c \in CacheType(GroupStates)
    PROVE  /\ Aged(c) \in CacheType(GroupStates)
           /\ \E u \in 0..Delay, s \in 0..Delay + 1, w \in Never..Wait, a \in [Proxies -> Never..Delay] :
                 Aged(c) = [c EXCEPT !.uptime = u, !.since = s, !.alive = a, !.wait = w]
<1>1. Older(c.uptime, Delay) \in 0..Delay
  BY Bounds, OlderAge DEF CacheType, Never
<1>2. Older(c.since, Delay + 1) \in 0..Delay + 1
  BY Bounds, OlderAge DEF CacheType, Never
<1>3. [p \in Proxies |-> Older(c.alive[p], Delay)] \in [Proxies -> Never..Delay]
  BY Bounds, OlderAge DEF CacheType
<1>4. (IF c.wait > 0 THEN c.wait - 1 ELSE c.wait) \in Never..Wait
  BY Bounds DEF CacheType, Never
<1> QED  BY <1>1, <1>2, <1>3, <1>4 DEF Aged, CacheType

\* What pg_cache_update_proxy_state changes.
LEMMA ProxyStates ==
    ASSUME NEW S, NEW c \in CacheType(S), NEW age \in [Proxies -> 0..Delay]
    PROVE  \E a \in [Proxies -> Never..Delay],
              s \in [Proxies -> {"unknown", "offline", "online"}], q \in BOOLEAN :
              /\ UpdateProxyState(c, age) = [c EXCEPT !.alive = a, !.pstate = s, !.queued = q]
              /\ q <=> c.queued \/ s # c.pstate
<1> DEFINE fresh(p) == age[p] < Delay
           alive == [p \in Proxies |->
                       IF fresh(p) THEN IF c.alive[p] = Never THEN age[p] ELSE c.alive[p]
                       ELSE IF c.uptime >= Delay THEN Never ELSE c.alive[p]]
           pstate == [p \in Proxies |->
                       IF fresh(p) /\ (c.pstate[p] = "unknown" \/ alive[p] >= Delay)
                       THEN "online"
                       ELSE IF ~fresh(p) /\ c.uptime >= Delay THEN "offline"
                       ELSE c.pstate[p]]
<1>1. alive \in [Proxies -> Never..Delay]
  BY Bounds DEF CacheType, Never
<1>2. pstate \in [Proxies -> {"unknown", "offline", "online"}]
  BY DEF CacheType
<1> DEFINE q == c.queued \/ pstate # c.pstate
<1>3. UpdateProxyState(c, age) = [c EXCEPT !.alive = alive, !.pstate = pstate, !.queued = q]
  BY DEF UpdateProxyState
<1>4. q \in BOOLEAN /\ (q <=> c.queued \/ pstate # c.pstate)
  BY DEF CacheType
<1> QED
  <2> HIDE DEF alive, pstate, q
  <2> QED  BY <1>1, <1>2, <1>3, <1>4

LEMMA NextStates ==
    ASSUME NEW c \in CacheType(GroupStates \cup {"unknown"}), NEW age
    PROVE  NextGroupState(c, age) \in GroupStates
<1>1. c.state \in GroupStates \cup {"unknown"}
  BY DEF CacheType
<1>2. CASE c.state \in {"unknown", "recovering"}
  BY <1>2 DEF NextGroupState, GroupStates
<1>3. CASE c.state = "degrading"
  BY <1>3 DEF NextGroupState, GroupStates
<1>4. CASE c.state = "offline"
  BY <1>4 DEF NextGroupState, GroupStates
<1>5. CASE c.state = "online"
  BY <1>5 DEF NextGroupState, GroupStates
<1> QED  BY <1>1, <1>2, <1>3, <1>4, <1>5 DEF GroupStates

\* The hosts of the proxies that are not online.
Lost(c) == UNION {c.refs[p] : p \in Proxies \ Online(c)}

\* What pg_cache_clear_offline_proxies changes.
LEMMA Cleared ==
    ASSUME NEW c \in CacheType(GroupStates)
    PROVE  LET d == ClearOfflineProxies(c)
           IN  /\ d \in CacheType(GroupStates)
               /\ d.state = c.state /\ d.pstate = c.pstate /\ d.queued = c.queued
               /\ d.map = c.map /\ d.last = c.last /\ d.shown = c.shown /\ d.hosts = c.hosts
               /\ d.deleted = c.deleted /\ d.synced = c.synced
               /\ d.unassigned = c.unassigned \cup Lost(c)
               /\ \A h \in Hosts : d.updates[h] = IF h \in Lost(c) THEN NoProxy ELSE c.updates[h]
               /\ \A p \in Proxies : d.refs[p] = IF p \in Online(c) THEN c.refs[p] ELSE {}
<1> DEFINE un == c.unassigned \cup Lost(c)
           up == [h \in Hosts |-> IF h \in Lost(c) THEN NoProxy ELSE c.updates[h]]
           rf == [p \in Proxies |-> IF p \in Online(c) THEN c.refs[p] ELSE {}]
<1>1. un \in SUBSET Hosts
  BY DEF Lost, CacheType
<1>2. up \in [Hosts -> Proxies \cup {NoProxy, Keep}]
  BY DEF CacheType
<1>3. rf \in [Proxies -> SUBSET Hosts]
  BY DEF CacheType
<1>4. ClearOfflineProxies(c) = [c EXCEPT !.unassigned = un, !.updates = up, !.refs = rf]
  BY DEF ClearOfflineProxies, Lost
<1>5. /\ \A h \in Hosts : up[h] = IF h \in Lost(c) THEN NoProxy ELSE c.updates[h]
      /\ \A p \in Proxies : rf[p] = IF p \in Online(c) THEN c.refs[p] ELSE {}
      /\ un = c.unassigned \cup Lost(c)
  OBVIOUS
<1> HIDE DEF un, up, rf
<1> DEFINE d == ClearOfflineProxies(c)
<1>6. d \in CacheType(GroupStates)
  BY <1>1, <1>2, <1>3, <1>4 DEF CacheType
<1>7. /\ d.state = c.state /\ d.pstate = c.pstate /\ d.queued = c.queued
      /\ d.map = c.map /\ d.last = c.last /\ d.shown = c.shown /\ d.hosts = c.hosts
      /\ d.deleted = c.deleted /\ d.synced = c.synced
      /\ d.unassigned = un /\ d.updates = up /\ d.refs = rf
  BY <1>4 DEF CacheType
<1> QED  BY <1>5, <1>6, <1>7

\* What pg_cache_update_group_state changes.
LEMMA GroupState ==
    ASSUME NEW c \in CacheType(GroupStates \cup {"unknown"}), NEW age
    PROVE  \E e \in CacheType(GroupStates) :
              /\ e = [c EXCEPT !.state = e.state, !.since = e.since, !.queued = e.queued]
              /\ e.state = NextGroupState(c, age)
              /\ e.queued <=> c.queued \/ (e.state = "online" /\ e.state # c.state)
              /\ UpdateGroupState(c, age) =
                    IF e.state = "online" THEN ClearOfflineProxies(e) ELSE e
<1> DEFINE st == NextGroupState(c, age)
           si == IF st = c.state THEN c.since ELSE 0
           q == c.queued \/ (st = "online" /\ st # c.state)
           e == [c EXCEPT !.state = st, !.since = si, !.queued = q]
<1>1. st \in GroupStates
  BY NextStates
<1>2. si \in 0..Delay + 1 /\ q \in BOOLEAN
  BY Bounds DEF CacheType
<1>3. UpdateGroupState(c, age) = IF st = "online" THEN ClearOfflineProxies(e) ELSE e
  BY DEF UpdateGroupState
<1>4. e \in CacheType(GroupStates) /\ e.state = st /\ e.since = si /\ e.queued = q
  <2> HIDE DEF st, si, q
  <2> QED  BY <1>1, <1>2 DEF CacheType
<1>5. q <=> c.queued \/ (st = "online" /\ st # c.state)
  OBVIOUS
<1>6. e = [c EXCEPT !.state = e.state, !.since = e.since, !.queued = e.queued]
  <2> HIDE DEF st, si, q
  <2> QED  BY <1>4
<1>7. /\ e \in CacheType(GroupStates)
      /\ e.state = NextGroupState(c, age)
      /\ e.queued <=> c.queued \/ (e.state = "online" /\ e.state # c.state)
      /\ UpdateGroupState(c, age) = IF e.state = "online" THEN ClearOfflineProxies(e) ELSE e
  <2>1. st = NextGroupState(c, age)  OBVIOUS
  <2> HIDE DEF st, si, q, e
  <2> QED  BY <1>3, <1>4, <1>5, <2>1
<1> HIDE DEF e
<1> QED  BY <1>6, <1>7

\* Hosts of a proxy that goes offline become unassigned ones, others stay.
Loses(c, d) == IF d.state = "online" THEN UNION {c.refs[p] : p \in Proxies \ Online(d)} ELSE {}

LEMMA Refreshed ==
    ASSUME NEW c \in CacheType(GroupStates), NEW d \in CacheType(GroupStates),
           Listed(c), Kind(c), \A r, s \in c.map : r.host = s.host => r = s,
           d.map = c.map, d.hosts = c.hosts,
           \A p \in Proxies : d.refs[p] = IF d.state = "online" /\ p \notin Online(d) THEN {}
                                          ELSE c.refs[p],
           d.unassigned = c.unassigned \cup Loses(c, d),
           \A h \in Hosts : d.updates[h] = IF h \in Loses(c, d) THEN NoProxy ELSE c.updates[h],
           c.queued => d.queued, d.pstate # c.pstate => d.queued,
           d.state = "online" /\ c.state # "online" => d.queued
    PROVE  Listed(d) /\ Kind(d)
<1> DEFINE L == Loses(c, d)
<1>L. L = IF d.state = "online" THEN UNION {c.refs[p] : p \in Proxies \ Online(d)} ELSE {}
  BY DEF Loses
<1>u. /\ d.unassigned = c.unassigned \cup L
      /\ \A h \in Hosts : d.updates[h] = IF h \in L THEN NoProxy ELSE c.updates[h]
  OBVIOUS
<1> HIDE DEF L
<1>t. /\ c.refs \in [Proxies -> SUBSET Hosts] /\ d.refs \in [Proxies -> SUBSET Hosts]
      /\ c.map \in SUBSET RowType /\ c.hosts \in SUBSET Hosts /\ c.unassigned \in SUBSET Hosts
      /\ c.updates \in [Hosts -> Proxies \cup {NoProxy, Keep}]
  BY DEF CacheType
<1>k. \A h \in L : h \in Hosts /\ d.state = "online"
                   /\ \E q \in Proxies : q \notin Online(d) /\ h \in c.refs[q]
  BY <1>t, <1>L
<1>1. ASSUME NEW p \in Proxies, NEW h \in Hosts, h \in d.refs[p]
      PROVE  h \in c.refs[p] /\ h \notin L
  <2>1. h \in c.refs[p] /\ (d.state = "online" => p \in Online(d))
    BY <1>1
  <2>2. ASSUME h \in L PROVE FALSE
    <3>1. PICK q \in Proxies : q \notin Online(d) /\ h \in c.refs[q]
      BY <1>k, <2>2
    <3>2. PICK r \in c.map : r.host = h /\ r.proxy = p
      BY <2>1 DEF Listed
    <3>3. PICK s \in c.map : s.host = h /\ s.proxy = q
      BY <3>1 DEF Listed
    <3>4. p # q
      BY <1>k, <2>1, <2>2, <3>1
    <3> QED  BY <3>2, <3>3, <3>4
  <2> QED  BY <2>1, <2>2
<1>2. \A p \in Proxies, h \in Hosts : h \in c.refs[p] => h \in d.refs[p] \/ h \in L
  BY <1>L
<1>3. \A h \in L : h \in Hosts /\ h \in c.hosts /\ d.updates[h] = NoProxy
  BY <1>k, <1>u DEF Listed
<1>4. \A h \in Hosts : h \notin L => d.updates[h] = c.updates[h]
  BY <1>u
<1>5. \A h \in Hosts : h \in d.unassigned <=> h \in c.unassigned \/ h \in L
  BY <1>u
<1>a. \A p \in Proxies : \A h \in d.refs[p] :
          /\ \E r \in d.map : r.host = h /\ r.proxy = p
          /\ h \in d.hosts /\ h \notin d.unassigned /\ d.updates[h] \in {Keep, p}
  BY <1>t, <1>1, <1>4, <1>5 DEF Listed
<1>b. \A h \in d.hosts :
          h \in d.unassigned \/ d.updates[h] \in Proxies \/ \E p \in Proxies : h \in d.refs[p]
  BY <1>t, <1>2, <1>4, <1>5 DEF Listed
<1>c. \A h \in d.unassigned : h \in d.hosts /\ d.updates[h] \notin Proxies
  <2>1. ASSUME NEW h \in L PROVE h \in d.hosts /\ d.updates[h] \notin Proxies
    BY <1>3, <2>1, Bounds
  <2>2. ASSUME NEW h \in c.unassigned, h \notin L PROVE h \in d.hosts /\ d.updates[h] \notin Proxies
    BY <1>t, <1>4, <2>2 DEF Listed
  <2> QED  BY <1>u, <2>1, <2>2
<1>d. \A h \in Hosts : d.updates[h] \in Proxies => h \in d.refs[d.updates[h]]
  BY <1>2, <1>3, <1>4, Bounds DEF Kind
<1>e. ASSUME NEW h \in Hosts, d.updates[h] \in Proxies
      PROVE  /\ h \in d.hosts
             /\ d.state = "online" => d.updates[h] \in Online(d)
             /\ \A p \in Proxies : h \in d.refs[p] => d.updates[h] = p
  <2>1. h \in d.refs[d.updates[h]]  BY <1>d, <1>e
  <2>2. \A p \in Proxies : h \in d.refs[p] => d.updates[h] \in {Keep, p}
    BY <1>a
  <2> QED  BY <1>a, <1>e, <2>1, <2>2, Bounds
<1>f. \A r \in d.map : r.host \in d.refs[r.proxy] \/ d.updates[r.host] # Keep
  <2> SUFFICES ASSUME NEW r \in d.map, r.host \notin d.refs[r.proxy], d.updates[r.host] = Keep
               PROVE  FALSE
    OBVIOUS
  <2>1. r.host \in Hosts /\ r.proxy \in Proxies  BY <1>t DEF RowType
  <2>2. r.host \notin L  BY <1>3, Bounds
  <2> QED  BY <1>2, <1>4, <2>1, <2>2 DEF Listed
<1>g. d.state = "online" => \A p \in Proxies \ Online(d) : d.refs[p] = {}
  OBVIOUS
<1>h. d.state = "online" /\ d.unassigned # {} => d.queued
  <2> SUFFICES ASSUME d.state = "online", c.state = "online", d.pstate = c.pstate, ~c.queued
               PROVE  d.unassigned = {}
    OBVIOUS
  <2>1. Online(d) = Online(c)  BY DEF Online
  <2>2. L = {}  BY <1>L, <2>1 DEF Listed
  <2> QED  BY <1>u, <2>2 DEF Kind
<1>i. Listed(d)
  BY <1>a, <1>b, <1>c, <1>e, <1>f, <1>g DEF Listed
<1> QED  BY <1>d, <1>h, <1>i DEF Kind

\* What pgm_update does to the cache.
LEMMA UpdateCache ==
    ASSUME NEW c \in CacheType(GroupStates), NEW age \in [Proxies -> 0..Delay],
           \A r, s \in c.map : r.host = s.host => r = s,
           NEW d, d = UpdateGroupState(UpdateProxyState(Aged(c), age), age)
    PROVE  /\ d \in CacheType(GroupStates)
           /\ d.map = c.map /\ d.last = c.last /\ d.shown = c.shown /\ d.hosts = c.hosts
           /\ d.deleted = c.deleted /\ d.synced = c.synced
           /\ \A h \in Hosts : c.updates[h] = NoProxy => d.updates[h] = NoProxy
           /\ \A h \in Hosts : c.updates[h] # Keep => d.updates[h] # Keep
           /\ Listed(c) /\ Kind(c) => Listed(d) /\ Kind(d)
<1>1. PICK u \in 0..Delay, si \in 0..Delay + 1, w \in Never..Wait, a \in [Proxies -> Never..Delay] :
         Aged(c) = [c EXCEPT !.uptime = u, !.since = si, !.alive = a, !.wait = w]
  BY AgedTypes
<1>2. Aged(c) \in CacheType(GroupStates)
  BY AgedTypes
<1> DEFINE b == Aged(c)
           e == UpdateProxyState(b, age)
<1>3. PICK al \in [Proxies -> Never..Delay], ps \in [Proxies -> {"unknown", "offline", "online"}],
         q \in BOOLEAN :
         e = [b EXCEPT !.alive = al, !.pstate = ps, !.queued = q] /\ (q <=> b.queued \/ ps # b.pstate)
  BY <1>2, ProxyStates, Zenon
<1>4. /\ e \in CacheType(GroupStates)
      /\ e.queued <=> c.queued \/ e.pstate # c.pstate
      /\ e.map = c.map /\ e.last = c.last /\ e.shown = c.shown /\ e.hosts = c.hosts
      /\ e.deleted = c.deleted /\ e.synced = c.synced
      /\ e.refs = c.refs /\ e.unassigned = c.unassigned /\ e.updates = c.updates
      /\ e.state = c.state
  <2>1. /\ b.queued = c.queued /\ b.pstate = c.pstate
        /\ b.map = c.map /\ b.last = c.last /\ b.shown = c.shown /\ b.hosts = c.hosts
        /\ b.deleted = c.deleted /\ b.synced = c.synced
        /\ b.refs = c.refs /\ b.unassigned = c.unassigned /\ b.updates = c.updates
        /\ b.state = c.state
    BY <1>1 DEF CacheType
  <2> HIDE DEF b, e
  <2>2. e \in CacheType(GroupStates)
    BY <1>2, <1>3 DEF CacheType, b
  <2>3. /\ e.queued = q /\ e.pstate = ps
        /\ e.map = b.map /\ e.last = b.last /\ e.shown = b.shown /\ e.hosts = b.hosts
        /\ e.deleted = b.deleted /\ e.synced = b.synced
        /\ e.refs = b.refs /\ e.unassigned = b.unassigned /\ e.updates = b.updates
        /\ e.state = b.state
    BY <1>2, <1>3 DEF CacheType, b
  <2> QED  BY <1>3, <2>1, <2>2, <2>3
<1> HIDE DEF b, e
<1>5. e \in CacheType(GroupStates \cup {"unknown"})
  BY <1>4 DEF CacheType
<1>6. PICK g \in CacheType(GroupStates) :
         /\ g = [e EXCEPT !.state = g.state, !.since = g.since, !.queued = g.queued]
         /\ g.queued <=> e.queued \/ (g.state = "online" /\ g.state # e.state)
         /\ UpdateGroupState(e, age) = IF g.state = "online" THEN ClearOfflineProxies(g) ELSE g
  <2>1. \E g \in CacheType(GroupStates) :
           /\ g = [e EXCEPT !.state = g.state, !.since = g.since, !.queued = g.queued]
           /\ g.state = NextGroupState(e, age)
           /\ g.queued <=> e.queued \/ (g.state = "online" /\ g.state # e.state)
           /\ UpdateGroupState(e, age) =
                 IF g.state = "online" THEN ClearOfflineProxies(g) ELSE g
    BY <1>5, GroupState, Zenon
  <2> QED  BY <2>1, Zenon
<1>7. /\ g.map = c.map /\ g.last = c.last /\ g.shown = c.shown /\ g.hosts = c.hosts
      /\ g.deleted = c.deleted /\ g.synced = c.synced
      /\ g.refs = c.refs /\ g.unassigned = c.unassigned /\ g.updates = c.updates
      /\ g.pstate = e.pstate
  BY <1>4, <1>6 DEF CacheType
<1>8. d = IF g.state = "online" THEN ClearOfflineProxies(g) ELSE g
  BY <1>6 DEF e, b
<1> DEFINE L == Loses(c, d)
<1>L. L = IF d.state = "online" THEN UNION {c.refs[p] : p \in Proxies \ Online(d)} ELSE {}
  BY DEF Loses
<1> HIDE DEF L
<1>9. /\ d \in CacheType(GroupStates)
      /\ d.state = g.state /\ d.pstate = g.pstate /\ d.queued = g.queued
      /\ d.map = g.map /\ d.last = g.last /\ d.shown = g.shown /\ d.hosts = g.hosts
      /\ d.deleted = g.deleted /\ d.synced = g.synced
      /\ d.unassigned = c.unassigned \cup L
      /\ \A h \in Hosts : d.updates[h] = IF h \in L THEN NoProxy ELSE c.updates[h]
      /\ \A p \in Proxies : d.refs[p] = IF d.state = "online" /\ p \notin Online(d) THEN {}
                                        ELSE c.refs[p]
  <2>1. CASE g.state # "online"
    <3>1. d = g /\ L = {}
      BY <1>8, <1>L, <2>1
    <3> QED  BY <1>7, <2>1, <3>1
  <2>2. CASE g.state = "online"
    <3>1. d = ClearOfflineProxies(g)
      BY <1>8, <2>2
    <3>2. g \in CacheType(GroupStates)
      OBVIOUS
    <3>3. /\ d \in CacheType(GroupStates)
          /\ d.state = g.state /\ d.pstate = g.pstate /\ d.queued = g.queued
          /\ d.map = g.map /\ d.last = g.last /\ d.shown = g.shown /\ d.hosts = g.hosts
          /\ d.deleted = g.deleted /\ d.synced = g.synced
          /\ d.unassigned = g.unassigned \cup Lost(g)
          /\ \A h \in Hosts : d.updates[h] = IF h \in Lost(g) THEN NoProxy ELSE g.updates[h]
          /\ \A p \in Proxies : d.refs[p] = IF p \in Online(g) THEN g.refs[p] ELSE {}
      BY <3>1, <3>2, Cleared
    <3>4. Online(d) = Online(g)
      BY <3>3 DEF Online
    <3>5. L = Lost(g)
      BY <1>7, <1>L, <2>2, <3>3, <3>4 DEF Lost
    <3> QED  BY <1>7, <2>2, <3>3, <3>4, <3>5
  <2> QED  BY <2>1, <2>2
<1>10. /\ c.queued => d.queued
       /\ d.pstate # c.pstate => d.queued
       /\ d.state = "online" /\ c.state # "online" => d.queued
  <2> QED  BY <1>4, <1>6, <1>7, <1>9
<1>11. Listed(c) /\ Kind(c) => Listed(d) /\ Kind(d)
  <2>2. d.map = c.map /\ d.hosts = c.hosts  BY <1>7, <1>9
  <2>3. ASSUME Listed(c), Kind(c) PROVE Listed(d) /\ Kind(d)
    <3>1. d \in CacheType(GroupStates)
      BY <1>9
    <3>2. /\ \A p \in Proxies : d.refs[p] = IF d.state = "online" /\ p \notin Online(d) THEN {}
                                            ELSE c.refs[p]
          /\ d.unassigned = c.unassigned \cup Loses(c, d)
          /\ \A h \in Hosts : d.updates[h] = IF h \in Loses(c, d) THEN NoProxy ELSE c.updates[h]
      BY <1>9 DEF L
    <3>3. \A r, s \in c.map : r.host = s.host => r = s
      OBVIOUS
    <3>4. c \in CacheType(GroupStates)
      OBVIOUS
    <3> QED  BY <1>10, <2>2, <2>3, <3>1, <3>2, <3>3, <3>4, Refreshed
  <2> QED  BY <2>3
<1>12. \A h \in Hosts : c.updates[h] # Keep => d.updates[h] # Keep
  BY <1>9, Bounds
<1> QED
  <2> QED  BY <1>7, <1>9, <1>11, <1>12

----------------------------------------------------------------------------
(* Giving hosts to proxies. *)

\* What rebalancing leaves alone.
Same(c, d) ==
    /\ d \in CacheType(GroupStates)
    /\ d.state = c.state /\ d.pstate = c.pstate /\ d.map = c.map /\ d.last = c.last
    /\ d.shown = c.shown /\ d.hosts = c.hosts
    /\ d.deleted = c.deleted /\ d.synced = c.synced
    /\ \A h \in Hosts : c.updates[h] # Keep => d.updates[h] # Keep

\* pg_cache_group_distribute_hosts gives every waiting host to a proxy that is online.
LEMMA Distributed ==
    ASSUME NEW c \in CacheType(GroupStates), NEW order, NEW d \in Distribute(c, order)
    PROVE  /\ Same(c, d) /\ d.unassigned = {} /\ d.refs = c.refs
           /\ \A h \in Hosts : IF h \in c.unassigned THEN d.updates[h] \in Online(c)
                               ELSE d.updates[h] = c.updates[h]
<1>1. PICK f \in [c.unassigned -> Online(c)] :
         d = [c EXCEPT !.updates = [h \in Hosts |-> IF h \in c.unassigned THEN f[h] ELSE @[h]],
                       !.unassigned = {}]
  BY DEF Distribute
<1> DEFINE up == [h \in Hosts |-> IF h \in c.unassigned THEN f[h] ELSE c.updates[h]]
<1>2. d = [c EXCEPT !.updates = up, !.unassigned = {}]
  BY <1>1
<1>3. up \in [Hosts -> Proxies \cup {NoProxy, Keep}]
  BY DEF CacheType, Online
<1>4. \A h \in Hosts : up[h] = IF h \in c.unassigned THEN f[h] ELSE c.updates[h]
  OBVIOUS
<1> HIDE DEF up
<1>5. /\ d \in CacheType(GroupStates)
      /\ d.state = c.state /\ d.pstate = c.pstate /\ d.map = c.map /\ d.last = c.last
      /\ d.shown = c.shown /\ d.hosts = c.hosts /\ d.updates = up /\ d.unassigned = {}
      /\ d.deleted = c.deleted /\ d.synced = c.synced
      /\ d.refs = c.refs
  BY <1>2, <1>3 DEF CacheType
<1>6. \A h \in c.unassigned : h \in Hosts /\ f[h] \in Online(c) /\ f[h] # Keep
  BY Bounds DEF CacheType, Online
<1>7. \A h \in Hosts : c.updates[h] # Keep => d.updates[h] # Keep
  BY <1>4, <1>5, <1>6
<1>8. \A h \in Hosts : IF h \in c.unassigned THEN d.updates[h] \in Online(c)
                       ELSE d.updates[h] = c.updates[h]
  BY <1>4, <1>5, <1>6
<1> QED  BY <1>5, <1>7, <1>8 DEF Same

LEMMA DistributedListed ==
    ASSUME NEW c \in CacheType(GroupStates), NEW order, NEW d \in Distribute(c, order),
           Listed(c)
    PROVE  Listed(d)
<1>1. /\ Same(c, d) /\ d.unassigned = {} /\ d.refs = c.refs
      /\ \A h \in Hosts : IF h \in c.unassigned THEN d.updates[h] \in Online(c)
                          ELSE d.updates[h] = c.updates[h]
  BY Distributed
<1>2. Online(d) = Online(c) /\ Online(c) \in SUBSET Proxies
  BY <1>1 DEF Online, Same
<1>t. /\ c.refs \in [Proxies -> SUBSET Hosts] /\ c.hosts \in SUBSET Hosts
      /\ c.unassigned \in SUBSET Hosts /\ c.map \in SUBSET RowType
      /\ d.hosts = c.hosts /\ d.map = c.map /\ d.state = c.state
  BY <1>1 DEF CacheType, Same
<1>a. \A p \in Proxies : \A h \in d.refs[p] :
          /\ \E r \in d.map : r.host = h /\ r.proxy = p
          /\ h \in d.hosts /\ h \notin d.unassigned /\ d.updates[h] \in {Keep, p}
  BY <1>1, <1>t DEF Listed
<1>b. \A h \in d.hosts :
          h \in d.unassigned \/ d.updates[h] \in Proxies \/ \E p \in Proxies : h \in d.refs[p]
  BY <1>1, <1>2, <1>t DEF Listed
<1>c. ASSUME NEW h \in Hosts, d.updates[h] \in Proxies
      PROVE  /\ h \in d.hosts
             /\ d.state = "online" => d.updates[h] \in Online(d)
             /\ \A p \in Proxies : h \in d.refs[p] => d.updates[h] = p
  <2>1. CASE h \in c.unassigned
    BY <1>1, <1>2, <1>t, <2>1 DEF Listed
  <2>2. CASE h \notin c.unassigned
    BY <1>1, <1>2, <1>t, <1>c, <2>2 DEF Listed
  <2> QED  BY <2>1, <2>2
<1>d. \A r \in d.map : r.host \in d.refs[r.proxy] \/ d.updates[r.host] # Keep
  <2> SUFFICES ASSUME NEW r \in c.map, r.host \notin c.refs[r.proxy] PROVE d.updates[r.host] # Keep
    BY <1>1, <1>t
  <2>1. r.host \in Hosts  BY <1>t DEF RowType
  <2> QED  BY <1>1, <1>2, <2>1, Bounds DEF Listed
<1>e. d.state = "online" => \A p \in Proxies \ Online(d) : d.refs[p] = {}
  BY <1>1, <1>2, <1>t DEF Listed
<1> QED  BY <1>1, <1>a, <1>b, <1>c, <1>d, <1>e DEF Listed

\* pg_cache_proxy_unassign_host.
LEMMA Unassigned ==
    ASSUME NEW c \in CacheType(GroupStates), NEW T \in SUBSET UNION {c.refs[p] : p \in Proxies}
    PROVE  LET d == Unassign(c, T)
           IN  /\ Same(c, d) /\ d.unassigned = c.unassigned \cup T
               /\ \A h \in Hosts : d.updates[h] = IF h \in T THEN NoProxy ELSE c.updates[h]
               /\ \A p \in Proxies : d.refs[p] = c.refs[p] \ T
<1> DEFINE un == c.unassigned \cup T
           up == [h \in Hosts |-> IF h \in T THEN NoProxy ELSE c.updates[h]]
           rf == [p \in Proxies |-> c.refs[p] \ T]
           d == Unassign(c, T)
<1>1. un \in SUBSET Hosts
  BY DEF CacheType
<1>2. up \in [Hosts -> Proxies \cup {NoProxy, Keep}]
  BY DEF CacheType
<1>3. rf \in [Proxies -> SUBSET Hosts]
  BY DEF CacheType
<1>4. d = [c EXCEPT !.unassigned = un, !.updates = up, !.refs = rf]
  BY DEF Unassign
<1>5. /\ \A h \in Hosts : up[h] = IF h \in T THEN NoProxy ELSE c.updates[h]
      /\ \A p \in Proxies : rf[p] = c.refs[p] \ T
      /\ un = c.unassigned \cup T
  OBVIOUS
<1> HIDE DEF un, up, rf, d
<1>6. /\ d \in CacheType(GroupStates)
      /\ d.state = c.state /\ d.pstate = c.pstate /\ d.map = c.map /\ d.last = c.last
      /\ d.shown = c.shown /\ d.hosts = c.hosts /\ d.updates = up /\ d.unassigned = un
      /\ d.deleted = c.deleted /\ d.synced = c.synced
      /\ d.refs = rf
  BY <1>1, <1>2, <1>3, <1>4 DEF CacheType
<1>7. \A h \in Hosts : c.updates[h] # Keep => d.updates[h] # Keep
  BY <1>5, <1>6, Bounds
<1> QED  BY <1>5, <1>6, <1>7 DEF d, Same

LEMMA UnassignedListed ==
    ASSUME NEW c \in CacheType(GroupStates), NEW T \in SUBSET UNION {c.refs[p] : p \in Proxies},
           Listed(c)
    PROVE  Listed(Unassign(c, T))
<1> DEFINE d == Unassign(c, T)
<1>1. /\ Same(c, d) /\ d.unassigned = c.unassigned \cup T
      /\ \A h \in Hosts : d.updates[h] = IF h \in T THEN NoProxy ELSE c.updates[h]
      /\ \A p \in Proxies : d.refs[p] = c.refs[p] \ T
  BY Unassigned
<1> HIDE DEF d
<1>2. Online(d) = Online(c)
  BY <1>1 DEF Online, Same
<1>t. /\ c.refs \in [Proxies -> SUBSET Hosts] /\ c.hosts \in SUBSET Hosts
      /\ c.unassigned \in SUBSET Hosts /\ c.map \in SUBSET RowType
      /\ d.hosts = c.hosts /\ d.map = c.map /\ d.state = c.state
  BY <1>1 DEF CacheType, Same
<1>3. \A h \in T : h \in Hosts /\ \E p \in Proxies : h \in c.refs[p]
  BY <1>t
<1>a. \A p \in Proxies : \A h \in d.refs[p] :
          /\ \E r \in d.map : r.host = h /\ r.proxy = p
          /\ h \in d.hosts /\ h \notin d.unassigned /\ d.updates[h] \in {Keep, p}
  BY <1>1, <1>t DEF Listed
<1>b. \A h \in d.hosts :
          h \in d.unassigned \/ d.updates[h] \in Proxies \/ \E p \in Proxies : h \in d.refs[p]
  BY <1>1, <1>t DEF Listed
<1>c. \A h \in d.unassigned : h \in d.hosts /\ d.updates[h] \notin Proxies
  <2>1. ASSUME NEW h \in T PROVE h \in d.hosts /\ d.updates[h] \notin Proxies
    BY <1>1, <1>t, <1>3, Bounds DEF Listed
  <2>2. ASSUME NEW h \in c.unassigned, h \notin T PROVE h \in d.hosts /\ d.updates[h] \notin Proxies
    BY <1>1, <1>t, <2>2 DEF Listed
  <2> QED  BY <1>1, <2>1, <2>2
<1>d. ASSUME NEW h \in Hosts, d.updates[h] \in Proxies
      PROVE  /\ h \in d.hosts
             /\ d.state = "online" => d.updates[h] \in Online(d)
             /\ \A p \in Proxies : h \in d.refs[p] => d.updates[h] = p
  <2>1. h \notin T /\ d.updates[h] = c.updates[h]  BY <1>1, <1>d, Bounds
  <2> QED  BY <1>1, <1>2, <1>t, <1>d, <2>1 DEF Listed
<1>e. \A r \in d.map : r.host \in d.refs[r.proxy] \/ d.updates[r.host] # Keep
  <2> SUFFICES ASSUME NEW r \in c.map PROVE r.host \in d.refs[r.proxy] \/ d.updates[r.host] # Keep
    BY <1>t
  <2>1. r.host \in Hosts /\ r.proxy \in Proxies  BY <1>t DEF RowType
  <2> QED  BY <1>1, <2>1, Bounds DEF Listed
<1>f. d.state = "online" => \A p \in Proxies \ Online(d) : d.refs[p] = {}
  BY <1>1, <1>2, <1>t DEF Listed
<1>g. Listed(d)
  BY <1>a, <1>b, <1>c, <1>d, <1>e, <1>f DEF Listed
<1> QED  BY <1>g DEF d

\* Every set of hosts that is taken from proxies is a set of theirs.
LEMMA ExcessListed ==
    ASSUME NEW c, NEW T \in Excess(c)
    PROVE  T \in SUBSET UNION {c.refs[p] : p \in Proxies}
BY DEF Excess, Online

\* What pg_cache_reassign_hosts does in a group with a proxy that is online.
LEMMA Reassigned ==
    ASSUME NEW c \in CacheType(GroupStates), NEW d \in ReassignHosts(c)
    PROVE  /\ Same(c, d) /\ (Listed(c) => Listed(d))
           /\ d.unassigned = {} \/ d.unbalanced = c.unbalanced
<1>1. CASE d = c
  BY <1>1 DEF Same
<1>2. CASE c.unassigned # {} /\ d \in DistributeUnassigned(c)
  <2>1. PICK order : d \in Distribute(c, order)
    BY <1>2 DEF DistributeUnassigned
  <2> QED  BY <2>1, Distributed, DistributedListed
<1>3. CASE \E least : \E T \in Excess(c) : \E e \in Spread(Unassign(c, T), least) :
              d = [e EXCEPT !.wait = Never, !.unbalanced = FALSE]
  <2>0. PICK least : \E T \in Excess(c) : \E e \in Spread(Unassign(c, T), least) :
           d = [e EXCEPT !.wait = Never, !.unbalanced = FALSE]
    BY <1>3
  <2>t. PICK T \in Excess(c) : \E e \in Spread(Unassign(c, T), least) :
           d = [e EXCEPT !.wait = Never, !.unbalanced = FALSE]
    BY <2>0
  <2>1. PICK e \in Spread(Unassign(c, T), least) :
           d = [e EXCEPT !.wait = Never, !.unbalanced = FALSE]
    BY <2>t
  <2> DEFINE b == Unassign(c, T)
  <2>2. PICK order : e \in Distribute(b, order)
    BY <2>1 DEF Spread
  <2>3. T \in SUBSET UNION {c.refs[p] : p \in Proxies}
    BY ExcessListed
  <2>4. Same(c, b) /\ (Listed(c) => Listed(b))
    BY <2>3, Unassigned, UnassignedListed
  <2>5. b \in CacheType(GroupStates)
    BY <2>4 DEF Same
  <2> HIDE DEF b
  <2>6. Same(b, e) /\ e.unassigned = {} /\ (Listed(b) => Listed(e))
    BY <2>2, <2>5, Distributed, DistributedListed
  <2>7. /\ d \in CacheType(GroupStates)
        /\ d.state = e.state /\ d.pstate = e.pstate /\ d.map = e.map /\ d.last = e.last
        /\ d.shown = e.shown /\ d.hosts = e.hosts /\ d.unassigned = e.unassigned
        /\ d.deleted = e.deleted /\ d.synced = e.synced
        /\ d.updates = e.updates /\ d.refs = e.refs
    <3>1. e \in CacheType(GroupStates)  BY <2>6 DEF Same
    <3>2. Never \in Never..Wait  BY Bounds DEF Never
    <3> QED  BY <2>1, <3>1, <3>2 DEF CacheType
  <2>8. Listed(e) => Listed(d)
    BY <2>7 DEF Listed, Online
  <2> QED  BY <2>4, <2>6, <2>7, <2>8 DEF Same
<1> DEFINE least == IF HostsNum(c) > Cardinality(Online(c))
                    THEN HostsNum(c) \div Cardinality(Online(c)) ELSE 1
           done(e) == [e EXCEPT !.wait = Never, !.unbalanced = FALSE]
<1>4. \/ d \in {c}
      \/ c.unassigned # {} /\ d \in DistributeUnassigned(c)
      \/ d \in {done(e) : e \in UNION {Spread(Unassign(c, T), least) : T \in Excess(c)}}
  BY DEF ReassignHosts
<1>5. ASSUME d \in {done(e) : e \in UNION {Spread(Unassign(c, T), least) : T \in Excess(c)}}
      PROVE  \E l : \E T \in Excess(c) : \E e \in Spread(Unassign(c, T), l) : d = done(e)
  <2> HIDE DEF least, done
  <2>1. PICK e \in UNION {Spread(Unassign(c, T), least) : T \in Excess(c)} : d = done(e)
    BY <1>5
  <2>2. PICK T \in Excess(c) : e \in Spread(Unassign(c, T), least)
    OBVIOUS
  <2>3. \E f \in Spread(Unassign(c, T), least) : d = done(f)
    BY <2>1, <2>2
  <2> QED  BY <2>3
<1> QED  BY <1>1, <1>2, <1>3, <1>4, <1>5

\* What pg_cache_rebalance_groups does: the lists stay sound, and no host of
\* an online group goes on waiting unless the group will be looked at again.
LEMMA Rebalanced ==
    ASSUME NEW c \in CacheType(GroupStates), NEW d \in RebalanceGroup(c)
    PROVE  /\ Same(c, d) /\ (Listed(c) => Listed(d))
           /\ d.state = "online" /\ d.unassigned # {} => d.unbalanced
<1> DEFINE w == IF c.unassigned # {} THEN 0 ELSE c.wait
           e == [c EXCEPT !.unbalanced = TRUE, !.wait = w]
<1>1. w \in Never..Wait
  BY Bounds DEF CacheType, Never
<1>2. ASSUME NEW b, NEW u \in BOOLEAN, NEW v \in Never..Wait,
             b = [c EXCEPT !.unbalanced = u, !.wait = v]
      PROVE  Same(c, b) /\ (Listed(c) => Listed(b)) /\ b.unassigned = c.unassigned /\ b.unbalanced = u
  <2>1. /\ b \in CacheType(GroupStates)
        /\ b.state = c.state /\ b.pstate = c.pstate /\ b.map = c.map /\ b.last = c.last
        /\ b.shown = c.shown /\ b.hosts = c.hosts /\ b.unassigned = c.unassigned
        /\ b.deleted = c.deleted /\ b.synced = c.synced
        /\ b.updates = c.updates /\ b.refs = c.refs /\ b.unbalanced = u
    BY <1>2 DEF CacheType
  <2>2. Listed(c) => Listed(b)
    BY <2>1 DEF Listed, Online
  <2> QED  BY <2>1, <2>2 DEF Same
<1>3. CASE c.state # "online" /\ d = c
  BY <1>3 DEF Same
<1>4. CASE IsGroupBalanced(c) /\ d = [c EXCEPT !.wait = Never, !.unbalanced = FALSE]
  <2>1. d = [c EXCEPT !.unbalanced = FALSE, !.wait = Never]
    BY <1>4
  <2>2. c.unassigned = {}
    BY <1>4 DEF IsGroupBalanced
  <2>3. Never \in Never..Wait  BY Bounds DEF Never
  <2> QED  BY <1>2, <2>1, <2>2, <2>3
<1>5. CASE d = [e EXCEPT !.wait = Wait]
  <2>1. d = [c EXCEPT !.unbalanced = TRUE, !.wait = Wait]
    BY <1>5
  <2>2. Wait \in Never..Wait  BY Bounds DEF Never
  <2> QED  BY <1>2, <2>1, <2>2
<1>6. Same(c, e) /\ (Listed(c) => Listed(e)) /\ e.unbalanced = TRUE
  <2> HIDE DEF w
  <2> QED  BY <1>1, <1>2
<1>7. CASE d = e
  BY <1>6, <1>7
<1>8. CASE d \in ReassignHosts(e)
  <2>1. e \in CacheType(GroupStates)
    BY <1>6 DEF Same
  <2> HIDE DEF e
  <2>2. /\ Same(e, d) /\ (Listed(e) => Listed(d))
        /\ d.unassigned = {} \/ d.unbalanced = e.unbalanced
    BY <1>8, <2>1, Reassigned
  <2> QED  BY <1>6, <2>2 DEF Same
<1> QED
  <2>1. \/ c.state # "online" /\ d = c
        \/ IsGroupBalanced(c) /\ d = [c EXCEPT !.wait = Never, !.unbalanced = FALSE]
        \/ d = [e EXCEPT !.wait = Wait]
        \/ d = e
        \/ d \in ReassignHosts(e)
    BY DEF RebalanceGroup
  <2> QED  BY <1>3, <1>4, <1>5, <1>7, <1>8, <2>1

----------------------------------------------------------------------------
(* The new map. *)

\* SetToSeq lists a finite set without repetition.
LEMMA ToSeq ==
    ASSUME NEW S, IsFiniteSet(S)
    PROVE  /\ Cardinality(S) \in Nat
           /\ SetToSeq(S) \in [1..Cardinality(S) -> S]
           /\ \A i, j \in 1..Cardinality(S) : SetToSeq(S)[i] = SetToSeq(S)[j] => i = j
           /\ \A x \in S : \E i \in 1..Cardinality(S) : SetToSeq(S)[i] = x
<1> DEFINE n == Cardinality(S)
           f == SetToSeq(S)
<1>1. n \in Nat /\ ExistsBijection(1..n, S)
  BY FS_CardinalityType
<1>2. \E g \in [1..n -> S] : IsInjective(g)
  BY <1>1 DEF ExistsBijection, Bijection, Injection
<1>3. f \in [1..n -> S] /\ IsInjective(f)
  BY <1>2 DEF SetToSeq
<1>4. f \in Injection(1..n, S)
  BY <1>3 DEF Injection
<1>5. Cardinality(1..n) = n
  BY <1>1, FS_Interval
<1>6. f \in Surjection(1..n, S)
  BY <1>4, <1>5, FS_Injection
<1>7. \A x \in S : \E i \in 1..n : f[i] = x
  BY <1>6 DEF Surjection
<1>8. \A i, j \in 1..n : f[i] = f[j] => i = j
  BY <1>3 DEF IsInjective
<1> QED  BY <1>1, <1>3, <1>7, <1>8

LEMMA RowOfHost ==
    ASSUME NEW S, NEW h \in HostsOf(S)
    PROVE  RowOf(S, h) \in S /\ RowOf(S, h).host = h
BY DEF RowOf, HostsOf

\* The rows that are changed or added by pg_cache_get_hostmap_updates and
\* pg_cache_add_new_hostmaps.
Listing(c, first) ==
    LET rev == IF Changed(c) = {} THEN c.last ELSE c.last + 1
        new == SetToSeq(Added(c))
    IN  {Row(h, RowOf(c.map, h).id, c.updates[h], rev) : h \in Modified(c)}
        \cup {Row(new[i], first + i, c.updates[new[i]], rev) : i \in DOMAIN new}

Given(c) == Modified(c) \cup Added(c)

LEMMA GivenHosts ==
    ASSUME NEW c \in CacheType(GroupStates)
    PROVE  /\ Given(c) = {h \in Hosts : c.updates[h] \in Proxies}
           /\ Removed(c) = {h \in Hosts : c.updates[h] = NoProxy}
           /\ Changed(c) = Given(c) \cup Removed(c)
           /\ Modified(c) = Given(c) \cap HostsOf(c.map)
           /\ Added(c) = Given(c) \ HostsOf(c.map)
           /\ IsFiniteSet(Added(c))
<1>1. \A h \in Hosts : c.updates[h] \in Proxies \cup {NoProxy, Keep}
  BY DEF CacheType
<1>2. Added(c) \in SUBSET Hosts
  BY DEF Added, Changed
<1>3. IsFiniteSet(Added(c))
  BY <1>2, Bounds, FS_Subset
<1> QED  BY <1>1, <1>3, Bounds DEF Given, Changed, Removed, Modified, Added

LEMMA ListingRows ==
    ASSUME NEW c \in CacheType(GroupStates), NEW first \in Nat
    PROVE  LET rev == IF Changed(c) = {} THEN c.last ELSE c.last + 1
               L == Listing(c, first)
           IN  /\ L \in SUBSET RowType
               /\ \A r \in L : /\ r.host \in Given(c) /\ r.proxy = c.updates[r.host] /\ r.rev = rev
                               /\ IF r.host \in HostsOf(c.map) THEN r.id = RowOf(c.map, r.host).id
                                  ELSE r.id \in first + 1..first + Cardinality(Added(c))
               /\ \A h \in Given(c) : \E r \in L : r.host = h
               /\ \A r, s \in L : r.host = s.host => r = s
               /\ \A r, s \in L : r.id = s.id /\ {r.host, s.host} \cap HostsOf(c.map) = {} => r = s
<1> DEFINE rev == IF Changed(c) = {} THEN c.last ELSE c.last + 1
           n == Cardinality(Added(c))
           new == SetToSeq(Added(c))
           L == Listing(c, first)
<1>1. /\ n \in Nat /\ new \in [1..n -> Added(c)]
      /\ \A i, j \in 1..n : new[i] = new[j] => i = j
      /\ \A x \in Added(c) : \E i \in 1..n : new[i] = x
  BY GivenHosts, ToSeq
<1>2. /\ rev \in Nat /\ c.map \in SUBSET RowType
  BY DEF CacheType
<1>3. L = {Row(h, RowOf(c.map, h).id, c.updates[h], rev) : h \in Modified(c)}
          \cup {Row(new[i], first + i, c.updates[new[i]], rev) : i \in 1..n}
  BY <1>1 DEF Listing
<1> HIDE DEF n, new, L, rev
<1>4. \A r \in L :
         \/ \E h \in Modified(c) : r = Row(h, RowOf(c.map, h).id, c.updates[h], rev)
         \/ \E i \in 1..n : r = Row(new[i], first + i, c.updates[new[i]], rev)
  BY <1>3
<1>5. /\ \A h \in Modified(c) : h \in HostsOf(c.map) /\ h \in Given(c) /\ h \in Hosts
      /\ \A h \in Added(c) : h \notin HostsOf(c.map) /\ h \in Given(c) /\ h \in Hosts
      /\ \A h \in Given(c) : c.updates[h] \in Proxies
  BY GivenHosts
<1>6. ASSUME NEW r \in L
      PROVE  /\ r \in RowType
             /\ r.host \in Given(c) /\ r.proxy = c.updates[r.host] /\ r.rev = rev
             /\ IF r.host \in HostsOf(c.map) THEN r.id = RowOf(c.map, r.host).id
                ELSE r.id \in first + 1..first + n
  <2>1. CASE \E h \in Modified(c) : r = Row(h, RowOf(c.map, h).id, c.updates[h], rev)
    <3>1. PICK h \in Modified(c) : r = Row(h, RowOf(c.map, h).id, c.updates[h], rev)
      BY <2>1
    <3>2. RowOf(c.map, h) \in c.map  BY <1>5, RowOfHost
    <3>3. RowOf(c.map, h).id \in Nat  BY <1>2, <3>2 DEF RowType
    <3> QED  BY <1>2, <1>5, <3>1, <3>3 DEF Row, RowType
  <2>2. CASE \E i \in 1..n : r = Row(new[i], first + i, c.updates[new[i]], rev)
    <3>1. PICK i \in 1..n : r = Row(new[i], first + i, c.updates[new[i]], rev)
      BY <2>2
    <3>2. new[i] \in Added(c)  BY <1>1
    <3>3. first + i \in Nat /\ first + i \in first + 1..first + n  BY <1>1
    <3> QED  BY <1>2, <1>5, <3>1, <3>2, <3>3 DEF Row, RowType
  <2> QED  BY <1>4, <2>1, <2>2
<1>7. ASSUME NEW h \in Given(c) PROVE \E r \in L : r.host = h
  <2>1. CASE h \in Modified(c)
    <3>1. Row(h, RowOf(c.map, h).id, c.updates[h], rev) \in L  BY <1>3, <2>1
    <3> QED  BY <3>1 DEF Row
  <2>2. CASE h \in Added(c)
    <3>1. PICK i \in 1..n : new[i] = h  BY <1>1, <2>2
    <3>2. Row(new[i], first + i, c.updates[new[i]], rev) \in L  BY <1>3
    <3> QED  BY <3>1, <3>2 DEF Row
  <2> QED  BY <2>1, <2>2 DEF Given
<1>8. ASSUME NEW r \in L, NEW s \in L, r.host = s.host PROVE r = s
  <2>1. CASE r.host \in HostsOf(c.map)
    <3>1. r.id = s.id /\ r.proxy = s.proxy /\ r.rev = s.rev  BY <1>6, <1>8, <2>1
    <3>2. r \in RowType /\ s \in RowType  BY <1>6
    <3> QED  BY <1>8, <3>1, <3>2 DEF RowType
  <2>2. CASE r.host \notin HostsOf(c.map)
    <3>1. /\ \A h \in Modified(c) : h \in HostsOf(c.map)
          /\ \A t \in L : t.host \notin HostsOf(c.map) =>
                \E i \in 1..n : t = Row(new[i], first + i, c.updates[new[i]], rev)
      BY <1>4, <1>5 DEF Row
    <3>2. PICK i \in 1..n : r = Row(new[i], first + i, c.updates[new[i]], rev)
      BY <2>2, <3>1
    <3>3. PICK j \in 1..n : s = Row(new[j], first + j, c.updates[new[j]], rev)
      BY <1>8, <2>2, <3>1
    <3>4. new[i] = new[j]  BY <1>8, <3>2, <3>3 DEF Row
    <3>5. i = j  BY <1>1, <3>4
    <3> QED  BY <3>2, <3>3, <3>5
  <2> QED  BY <2>1, <2>2
<1>9. L \in SUBSET RowType
  BY <1>6
<1>10. ASSUME NEW r \in L, NEW s \in L, r.id = s.id, {r.host, s.host} \cap HostsOf(c.map) = {}
       PROVE  r = s
  <2>1. \A h \in Modified(c) : h \in HostsOf(c.map)
    BY <1>5
  <2>2. \A t \in L : t.host \notin HostsOf(c.map) =>
           \E i \in 1..n : t = Row(new[i], first + i, c.updates[new[i]], rev)
    BY <1>4, <2>1 DEF Row
  <2>3. r.host \notin HostsOf(c.map) /\ s.host \notin HostsOf(c.map)
    BY <1>10
  <2>4. PICK i \in 1..n : r = Row(new[i], first + i, c.updates[new[i]], rev)
    BY <2>2, <2>3
  <2>5. PICK j \in 1..n : s = Row(new[j], first + j, c.updates[new[j]], rev)
    BY <2>2, <2>3
  <2>6. first + i = first + j  BY <1>10, <2>4, <2>5 DEF Row
  <2>7. i = j  BY <1>1, <2>6
  <2> QED  BY <2>4, <2>5, <2>7
<1> QED  BY <1>6, <1>7, <1>8, <1>9, <1>10 DEF n, L, rev

\* What the two functions do to the cache.
Gone(c) == {[id |-> r.id, rev |-> IF Changed(c) = {} THEN c.last ELSE c.last + 1] :
               r \in {s \in c.map : s.host \in Removed(c)}}

LEMMA HostmapUpdates ==
    ASSUME NEW c \in CacheType(GroupStates), NEW first \in Nat
    PROVE  LET d == GetHostmapUpdates(c, first)
           IN  /\ d \in CacheType(GroupStates)
               /\ d.state = c.state /\ d.pstate = c.pstate /\ d.shown = c.shown
               /\ d.hosts = c.hosts /\ d.unassigned = c.unassigned
               /\ d.last = IF Changed(c) = {} THEN c.last ELSE c.last + 1
               /\ d.map = {r \in c.map : r.host \notin Changed(c)} \cup Listing(c, first)
               /\ \A p \in Proxies : d.refs[p] = c.refs[p] \cup {h \in Given(c) : c.updates[h] = p}
               /\ \A h \in Hosts : d.updates[h] = Keep
               /\ d.queued = StaysQueued(c)
               /\ d.synced = c.synced
               /\ \A p \in Proxies : d.deleted[p] = c.deleted[p] \cup
                     {g \in Gone(c) : c.synced[p]}
<1> DEFINE L == Listing(c, first)
           d == GetHostmapUpdates(c, first)
           rev == IF Changed(c) = {} THEN c.last ELSE c.last + 1
           gone == {[id |-> r.id, rev |-> rev] : r \in {s \in c.map : s.host \in Removed(c)}}
           map == {r \in c.map : r.host \notin Changed(c)} \cup L
           rf == [p \in Proxies |-> c.refs[p] \cup HostsOf({r \in L : r.proxy = p})]
           dl == [p \in Proxies |-> IF c.synced[p] THEN c.deleted[p] \cup gone ELSE c.deleted[p]]
           up == [h \in Hosts |-> Keep]
           qu == StaysQueued(c)
<1>1. d = [c EXCEPT !.last = rev, !.map = map, !.refs = rf, !.deleted = dl, !.updates = up,
                    !.queued = qu]
  BY DEF GetHostmapUpdates, Listing
<1>2. /\ L \in SUBSET RowType
      /\ \A r \in L : r.host \in Given(c) /\ r.proxy = c.updates[r.host]
      /\ \A h \in Given(c) : \E r \in L : r.host = h
  BY ListingRows
<1>3. rev \in Nat /\ c.map \in SUBSET RowType /\ qu \in BOOLEAN
  BY DEF CacheType, StaysQueued
<1>4. map \in SUBSET RowType
  <2> HIDE DEF L
  <2> QED  BY <1>2, <1>3
<1>5. gone \in SUBSET [id : Nat, rev : Nat]
  <2> HIDE DEF rev
  <2> QED  BY <1>3 DEF RowType
<1>6. dl \in [Proxies -> SUBSET [id : Nat, rev : Nat]]
  <2> HIDE DEF gone
  <2> QED  BY <1>5 DEF CacheType
<1>7. \A p \in Proxies : HostsOf({r \in L : r.proxy = p}) = {h \in Given(c) : c.updates[h] = p}
  <2> SUFFICES ASSUME NEW p \in Proxies
               PROVE  HostsOf({r \in L : r.proxy = p}) = {h \in Given(c) : c.updates[h] = p}
    OBVIOUS
  <2> HIDE DEF L
  <2>1. ASSUME NEW h \in HostsOf({r \in L : r.proxy = p}) PROVE h \in Given(c) /\ c.updates[h] = p
    BY <1>2 DEF HostsOf
  <2>2. ASSUME NEW h \in Given(c), c.updates[h] = p PROVE h \in HostsOf({r \in L : r.proxy = p})
    BY <1>2, <2>2 DEF HostsOf
  <2> QED  BY <2>1, <2>2
<1>8. rf \in [Proxies -> SUBSET Hosts]
  <2>1. Given(c) \in SUBSET Hosts  BY GivenHosts
  <2> HIDE DEF L
  <2> QED  BY <1>7, <2>1 DEF CacheType
<1>9. up \in [Hosts -> Proxies \cup {NoProxy, Keep}]
  OBVIOUS
<1>10. /\ \A p \in Proxies : rf[p] = c.refs[p] \cup HostsOf({r \in L : r.proxy = p})
       /\ \A h \in Hosts : up[h] = Keep
  OBVIOUS
<1>11. /\ rev = IF Changed(c) = {} THEN c.last ELSE c.last + 1
       /\ map = {r \in c.map : r.host \notin Changed(c)} \cup L
  OBVIOUS
<1>d. \A p \in Proxies : dl[p] = c.deleted[p] \cup {g \in Gone(c) : c.synced[p]}
  <2>1. gone = Gone(c)  BY DEF Gone
  <2> HIDE DEF gone
  <2> QED  BY <2>1 DEF CacheType
<1> HIDE DEF rev, map, rf, dl, up, qu, d
<1>12. /\ d \in CacheType(GroupStates)
       /\ d.last = rev /\ d.map = map /\ d.refs = rf /\ d.updates = up /\ d.queued = qu
       /\ d.state = c.state /\ d.pstate = c.pstate /\ d.shown = c.shown
       /\ d.hosts = c.hosts /\ d.unassigned = c.unassigned
       /\ d.synced = c.synced /\ d.deleted = dl
  BY <1>1, <1>3, <1>4, <1>6, <1>8, <1>9 DEF CacheType
<1>13. /\ \A p \in Proxies : d.refs[p] = c.refs[p] \cup {h \in Given(c) : c.updates[h] = p}
       /\ \A h \in Hosts : d.updates[h] = Keep
  BY <1>7, <1>10, <1>12
<1> QED  BY <1>11, <1>12, <1>13, <1>d DEF d, qu

\* The lists are sound again, and no update is left.
LEMMA UpdatesListed ==
    ASSUME NEW c \in CacheType(GroupStates), NEW first \in Nat, Listed(c),
           \A r, s \in c.map : r.host = s.host => r = s,
           c.state = "online" /\ c.unassigned # {} => c.unbalanced
    PROVE  LET d == GetHostmapUpdates(c, first) IN Listed(d) /\ Kind(d)
<1> DEFINE d == GetHostmapUpdates(c, first)
           L == Listing(c, first)
<1>1. /\ d \in CacheType(GroupStates)
      /\ d.state = c.state /\ d.pstate = c.pstate
      /\ d.hosts = c.hosts /\ d.unassigned = c.unassigned
      /\ d.map = {r \in c.map : r.host \notin Changed(c)} \cup L
      /\ \A p \in Proxies : d.refs[p] = c.refs[p] \cup {h \in Given(c) : c.updates[h] = p}
      /\ \A h \in Hosts : d.updates[h] = Keep
      /\ d.queued = StaysQueued(c)
  BY HostmapUpdates
<1>2. /\ L \in SUBSET RowType
      /\ \A r \in L : r.host \in Given(c) /\ r.proxy = c.updates[r.host]
      /\ \A h \in Given(c) : \E r \in L : r.host = h
  BY ListingRows
<1>3. /\ Given(c) = {h \in Hosts : c.updates[h] \in Proxies}
      /\ Changed(c) = {h \in Hosts : c.updates[h] # Keep}
  BY GivenHosts DEF Changed
<1> HIDE DEF d, L
<1>4. Online(d) = Online(c)
  BY <1>1 DEF Online
<1>t. /\ c.refs \in [Proxies -> SUBSET Hosts] /\ c.hosts \in SUBSET Hosts
      /\ c.map \in SUBSET RowType
      /\ c.updates \in [Hosts -> Proxies \cup {NoProxy, Keep}]
  BY DEF CacheType
<1>a. ASSUME NEW p \in Proxies, NEW h \in d.refs[p]
      PROVE  /\ \E r \in d.map : r.host = h /\ r.proxy = p
             /\ h \in d.hosts /\ h \notin d.unassigned /\ d.updates[h] \in {Keep, p}
  <2>1. CASE h \in Given(c) /\ c.updates[h] = p
    <3>1. \E r \in L : r.host = h /\ r.proxy = p  BY <1>2, <2>1
    <3>2. h \in c.hosts /\ h \notin c.unassigned  BY <1>3, <2>1 DEF Listed
    <3> QED  BY <1>1, <1>3, <2>1, <3>1, <3>2
  <2>2. CASE h \in c.refs[p] /\ c.updates[h] = Keep
    <3>1. h \in Hosts /\ h \notin Changed(c)  BY <1>3, <1>t, <2>2
    <3>2. PICK r \in c.map : r.host = h /\ r.proxy = p  BY <2>2 DEF Listed
    <3> QED  BY <1>1, <2>2, <3>1, <3>2 DEF Listed
  <2>3. h \in c.refs[p] => c.updates[h] \in {Keep, p} /\ h \in Hosts
    BY <1>t DEF Listed
  <2> QED  BY <1>1, <1>3, <2>1, <2>2, <2>3
<1>b. \A h \in d.hosts :
          h \in d.unassigned \/ d.updates[h] \in Proxies \/ \E p \in Proxies : h \in d.refs[p]
  <2> SUFFICES ASSUME NEW h \in c.hosts, h \notin c.unassigned
               PROVE  \E p \in Proxies : h \in d.refs[p]
    BY <1>1
  <2>1. CASE c.updates[h] \in Proxies
    <3>1. h \in Given(c)  BY <1>3, <1>t, <2>1
    <3>2. h \in d.refs[c.updates[h]]  BY <1>1, <2>1, <3>1
    <3> QED  BY <2>1, <3>2
  <2>2. CASE c.updates[h] \notin Proxies
    BY <1>1, <2>2 DEF Listed
  <2> QED  BY <2>1, <2>2
<1>c. \A h \in Hosts : d.updates[h] \notin Proxies
  BY <1>1, Bounds
<1>d. \A h \in d.unassigned : h \in d.hosts /\ d.updates[h] \notin Proxies
  BY <1>1, <1>c, <1>t DEF Listed
<1>e. \A r \in d.map : r.host \in d.refs[r.proxy] \/ d.updates[r.host] # Keep
  <2> SUFFICES ASSUME NEW r \in d.map PROVE r.host \in d.refs[r.proxy]
    OBVIOUS
  <2>1. CASE r \in L
    <3>1. r.host \in Given(c) /\ r.proxy = c.updates[r.host] /\ r.proxy \in Proxies
      BY <1>2, <2>1 DEF RowType
    <3> QED  BY <1>1, <3>1
  <2>2. CASE r \in c.map /\ r.host \notin Changed(c)
    <3>1. r.host \in Hosts /\ r.proxy \in Proxies /\ c.updates[r.host] = Keep
      BY <1>3, <1>t, <2>2 DEF RowType
    <3> QED  BY <1>1, <2>2, <3>1 DEF Listed
  <2> QED  BY <1>1, <2>1, <2>2
<1>f. ASSUME d.state = "online", NEW p \in Proxies \ Online(d) PROVE d.refs[p] = {}
  <2>1. c.refs[p] = {}  BY <1>1, <1>4, <1>f DEF Listed
  <2>2. \A h \in Given(c) : c.updates[h] # p  BY <1>1, <1>3, <1>4, <1>f DEF Listed
  <2> QED  BY <1>1, <2>1, <2>2
<1>g. Listed(d)
  BY <1>a, <1>b, <1>c, <1>d, <1>e, <1>f DEF Listed
<1>h. Kind(d)
  BY <1>1, <1>c DEF Kind, StaysQueued
<1> QED  BY <1>g, <1>h DEF d

----------------------------------------------------------------------------
(* The start of a server. *)

\* The greatest of a set of numbers that is not empty and has a bound.
LEMMA GreatestBelow ==
    ASSUME NEW n \in Nat, NEW S \in SUBSET (0..n), S # {}
    PROVE  Max(S) \in S /\ \A x \in S : x <= Max(S)
<1> DEFINE D == {n - x : x \in S}
<1>1. D \in SUBSET Nat /\ D # {}
  <2>1. \A x \in S : x \in 0..n  OBVIOUS
  <2>2. \A x \in S : n - x \in Nat  BY <2>1
  <2>3. \E x \in S : n - x \in D  OBVIOUS
  <2>4. D \in SUBSET Nat  BY <2>2
  <2> QED  BY <2>3, <2>4
<1>2. PICK d \in D : \A e \in D : ~(<<e, d>> \in OpToRel(<, Nat))
  <2> HIDE DEF D
  <2> QED  BY <1>1, NatLessThanWellFounded, WFMin
<1>3. PICK x \in S : d = n - x
  OBVIOUS
<1>4. \A y \in S : n - y \in D
  OBVIOUS
<1> HIDE DEF D
<1>5. ASSUME NEW y \in S PROVE y <= x
  <2>1. n - y \in Nat /\ n - x \in Nat /\ y \in Nat /\ x \in Nat  OBVIOUS
  <2>2. ~(n - y < n - x)  BY <1>2, <1>3, <1>4, <2>1 DEF OpToRel
  <2> QED  BY <2>1, <2>2
<1>6. \E z \in S : \A y \in S : z >= y
  BY <1>5
<1>7. Max(S) \in S /\ \A y \in S : Max(S) >= y
  BY <1>6 DEF Max
<1>8. \A y \in S : y \in Nat
  OBVIOUS
<1> QED  BY <1>7, <1>8

\* A group that is online at once has no proxy that is not.
LEMMA FirstState ==
    ASSUME NEW c, c.state = "unknown", NEW age, NextGroupState(c, age) = "online"
    PROVE  Online(c) = Proxies
<1>1. Online(c) \in SUBSET Proxies
  BY DEF Online
<1>2. Cardinality(Proxies) = Cardinality(Online(c))
  BY Bounds DEF NextGroupState
<1> QED  BY <1>1, <1>2, Bounds, FS_Subset

LEMMA StartedCache ==
    ASSUME NEW age \in [Proxies -> 0..Delay],
           conf \in [Hosts -> [at : Places, name : Nat]],
           rows \in SUBSET RowType, ids \in [id : Nat, rev : Nat],
           \A r \in rows : r.rev <= ids.rev
    PROVE  LET c == Started(age)
               in == {h \in Hosts : conf[h].at = "in"}
           IN  /\ c \in CacheType(GroupStates)
               /\ c.map = {r \in rows : r.host \in in}
               /\ c.hosts = in /\ c.last = ids.rev /\ c.shown <= c.last
               /\ \A h \in Hosts : c.updates[h] = IF h \in HostsOf(rows) \ in THEN NoProxy ELSE Keep
               /\ \A r \in c.map : r.rev <= c.shown
               /\ \A p \in Proxies : c.deleted[p] = {}
               /\ Listed(c) /\ Kind(c)
<1> DEFINE empty == [state |-> "unknown", since |-> 0, uptime |-> 0, queued |-> TRUE,
                  hosts |-> {}, unassigned |-> {}, shown |-> 0, wait |-> Never,
                  unbalanced |-> FALSE, map |-> {}, last |-> ids.rev,
                  updates |-> [h \in Hosts |-> Keep],
                  pstate |-> [p \in Proxies |-> "unknown"],
                  alive |-> [p \in Proxies |-> Never],
                  refs |-> [p \in Proxies |-> {}],
                  synced |-> [p \in Proxies |-> FALSE],
                  deleted |-> [p \in Proxies |-> {}]]
           e == UpdateProxyState(empty, age)
           b == UpdateGroupState(e, age)
           in == {h \in Hosts : conf[h].at = "in"}
           map == {r \in rows : r.host \in in}
           un == in \ HostsOf(map)
           up == [h \in Hosts |-> IF h \in HostsOf(rows) \ in THEN NoProxy ELSE Keep]
           rf == [p \in Proxies |-> HostsOf({r \in map : r.proxy = p})]
           sh == Max({0} \cup {r.rev : r \in map})
           c == Started(age)
<1>1. /\ empty \in CacheType(GroupStates \cup {"unknown"}) /\ empty.queued /\ empty.state = "unknown"
      /\ empty.last = ids.rev /\ \A p \in Proxies : empty.refs[p] = {}
      /\ \A p \in Proxies : empty.deleted[p] = {}
  BY Bounds DEF CacheType, Never
<1>2. c = [b EXCEPT !.hosts = in, !.unassigned = un, !.map = map, !.updates = up, !.refs = rf,
                    !.shown = sh]
  BY DEF Started
<1>3. /\ in \in SUBSET Hosts /\ map \in SUBSET RowType /\ un \in SUBSET Hosts
      /\ up \in [Hosts -> Proxies \cup {NoProxy, Keep}]
  BY DEF HostsOf
<1>4. /\ \A p \in Proxies : rf[p] = HostsOf({r \in map : r.proxy = p})
      /\ rf \in [Proxies -> SUBSET Hosts]
  <2> HIDE DEF map
  <2>1. \A p \in Proxies : HostsOf({r \in map : r.proxy = p}) \in SUBSET Hosts
    BY <1>3 DEF HostsOf, RowType
  <2> QED  BY <2>1
<1>5. sh \in Nat /\ sh <= ids.rev /\ \A r \in map : r.rev <= sh
  <2> DEFINE S == {0} \cup {r.rev : r \in map}
  <2>1. S \in SUBSET (0..ids.rev) /\ S # {} /\ ids.rev \in Nat
    BY DEF RowType
  <2> HIDE DEF S
  <2>2. Max(S) \in S /\ \A x \in S : x <= Max(S)  BY <2>1, GreatestBelow
  <2>3. \A r \in map : r.rev \in S  BY DEF S
  <2>4. sh = Max(S)  BY DEF S
  <2>5. Max(S) \in 0..ids.rev  BY <2>1, <2>2
  <2> HIDE DEF map, sh
  <2>6. \A r \in map : r.rev <= sh  BY <2>2, <2>3, <2>4
  <2>7. sh \in Nat /\ sh <= ids.rev  BY <2>1, <2>4, <2>5
  <2> QED  BY <2>6, <2>7
<1>6. \A h \in Hosts : up[h] = IF h \in HostsOf(rows) \ in THEN NoProxy ELSE Keep
  OBVIOUS
<1>7. /\ \A h \in un : h \in in /\ ~\E r \in map : r.host = h
      /\ \A h \in in : h \notin un => \E r \in map : r.host = h
      /\ \A r \in map : r.host \in in /\ r \in rows
  BY DEF HostsOf
<1> HIDE DEF empty, map, un, up, rf, sh, c, e, b
<1>8. PICK al \in [Proxies -> Never..Delay], ps \in [Proxies -> {"unknown", "offline", "online"}],
         q \in BOOLEAN :
         /\ e = [empty EXCEPT !.alive = al, !.pstate = ps, !.queued = q]
         /\ q <=> empty.queued \/ ps # empty.pstate
  <2>1. empty \in CacheType(GroupStates \cup {"unknown"})
    BY <1>1
  <2>2. \E al \in [Proxies -> Never..Delay], ps \in [Proxies -> {"unknown", "offline", "online"}],
           q \in BOOLEAN :
           /\ UpdateProxyState(empty, age) = [empty EXCEPT !.alive = al, !.pstate = ps, !.queued = q]
           /\ q <=> empty.queued \/ ps # empty.pstate
    BY <2>1, ProxyStates, Zenon
  <2> QED  BY <2>2, Zenon DEF e
<1>9. /\ e \in CacheType(GroupStates \cup {"unknown"}) /\ e.queued /\ e.state = "unknown"
      /\ e.last = ids.rev /\ \A p \in Proxies : e.refs[p] = {}
      /\ \A p \in Proxies : e.deleted[p] = {}
  <2>1. q = TRUE
    BY <1>1, <1>8
  <2>2. e = [empty EXCEPT !.alive = al, !.pstate = ps, !.queued = TRUE]
    BY <1>8, <2>1
  <2> QED  BY <1>1, <2>2 DEF CacheType
<1>10. PICK g \in CacheType(GroupStates) :
         /\ g = [e EXCEPT !.state = g.state, !.since = g.since, !.queued = g.queued]
         /\ g.state = NextGroupState(e, age)
         /\ g.queued <=> e.queued \/ (g.state = "online" /\ g.state # e.state)
         /\ b = IF g.state = "online" THEN ClearOfflineProxies(g) ELSE g
  <2>1. \E g \in CacheType(GroupStates) :
           /\ g = [e EXCEPT !.state = g.state, !.since = g.since, !.queued = g.queued]
           /\ g.state = NextGroupState(e, age)
           /\ g.queued <=> e.queued \/ (g.state = "online" /\ g.state # e.state)
           /\ UpdateGroupState(e, age) =
                 IF g.state = "online" THEN ClearOfflineProxies(g) ELSE g
    <3>1. e \in CacheType(GroupStates \cup {"unknown"})
      BY <1>9
    <3> QED  BY <3>1, GroupState, Zenon
  <2> QED  BY <2>1, Zenon DEF b
<1>11. /\ g.queued /\ g.last = ids.rev /\ g.pstate = e.pstate
       /\ \A p \in Proxies : g.deleted[p] = {}
  <2>1. e \in CacheType(GroupStates \cup {"unknown"})
        /\ g = [e EXCEPT !.state = g.state, !.since = g.since, !.queued = g.queued]
    BY <1>9, <1>10
  <2>2. g.last = e.last /\ g.pstate = e.pstate /\ g.deleted = e.deleted
    BY <2>1 DEF CacheType
  <2>3. g.queued
    BY <1>9, <1>10
  <2> QED  BY <1>9, <2>2, <2>3
<1>12. /\ b \in CacheType(GroupStates) /\ b.queued /\ b.last = ids.rev
       /\ b.state = g.state /\ b.pstate = g.pstate
       /\ \A p \in Proxies : b.deleted[p] = {}
  BY <1>10, <1>11, Cleared
<1>13. /\ c \in CacheType(GroupStates) /\ c.queued /\ c.last = ids.rev
       /\ c.state = g.state /\ c.pstate = e.pstate
       /\ c.hosts = in /\ c.unassigned = un /\ c.map = map /\ c.updates = up /\ c.refs = rf
       /\ c.shown = sh /\ \A p \in Proxies : c.deleted[p] = {}
  BY <1>2, <1>3, <1>4, <1>5, <1>11, <1>12 DEF CacheType
<1>14. c.state = "online" => Online(c) = Proxies
  <2> SUFFICES ASSUME c.state = "online" PROVE Online(c) = Proxies
    OBVIOUS
  <2>1. Online(e) = Proxies
    BY <1>9, <1>10, <1>13, FirstState
  <2> QED  BY <1>13, <2>1 DEF Online
<1>15. \A h \in Hosts : c.updates[h] \notin Proxies
  BY <1>6, <1>13, Bounds
<1>16. \A p \in Proxies : \A h \in c.refs[p] : \E r \in map : r.host = h /\ r.proxy = p
  BY <1>4, <1>13 DEF HostsOf
<1>17. \A r \in map : r.host \in c.refs[r.proxy]
  BY <1>3, <1>4, <1>13 DEF HostsOf, RowType
<1>18. Listed(c)
  <2>1. ASSUME NEW p \in Proxies, NEW h \in c.refs[p]
        PROVE  /\ \E r \in c.map : r.host = h /\ r.proxy = p
               /\ h \in c.hosts /\ h \notin c.unassigned /\ c.updates[h] \in {Keep, p}
    BY <1>3, <1>6, <1>7, <1>13, <1>16
  <2>2. \A h \in c.hosts :
          h \in c.unassigned \/ c.updates[h] \in Proxies \/ \E p \in Proxies : h \in c.refs[p]
    BY <1>3, <1>7, <1>13, <1>17 DEF RowType
  <2>3. \A h \in c.unassigned : h \in c.hosts /\ c.updates[h] \notin Proxies
    BY <1>3, <1>7, <1>13, <1>15
  <2> QED  BY <1>13, <1>14, <1>15, <1>17, <2>1, <2>2, <2>3 DEF Listed
<1>19. Kind(c)
  BY <1>13, <1>15 DEF Kind
<1> QED  BY <1>5, <1>6, <1>13, <1>18, <1>19 DEF map, c

----------------------------------------------------------------------------
(* The steps of the manager thread. *)

\* The new rows and the table: the map that is to be written is what the open
\* transaction makes of the table.
LEMMA FlushWrites ==
    ASSUME NEW c \in CacheType(GroupStates), NEW first \in Nat, NEW d,
           d = GetHostmapUpdates(c, first), c.map = cache.map,
           \A h \in Hosts : cache.updates[h] # Keep => c.updates[h] # Keep,
           Types, OneRow, DbMatches, pgm.pc # "commit", ~refused,
           NEW w, w = Flush(c, d), Changed(c) # {}
    PROVE  /\ HostsOf(w.mod) \cap w.del = {}
           /\ \A r \in d.map :
                 \/ conf[r.host].at = "gone"
                 \/ r \in w.new
                 \/ r \in w.mod /\ \E s \in rows : s.host = r.host /\ s.id = r.id
                 \/ r \in rows /\ r.host \notin HostsOf(w.mod) \cup w.del
           /\ \A s \in rows :
                 \/ s.host \in w.del
                 \/ \E r \in w.mod : r.host = s.host /\ r.id = s.id
                 \/ s \in d.map /\ s.host \notin HostsOf(w.mod)
                 \/ s.host \in HostsOf(w.new)
<1> DEFINE L == Listing(c, first)
<1>1. d.map = {r \in c.map : r.host \notin Changed(c)} \cup L
  BY HostmapUpdates
<1>2. /\ L \in SUBSET RowType
      /\ \A r \in L : r.host \in Given(c)
      /\ \A r \in L : r.host \in HostsOf(c.map) => r.id = RowOf(c.map, r.host).id
      /\ \A h \in Given(c) : \E r \in L : r.host = h
  BY ListingRows
<1>3. /\ Given(c) = {h \in Hosts : c.updates[h] \in Proxies}
      /\ Removed(c) = {h \in Hosts : c.updates[h] = NoProxy}
      /\ Changed(c) = Given(c) \cup Removed(c)
      /\ Modified(c) = Given(c) \cap HostsOf(c.map)
      /\ Added(c) = Given(c) \ HostsOf(c.map)
      /\ Changed(c) = {h \in Hosts : c.updates[h] # Keep}
  BY GivenHosts DEF Changed
<1>4. /\ w.new = {r \in d.map : r.host \in Added(c)}
      /\ w.mod = {r \in d.map : r.host \in Modified(c)}
      /\ w.del = Removed(c)
  BY DEF Flush
<1> HIDE DEF L
<1>5. /\ \A r \in c.map : r \in rows \/ conf[r.host].at = "gone"
      /\ \A s \in rows : s \in c.map \/ cache.updates[s.host] = NoProxy
  BY DEF DbMatches
<1>6. /\ \A r, s \in c.map : r.host = s.host => r = s
      /\ \A r, s \in rows : r.host = s.host => r = s
      /\ \A r \in rows : conf[r.host].at # "gone" /\ r.host \in Hosts
      /\ \A r \in c.map : r.host \in Hosts
  BY DEF OneRow, Types, RowType, CacheType
<1>7. \A s \in rows : s.host \in HostsOf(c.map) => s \in c.map
  BY <1>5, <1>6 DEF HostsOf
<1>8. Given(c) \cap Removed(c) = {}
  BY <1>3, Bounds
<1>9. \A h \in HostsOf(w.mod) : h \in Modified(c)
  BY <1>4 DEF HostsOf
<1>10. \A r \in c.map : RowOf(c.map, r.host) = r
  <2> TAKE r \in c.map
  <2>1. r.host \in HostsOf(c.map)  BY DEF HostsOf
  <2>2. RowOf(c.map, r.host) \in c.map /\ RowOf(c.map, r.host).host = r.host
    BY <2>1, RowOfHost
  <2> QED  BY <1>6, <2>2
<1>a. HostsOf(w.mod) \cap w.del = {}
  BY <1>3, <1>4, <1>8, <1>9
<1>b. ASSUME NEW r \in d.map, conf[r.host].at # "gone"
      PROVE  \/ r \in w.new
             \/ r \in w.mod /\ \E s \in rows : s.host = r.host /\ s.id = r.id
             \/ r \in rows /\ r.host \notin HostsOf(w.mod) \cup w.del
  <2>1. CASE r \in L /\ r.host \in Added(c)
    BY <1>4, <2>1
  <2>2. CASE r \in L /\ r.host \in Modified(c)
    <3>1. r \in w.mod  BY <1>4, <2>2
    <3>2. PICK m \in c.map : m.host = r.host  BY <1>3, <2>2 DEF HostsOf
    <3>3. m \in rows  BY <1>5, <1>b, <3>2
    <3>4. r.id = m.id  BY <1>2, <1>3, <1>10, <2>2, <3>2
    <3> QED  BY <3>1, <3>2, <3>3, <3>4
  <2>3. CASE r \in c.map /\ r.host \notin Changed(c)
    <3>1. r \in rows  BY <1>5, <1>b, <2>3
    <3>2. r.host \notin Modified(c) /\ r.host \notin Removed(c)  BY <1>3, <2>3
    <3> QED  BY <1>4, <1>9, <3>1, <3>2
  <2> QED  BY <1>1, <1>2, <1>3, <2>1, <2>2, <2>3
<1>c. ASSUME NEW s \in rows
      PROVE  \/ s.host \in w.del
             \/ \E r \in w.mod : r.host = s.host /\ r.id = s.id
             \/ s \in d.map /\ s.host \notin HostsOf(w.mod)
             \/ s.host \in HostsOf(w.new)
  <2>1. CASE s.host \in Removed(c)
    BY <1>4, <2>1
  <2>2. CASE s.host \in Given(c)
    <3>1. PICK r \in L : r.host = s.host  BY <1>2, <2>2
    <3>2. r \in d.map  BY <1>1
    <3>3. CASE s.host \in HostsOf(c.map)
      <4>1. r \in w.mod  BY <1>3, <1>4, <2>2, <3>1, <3>2, <3>3
      <4>2. r.id = s.id  BY <1>2, <1>7, <1>10, <3>1, <3>3
      <4> QED  BY <3>1, <4>1, <4>2
    <3>4. CASE s.host \notin HostsOf(c.map)
      <4>1. r \in w.new  BY <1>3, <1>4, <2>2, <3>1, <3>2, <3>4
      <4> QED  BY <3>1, <4>1 DEF HostsOf
    <3> QED  BY <3>3, <3>4
  <2>3. CASE s.host \notin Changed(c)
    <3>1. cache.updates[s.host] # NoProxy
      BY <1>3, <1>6, <2>3, Bounds
    <3>2. s \in d.map  BY <1>1, <1>5, <2>3, <3>1
    <3>3. s.host \notin Modified(c)  BY <1>3, <2>3
    <3> QED  BY <1>9, <3>2, <3>3
  <2> QED  BY <1>3, <2>1, <2>2, <2>3
<1> QED  BY <1>a, <1>b, <1>c

LEMMA RebalanceStep == IInv /\ Rebalance => IInv'
<1> SUFFICES ASSUME IInv, Rebalance PROVE IInv'
  OBVIOUS
<1> USE DEF IInv
<1>1. PICK c \in RebalanceGroup(cache) :
         /\ cache' = GetHostmapUpdates(c, ids.id)
         /\ pgm' = Flush(c, cache')
         /\ ids' = [ids EXCEPT !.id = @ + Cardinality(Added(c))]
  BY DEF Rebalance
<1>2. /\ pgm.pc # "commit"
      /\ UNCHANGED <<conf, mail, rows, heard, quiet, known, refused, crossed>>
  BY DEF Rebalance
<1>3. cache \in CacheType(GroupStates) /\ ids.id \in Nat /\ ids.rev \in Nat
  BY DEF Types
<1>4. /\ Same(cache, c) /\ (Listed(cache) => Listed(c))
      /\ c.state = "online" /\ c.unassigned # {} => c.unbalanced
  BY <1>3, Rebalanced
<1>5. /\ c \in CacheType(GroupStates) /\ c.map = cache.map /\ c.hosts = cache.hosts
      /\ c.last = cache.last /\ c.shown = cache.shown
      /\ \A h \in Hosts : cache.updates[h] # Keep => c.updates[h] # Keep
  BY <1>4 DEF Same
<1> DEFINE L == Listing(c, ids.id)
<1>6. /\ cache' \in CacheType(GroupStates)
      /\ cache'.shown = c.shown /\ cache'.hosts = c.hosts
      /\ cache'.last = IF Changed(c) = {} THEN c.last ELSE c.last + 1
      /\ cache'.map = {r \in c.map : r.host \notin Changed(c)} \cup L
      /\ \A h \in Hosts : cache'.updates[h] = Keep
  BY <1>1, <1>3, <1>5, HostmapUpdates
<1>7. /\ L \in SUBSET RowType
      /\ \A r \in L : /\ r.host \in Given(c)
                      /\ r.rev = IF Changed(c) = {} THEN c.last ELSE c.last + 1
                      /\ IF r.host \in HostsOf(c.map) THEN r.id = RowOf(c.map, r.host).id
                         ELSE r.id \in ids.id + 1..ids.id + Cardinality(Added(c))
      /\ \A r, s \in L : r.host = s.host => r = s
  BY <1>3, <1>5, ListingRows
<1>8. /\ Changed(c) = Given(c) \cup Removed(c) /\ IsFiniteSet(Added(c))
      /\ Changed(c) = {h \in Hosts : c.updates[h] # Keep}
      /\ Removed(c) \in SUBSET Hosts
  BY <1>5, GivenHosts DEF Changed
<1>9. Cardinality(Added(c)) \in Nat
  BY <1>8, FS_CardinalityType
<1>10. /\ ids'.id = ids.id + Cardinality(Added(c)) /\ ids'.rev = ids.rev
       /\ ids' \in [id : Nat, rev : Nat]
  BY <1>1, <1>9 DEF Types
<1>11. /\ pgm'.new = {r \in cache'.map : r.host \in Added(c)}
       /\ pgm'.mod = {r \in cache'.map : r.host \in Modified(c)}
       /\ pgm'.del = Removed(c)
       /\ pgm'.pc = IF Changed(c) = {} THEN "idle" ELSE "commit"
       /\ pgm' \in [pc : {"idle", "check", "commit", "publish"}, new : SUBSET RowType,
                    mod : SUBSET RowType, del : SUBSET Hosts, touched : BOOLEAN]
  <2>1. cache'.map \in SUBSET RowType  BY <1>6 DEF CacheType
  <2> QED  BY <1>1, <1>8, <2>1 DEF Flush
<1> HIDE DEF L
<1>a. Types'
  BY <1>2, <1>6, <1>10, <1>11 DEF Types
<1>b. Counted'
  <2>1. c.last \in Nat /\ c.shown \in Nat /\ c.map \in SUBSET RowType /\ rows \in SUBSET RowType
    BY <1>5 DEF CacheType, Types
  <2>2. cache'.last \in Nat /\ c.last <= cache'.last
    BY <1>6, <2>1
  <2>3. ASSUME NEW r \in L PROVE r.id \in 1..ids'.id /\ r.rev >= 1 /\ r.rev <= cache'.last
    <3>1. Changed(c) # {}  BY <1>7, <1>8
    <3>2. r.rev = c.last + 1  BY <1>7, <3>1
    <3>3. CASE r.host \in HostsOf(c.map)
      <4>1. RowOf(c.map, r.host) \in c.map  BY <3>3, RowOfHost
      <4>2. RowOf(c.map, r.host).id \in 1..ids.id  BY <1>5, <4>1 DEF Counted
      <4>3. r.id \in 1..ids.id  BY <1>7, <3>3, <4>2
      <4> QED  BY <1>3, <1>6, <1>9, <1>10, <2>1, <3>1, <3>2, <4>3
    <3>4. CASE r.host \notin HostsOf(c.map)
      BY <1>3, <1>6, <1>7, <1>9, <1>10, <2>1, <3>1, <3>2, <3>4
    <3> QED  BY <3>3, <3>4
  <2>4. ASSUME NEW r \in rows \cup c.map PROVE r.id \in 1..ids'.id /\ r.rev >= 1
    BY <1>3, <1>5, <1>9, <1>10 DEF Counted
  <2>5. ASSUME NEW r \in c.map PROVE r.rev <= cache'.last
    <3>1. r.rev \in Nat /\ r.rev <= c.last  BY <1>5, <2>1 DEF Counted, RowType
    <3> QED  BY <2>1, <2>2, <3>1
  <2>6. ids'.rev <= cache'.last /\ cache'.shown <= cache'.last
    BY <1>3, <1>5, <1>6, <1>10, <2>1, <2>2 DEF Counted
  <2>7. \A r \in rows' : r.rev <= ids'.rev
    BY <1>2, <1>10 DEF Counted
  <2>8. \A r \in cache'.map : r \in c.map \/ r \in L
    BY <1>6
  <2> QED  BY <1>2, <2>3, <2>4, <2>5, <2>6, <2>7, <2>8 DEF Counted
<1>c. OneRow'
  <2>1. \A r \in L : r.host \in Changed(c)  BY <1>7, <1>8
  <2>2. \A r, s \in cache'.map : r.host = s.host => r = s
    BY <1>5, <1>6, <1>7, <2>1 DEF OneRow
  <2> QED  BY <1>2, <2>2 DEF OneRow
<1>d. Stored'
  <2>1. pgm'.new \cup pgm'.mod \subseteq cache'.map
    BY <1>11
  <2>2. ASSUME Changed(c) # {}, ~refused PROVE Writing'
    BY <1>1, <1>2, <1>3, <1>5, <2>2, FlushWrites DEF Writing
  <2> QED  BY <1>2, <1>11, <2>1, <2>2 DEF Stored
<1>e. DbMatches'
  <2> SUFFICES ASSUME Changed(c) = {}, ~refused
               PROVE  /\ \A r \in cache'.map : r \in rows \/ conf[r.host].at = "gone"
                      /\ \A r \in rows : r \in cache'.map
                      /\ ids'.rev = cache'.last
    BY <1>2, <1>11 DEF DbMatches
  <2>1. L = {}  BY <1>7, <1>8
  <2>2. cache'.map = cache.map  BY <1>5, <1>6, <2>1
  <2>3. \A r \in rows : r.host \in Hosts  BY DEF Types, RowType
  <2>4. \A r \in rows : cache.updates[r.host] # NoProxy
    BY <1>5, <1>8, <2>3, Bounds
  <2> QED  BY <1>2, <1>5, <1>6, <1>10, <2>2, <2>4 DEF DbMatches
<1>f. Linked'
  <2> SUFFICES ASSUME ~crossed PROVE Listed(cache') /\ Kind(cache')
    BY <1>2 DEF Linked
  <2>1. Listed(c)  BY <1>4 DEF Linked
  <2>2. \A r, s \in c.map : r.host = s.host => r = s  BY <1>5 DEF OneRow
  <2>3. c \in CacheType(GroupStates)  BY <1>5
  <2>4. c.state = "online" /\ c.unassigned # {} => c.unbalanced  BY <1>4
  <2> QED  BY <1>1, <1>3, <2>1, <2>2, <2>3, <2>4, UpdatesListed, Zenon
<1>g. Chained'
  BY <1>2, <1>5, <1>6 DEF Chained
<1> QED  BY <1>a, <1>b, <1>c, <1>d, <1>e, <1>f, <1>g

\* The rows that a transaction that is not refused leaves.
LEMMA Written ==
    ASSUME Types, Counted, OneRow, Stored
    PROVE  /\ \A s \in rows : Updated(s) \in RowType /\ Updated(s).host = s.host
                              /\ Updated(s).id = s.id
           /\ \A s \in rows : IF s.host \in HostsOf(pgm.mod)
                              THEN \E m \in pgm.mod : /\ m.host = s.host /\ m.rev = Updated(s).rev
                                                      /\ m.id = s.id => Updated(s) = m
                              ELSE Updated(s) = s
           /\ \A r \in Rest : \E s \in rows : s.host \notin pgm.del /\ r = Updated(s)
           /\ Inserted \subseteq pgm.new
<1>1. pgm.mod \in SUBSET RowType /\ rows \in SUBSET RowType
  BY DEF Types
<1>2. ASSUME NEW s \in rows, s.host \in HostsOf(pgm.mod)
      PROVE  /\ Updated(s) \in RowType /\ Updated(s).host = s.host /\ Updated(s).id = s.id
             /\ \E m \in pgm.mod : /\ m.host = s.host /\ m.rev = Updated(s).rev
                                   /\ m.id = s.id => Updated(s) = m
  <2> DEFINE m == RowOf(pgm.mod, s.host)
  <2>1. m \in pgm.mod /\ m.host = s.host  BY <1>2, RowOfHost
  <2>2. m \in RowType /\ s.id \in Nat  BY <1>1, <2>1 DEF RowType
  <2>3. Updated(s) = [m EXCEPT !.id = s.id]  BY <1>2 DEF Updated
  <2> HIDE DEF m
  <2>4. /\ Updated(s) \in RowType /\ Updated(s).host = m.host /\ Updated(s).id = s.id
        /\ Updated(s).rev = m.rev
    BY <2>2, <2>3 DEF RowType
  <2>5. m.id = s.id => Updated(s) = m  BY <2>2, <2>3 DEF RowType
  <2> QED  BY <2>1, <2>4, <2>5
<1>3. \A s \in rows : s.host \notin HostsOf(pgm.mod) => Updated(s) = s
  BY DEF Updated
<1>4. \A r \in Rest : \E s \in rows : s.host \notin pgm.del /\ r = Updated(s)
  BY DEF Rest
<1> QED  BY <1>1, <1>2, <1>3, <1>4 DEF Inserted

\* What such a transaction leaves in the table is in the map.
LEMMA Committed ==
    ASSUME Types, Counted, OneRow, Stored, pgm.pc = "commit", ~refused,
           HostsOf(Inserted) \cap HostsOf(Rest) = {}
    PROVE  \A r \in Rest \cup Inserted : r \in cache.map
<1>1. /\ \A s \in rows : Updated(s).host = s.host
      /\ \A s \in rows : IF s.host \in HostsOf(pgm.mod)
                         THEN \E m \in pgm.mod : m.host = s.host /\ (m.id = s.id => Updated(s) = m)
                         ELSE Updated(s) = s
      /\ \A r \in Rest : \E s \in rows : s.host \notin pgm.del /\ r = Updated(s)
      /\ Inserted \subseteq pgm.new
  BY Written
<1>2. pgm.new \subseteq cache.map /\ pgm.mod \subseteq cache.map /\ Writing
  BY DEF Stored
<1>3. ASSUME NEW r \in Rest PROVE r \in cache.map
  <2>1. PICK s \in rows : s.host \notin pgm.del /\ r = Updated(s)  BY <1>1
  <2>2. CASE \E m \in pgm.mod : m.host = s.host /\ m.id = s.id
    <3>1. PICK m \in pgm.mod : m.host = s.host /\ m.id = s.id  BY <2>2
    <3>2. s.host \in HostsOf(pgm.mod)  BY <3>1 DEF HostsOf
    <3>3. PICK n \in pgm.mod : n.host = s.host /\ (n.id = s.id => Updated(s) = n)
      BY <1>1, <3>2
    <3>4. m = n  BY <1>2, <3>1, <3>3 DEF OneRow
    <3> QED  BY <1>2, <2>1, <3>1, <3>3, <3>4
  <2>3. CASE s \in cache.map /\ s.host \notin HostsOf(pgm.mod)
    BY <1>1, <2>1, <2>3
  <2>4. CASE s.host \in HostsOf(pgm.new)
    <3>1. PICK n \in pgm.new : n.host = s.host  BY <2>4 DEF HostsOf
    <3>2. n \in Inserted  BY <3>1 DEF Inserted, OneRow
    <3>3. r.host = n.host  BY <1>1, <2>1, <3>1
    <3> QED  BY <3>2, <3>3 DEF HostsOf
  <2> QED  BY <1>2, <2>1, <2>2, <2>3, <2>4 DEF Writing
<1> QED  BY <1>1, <1>2, <1>3

LEMMA CommitStep == IInv /\ Commit => IInv'
<1> SUFFICES ASSUME IInv, Commit PROVE IInv'
  OBVIOUS
<1> USE DEF IInv
<1>1. /\ pgm.pc = "commit"
      /\ UNCHANGED <<conf, mail, cache, heard, quiet, known, crossed>>
      /\ pgm' = Nothing \/ pgm' = [Nothing EXCEPT !.pc = "publish"]
  BY DEF Commit
<1>2. pgm'.new = {} /\ pgm'.mod = {} /\ pgm'.del = {} /\ pgm'.pc # "commit"
  BY <1>1 DEF Nothing
<1>3. /\ Linked' /\ Chained' /\ Stored'
      /\ pgm' \in [pc : {"idle", "check", "commit", "publish"}, new : SUBSET RowType,
                   mod : SUBSET RowType, del : SUBSET Hosts, touched : BOOLEAN]
  <2>1. Linked' /\ Chained'  BY <1>1 DEF Linked, Chained
  <2>2. Stored'  BY <1>2 DEF Stored
  <2>3. pgm' \in [pc : {"idle", "check", "commit", "publish"}, new : SUBSET RowType,
                  mod : SUBSET RowType, del : SUBSET Hosts, touched : BOOLEAN]
    <3>1. CASE pgm' = Nothing
      BY <3>1 DEF Nothing
    <3>2. CASE pgm' = [Nothing EXCEPT !.pc = "publish"]
      BY <3>2 DEF Nothing
    <3> QED  BY <1>1, <3>1, <3>2
  <2> QED  BY <2>1, <2>2, <2>3
<1>4. CASE refused' = TRUE /\ UNCHANGED <<rows, ids>>
  <2>1. Types'  BY <1>1, <1>3, <1>4 DEF Types
  <2>2. Counted' /\ OneRow' /\ DbMatches'  BY <1>1, <1>4 DEF Counted, OneRow, DbMatches
  <2> QED  BY <1>3, <2>1, <2>2
<1>5. CASE /\ HostsOf(Inserted) \cap HostsOf(Rest) = {}
           /\ rows' = Rest \cup Inserted
           /\ ids' = [ids EXCEPT !.rev = cache.last] /\ UNCHANGED refused
  <2>1. /\ \A s \in rows : Updated(s) \in RowType /\ Updated(s).host = s.host
                           /\ Updated(s).id = s.id
        /\ \A s \in rows : IF s.host \in HostsOf(pgm.mod)
                           THEN \E m \in pgm.mod : /\ m.host = s.host /\ m.rev = Updated(s).rev
                                                   /\ m.id = s.id => Updated(s) = m
                           ELSE Updated(s) = s
        /\ \A r \in Rest : \E s \in rows : s.host \notin pgm.del /\ r = Updated(s)
        /\ Inserted \subseteq pgm.new
    BY Written
  <2>2. /\ pgm.new \in SUBSET RowType /\ pgm.mod \in SUBSET RowType /\ rows \in SUBSET RowType
        /\ cache \in CacheType(GroupStates) /\ ids.id \in Nat /\ ids.rev \in Nat
        /\ pgm.new \subseteq cache.map /\ pgm.mod \subseteq cache.map /\ cache.last \in Nat
        /\ cache.map \in SUBSET RowType
    BY DEF Types, Stored, CacheType
  <2>3. ids'.id = ids.id /\ ids'.rev = cache.last /\ ids' \in [id : Nat, rev : Nat]
    BY <1>5, <2>2 DEF Types
  <2>4. \A r \in Rest : r \in RowType
    BY <2>1
  <2>a. Types'
    <3>1. rows' \in SUBSET RowType  BY <1>5, <2>1, <2>2, <2>4
    <3> QED  BY <1>1, <1>3, <1>5, <2>3, <3>1 DEF Types
  <2>b. Counted'
    <3>1. ASSUME NEW r \in Rest PROVE r.id \in 1..ids.id /\ r.rev >= 1 /\ r.rev <= cache.last
      <4>1. PICK s \in rows : r = Updated(s)  BY <2>1
      <4>2. r.id \in 1..ids.id  BY <2>1, <4>1 DEF Counted
      <4>3. CASE s.host \in HostsOf(pgm.mod)
        <5>1. PICK m \in pgm.mod : m.rev = r.rev  BY <2>1, <4>1, <4>3
        <5> QED  BY <2>2, <4>2, <5>1 DEF Counted
      <4>4. CASE s.host \notin HostsOf(pgm.mod)
        <5>1. r = s  BY <2>1, <4>1, <4>4
        <5>2. r.rev \in Nat /\ r.rev >= 1 /\ r.rev <= ids.rev /\ ids.rev <= cache.last
          BY <2>2, <5>1 DEF Counted, RowType
        <5> QED  BY <2>2, <4>2, <5>2
      <4> QED  BY <4>3, <4>4
    <3>2. \A r \in Inserted : r \in cache.map  BY <2>1, <2>2
    <3> QED  BY <1>1, <1>5, <2>2, <2>3, <3>1, <3>2 DEF Counted
  <2>c. OneRow'
    <3>1. \A r \in Inserted : r \in cache.map /\ conf[r.host].at # "gone"
      BY <2>1, <2>2 DEF Inserted
    <3>2. ASSUME NEW r \in Rest, NEW s \in Rest, r.host = s.host PROVE r = s
      <4>1. PICK t \in rows : r = Updated(t)  BY <2>1
      <4>2. PICK u \in rows : s = Updated(u)  BY <2>1
      <4>3. t = u  BY <2>1, <3>2, <4>1, <4>2 DEF OneRow
      <4> QED  BY <4>1, <4>2, <4>3
    <3>3. \A r \in Rest : conf[r.host].at # "gone"
      BY <2>1 DEF OneRow
    <3>4. \A r \in Rest, s \in Inserted : r.host # s.host
      BY <1>5 DEF HostsOf
    <3>5. \A r, s \in Inserted : r.host = s.host => r = s
      BY <3>1 DEF OneRow
    <3>6. \A r, s \in rows' : r.host = s.host => r = s
      BY <1>5, <3>2, <3>4, <3>5
    <3>7. \A r \in rows' : conf[r.host].at # "gone"
      BY <1>5, <3>1, <3>3
    <3> QED  BY <1>1, <3>6, <3>7 DEF OneRow
  <2>d. DbMatches'
    <3> SUFFICES ASSUME ~refused
                 PROVE  /\ \A r \in cache.map : r \in rows' \/ conf[r.host].at = "gone"
                        /\ \A r \in rows' : r \in cache.map
                        /\ ids'.rev = cache.last
      BY <1>1, <1>5 DEF DbMatches
    <3>1. Writing  BY <1>1 DEF Stored
    <3>2. ASSUME NEW s \in rows, s.host \notin pgm.del PROVE Updated(s) \in rows'
      BY <1>5, <3>2 DEF Rest
    <3>3. ASSUME NEW r \in cache.map, conf[r.host].at # "gone" PROVE r \in rows'
      <4>1. CASE r \in pgm.new
        BY <1>5, <3>3, <4>1 DEF Inserted
      <4>2. CASE r \in pgm.mod /\ \E s \in rows : s.host = r.host /\ s.id = r.id
        <5>1. PICK s \in rows : s.host = r.host /\ s.id = r.id  BY <4>2
        <5>2. s.host \in HostsOf(pgm.mod)  BY <4>2, <5>1 DEF HostsOf
        <5>3. PICK m \in pgm.mod : m.host = s.host /\ (m.id = s.id => Updated(s) = m)
          BY <2>1, <5>2
        <5>4. m = r  BY <2>2, <5>1, <5>3 DEF OneRow
        <5>5. Updated(s) = r  BY <5>1, <5>3, <5>4
        <5>6. s.host \notin pgm.del  BY <3>1, <5>2 DEF Writing
        <5> QED  BY <3>2, <5>5, <5>6
      <4>3. CASE r \in rows /\ r.host \notin HostsOf(pgm.mod) \cup pgm.del
        BY <2>1, <3>2, <4>3
      <4> QED  BY <3>1, <3>3, <4>1, <4>2, <4>3 DEF Writing
    <3>4. \A r \in Rest \cup Inserted : r \in cache.map  BY <1>1, <1>5, Committed
    <3> QED  BY <1>5, <2>3, <3>3, <3>4
  <2> QED  BY <1>3, <2>a, <2>b, <2>c, <2>d
<1> QED  BY <1>4, <1>5 DEF Commit

LEMMA PublishStep == IInv /\ Publish => IInv'
<1> SUFFICES ASSUME IInv, Publish PROVE IInv'
  OBVIOUS
<1> USE DEF IInv
<1>1. /\ pgm.pc = "publish" /\ pgm' = Nothing
      /\ cache' = [cache EXCEPT !.shown = cache.last]
      /\ UNCHANGED <<conf, mail, rows, ids, heard, quiet, known, refused, crossed>>
  BY DEF Publish
<1>2. cache \in CacheType(GroupStates)
  BY DEF Types
<1>3. /\ cache' \in CacheType(GroupStates)
      /\ cache'.shown = cache.last /\ cache'.last = cache.last /\ cache'.map = cache.map
      /\ cache'.hosts = cache.hosts /\ cache'.unassigned = cache.unassigned
      /\ cache'.updates = cache.updates /\ cache'.refs = cache.refs
      /\ cache'.state = cache.state /\ cache'.pstate = cache.pstate
      /\ cache'.queued = cache.queued
  BY <1>1, <1>2 DEF CacheType
<1>4. /\ pgm'.new = {} /\ pgm'.mod = {} /\ pgm'.pc = "idle"
      /\ pgm' \in [pc : {"idle", "check", "commit", "publish"}, new : SUBSET RowType,
                   mod : SUBSET RowType, del : SUBSET Hosts, touched : BOOLEAN]
  BY <1>1 DEF Nothing
<1>a. Types'
  BY <1>1, <1>3, <1>4 DEF Types
<1>b. Counted'
  <2>1. cache.last \in Nat  BY <1>2 DEF CacheType
  <2> QED  BY <1>1, <1>3, <2>1 DEF Counted
<1>c. OneRow' /\ Stored' /\ DbMatches' /\ Chained'
  <2>1. OneRow' /\ Stored'  BY <1>1, <1>3, <1>4 DEF OneRow, Stored
  <2>2. DbMatches'  BY <1>1, <1>3 DEF DbMatches
  <2>3. Chained'  BY <1>1, <1>3 DEF Chained
  <2> QED  BY <2>1, <2>2, <2>3
<1>d. Linked'
  <2>1. Listed(cache) => Listed(cache')  BY <1>3 DEF Listed, Online
  <2>2. Kind(cache) => Kind(cache')  BY <1>3 DEF Kind
  <2> QED  BY <1>1, <2>1, <2>2 DEF Linked
<1> QED  BY <1>a, <1>b, <1>c, <1>d

LEMMA UpdateStep == IInv /\ Update => IInv'
<1> SUFFICES ASSUME IInv, Update PROVE IInv'
  OBVIOUS
<1> USE DEF IInv
<1>1. /\ pgm.pc = "idle" /\ pgm' = [Nothing EXCEPT !.pc = "check"]
      /\ quiet' = [p \in Proxies |-> IF p \in heard THEN 0 ELSE Older(quiet[p], Delay)]
      /\ cache' = UpdateGroupState(UpdateProxyState(Aged(cache), quiet'), quiet')
      /\ UNCHANGED <<conf, mail, rows, ids, heard, known, refused, crossed>>
  BY DEF Update
<1>2. cache \in CacheType(GroupStates) /\ \A r, s \in cache.map : r.host = s.host => r = s
  BY DEF Types, OneRow
<1>3. quiet' \in [Proxies -> 0..Delay]
  <2>1. ASSUME NEW p \in Proxies PROVE Older(quiet[p], Delay) \in 0..Delay
    BY Bounds, OlderAge DEF Types, Never
  <2> QED  BY <1>1, <2>1, Bounds
<1>4. /\ cache' \in CacheType(GroupStates)
      /\ cache'.map = cache.map /\ cache'.last = cache.last /\ cache'.shown = cache.shown
      /\ cache'.hosts = cache.hosts
      /\ \A h \in Hosts : cache.updates[h] = NoProxy => cache'.updates[h] = NoProxy
      /\ Listed(cache) /\ Kind(cache) => Listed(cache') /\ Kind(cache')
  BY <1>1, <1>2, <1>3, UpdateCache
<1>5. /\ pgm'.new = {} /\ pgm'.mod = {} /\ pgm'.pc = "check"
      /\ pgm' \in [pc : {"idle", "check", "commit", "publish"}, new : SUBSET RowType,
                   mod : SUBSET RowType, del : SUBSET Hosts, touched : BOOLEAN]
  BY <1>1 DEF Nothing
<1>a. Types'
  BY <1>1, <1>3, <1>4, <1>5 DEF Types
<1>b. Counted'
  BY <1>1, <1>4 DEF Counted
<1>c. OneRow' /\ Stored'
  BY <1>1, <1>4, <1>5 DEF OneRow, Stored
<1>d. DbMatches'
  <2>1. \A r \in rows : r.host \in Hosts  BY DEF Types, RowType
  <2> QED  BY <1>1, <1>4, <2>1 DEF DbMatches
<1>e. Linked'
  BY <1>1, <1>4 DEF Linked
<1>f. Chained'
  BY <1>1, <1>4 DEF Chained
<1> QED  BY <1>a, <1>b, <1>c, <1>d, <1>e, <1>f

----------------------------------------------------------------------------
(* The steps of the service thread. *)

\* What a relocation leaves alone.
Moved(c, d, h) ==
    /\ d \in CacheType(GroupStates)
    /\ d.map = c.map /\ d.last = c.last /\ d.shown = c.shown
    /\ d.deleted = c.deleted /\ d.synced = c.synced
    /\ \A g \in Hosts \ {h} : (g \in d.hosts <=> g \in c.hosts) /\ d.updates[g] = c.updates[g]

\* pg_service.c: a host joins the group.
LEMMA Joined ==
    ASSUME NEW c \in CacheType(GroupStates), NEW h \in Hosts, h \notin c.hosts
    PROVE  LET d == AddHost(c, h)
           IN  /\ Moved(c, d, h) /\ h \in d.hosts /\ d.updates = c.updates
               /\ Listed(c) /\ Kind(c) => Listed(d) /\ Kind(d)
<1> DEFINE d == AddHost(c, h)
<1>1. d = [c EXCEPT !.hosts = c.hosts \cup {h}, !.queued = TRUE,
                    !.unassigned = c.unassigned \cup {h}]
  BY DEF AddHost
<1>2. c.hosts \cup {h} \in SUBSET Hosts /\ c.unassigned \cup {h} \in SUBSET Hosts
  BY DEF CacheType
<1> HIDE DEF d
<1>3. /\ d \in CacheType(GroupStates) /\ d.queued
      /\ d.map = c.map /\ d.last = c.last /\ d.shown = c.shown /\ d.updates = c.updates
      /\ d.deleted = c.deleted /\ d.synced = c.synced
      /\ d.refs = c.refs /\ d.state = c.state /\ d.pstate = c.pstate
      /\ d.hosts = c.hosts \cup {h} /\ d.unassigned = c.unassigned \cup {h}
  BY <1>1, <1>2 DEF CacheType
<1>4. ASSUME Listed(c), Kind(c) PROVE Listed(d) /\ Kind(d)
  <2>1. c.updates[h] \notin Proxies /\ \A p \in Proxies : h \notin c.refs[p]
    BY <1>4 DEF Listed
  <2>2. Listed(d)
    BY <1>3, <1>4, <2>1 DEF Listed, Online
  <2> QED  BY <1>3, <1>4, <2>2 DEF Kind
<1> QED  BY <1>3, <1>4 DEF Moved, d

\* pg_service.c: a host leaves the group.
LEMMA Left ==
    ASSUME NEW c \in CacheType(GroupStates), NEW h \in Hosts,
           \A r, s \in c.map : r.host = s.host => r = s
    PROVE  LET d == RemoveHost(c, h)
           IN  /\ Moved(c, d, h) /\ h \notin d.hosts
               /\ d.updates[h] \in {c.updates[h], NoProxy}
               /\ Listed(c) /\ Kind(c) => Listed(d) /\ Kind(d)
<1> DEFINE d == RemoveHost(c, h)
           hs == c.hosts \ {h}
           un == c.unassigned \ {h}
           rf == [p \in Proxies |-> IF h \in HostsOf(c.map) /\ RowOf(c.map, h).proxy = p
                                    THEN c.refs[p] \ {h} ELSE c.refs[p]]
           up == [c.updates EXCEPT ![h] = IF h \in HostsOf(c.map) THEN NoProxy ELSE @]
<1>1. d = [c EXCEPT !.hosts = hs, !.unassigned = un, !.queued = TRUE, !.refs = rf,
                    !.updates = up]
  BY DEF RemoveHost
<1>t. /\ c.updates \in [Hosts -> Proxies \cup {NoProxy, Keep}]
      /\ c.refs \in [Proxies -> SUBSET Hosts] /\ c.map \in SUBSET RowType
      /\ c.hosts \in SUBSET Hosts /\ c.unassigned \in SUBSET Hosts
  BY DEF CacheType
<1>2. hs \in SUBSET Hosts /\ un \in SUBSET Hosts /\ rf \in [Proxies -> SUBSET Hosts]
  BY <1>t
<1>3. /\ up \in [Hosts -> Proxies \cup {NoProxy, Keep}]
      /\ \A g \in Hosts \ {h} : up[g] = c.updates[g]
      /\ up[h] = IF h \in HostsOf(c.map) THEN NoProxy ELSE c.updates[h]
  BY <1>t
<1>4. /\ \A p \in Proxies : rf[p] = IF h \in HostsOf(c.map) /\ RowOf(c.map, h).proxy = p
                                    THEN c.refs[p] \ {h} ELSE c.refs[p]
      /\ hs = c.hosts \ {h} /\ un = c.unassigned \ {h}
  OBVIOUS
<1> HIDE DEF d, hs, un, rf, up
<1>5. /\ d \in CacheType(GroupStates) /\ d.queued
      /\ d.map = c.map /\ d.last = c.last /\ d.shown = c.shown /\ d.updates = up
      /\ d.deleted = c.deleted /\ d.synced = c.synced
      /\ d.refs = rf /\ d.state = c.state /\ d.pstate = c.pstate
      /\ d.hosts = hs /\ d.unassigned = un
  BY <1>1, <1>2, <1>3 DEF CacheType
<1>6. ASSUME Listed(c), Kind(c) PROVE Listed(d) /\ Kind(d)
  <2>1. ASSUME NEW p \in Proxies, h \in rf[p] PROVE FALSE
    <3>1. h \in c.refs[p]  BY <1>4, <2>1
    <3>2. PICK r \in c.map : r.host = h /\ r.proxy = p  BY <1>6, <3>1 DEF Listed
    <3>3. h \in HostsOf(c.map)  BY <3>2 DEF HostsOf
    <3>4. RowOf(c.map, h) = r  BY <3>2, <3>3, RowOfHost
    <3> QED  BY <1>4, <2>1, <3>2, <3>3, <3>4
  <2>2. \A p \in Proxies : \A g \in Hosts : g \in rf[p] <=> g \in c.refs[p] /\ g # h
    BY <1>4, <2>1
  <2>3. h \notin HostsOf(c.map) => c.updates[h] \notin Proxies
    BY <1>6 DEF Listed, Kind, HostsOf
  <2>4. up[h] \notin Proxies
    BY <1>3, <2>3, Bounds
  <2>5. \A r \in c.map : r.host \in Hosts /\ r.proxy \in Proxies /\ (r.host = h => up[h] # Keep)
    BY <1>t, <1>3, Bounds DEF HostsOf, RowType
  <2>6. Online(d) = Online(c)  BY <1>5 DEF Online
  <2>a. \A p \in Proxies : \A g \in d.refs[p] :
          /\ \E r \in d.map : r.host = g /\ r.proxy = p
          /\ g \in d.hosts /\ g \notin d.unassigned /\ d.updates[g] \in {Keep, p}
    BY <1>2, <1>3, <1>4, <1>5, <1>6, <2>2 DEF Listed
  <2>b. \A g \in d.hosts :
          g \in d.unassigned \/ d.updates[g] \in Proxies \/ \E p \in Proxies : g \in d.refs[p]
    BY <1>t, <1>3, <1>4, <1>5, <1>6, <2>2 DEF Listed
  <2>c. \A g \in d.unassigned : g \in d.hosts /\ d.updates[g] \notin Proxies
    BY <1>t, <1>3, <1>4, <1>5, <1>6 DEF Listed
  <2>d. \A g \in Hosts : d.updates[g] \in Proxies =>
          /\ g \in d.hosts
          /\ d.state = "online" => d.updates[g] \in Online(d)
          /\ \A p \in Proxies : g \in d.refs[p] => d.updates[g] = p
    BY <1>3, <1>4, <1>5, <1>6, <2>2, <2>4, <2>6 DEF Listed
  <2>e. \A r \in d.map : r.host \in d.refs[r.proxy] \/ d.updates[r.host] # Keep
    BY <1>3, <1>5, <1>6, <2>2, <2>5 DEF Listed
  <2>f. d.state = "online" => \A p \in Proxies \ Online(d) : d.refs[p] = {}
    BY <1>2, <1>5, <1>6, <2>2, <2>6 DEF Listed
  <2>g. Listed(d)
    BY <2>a, <2>b, <2>c, <2>d, <2>e, <2>f DEF Listed
  <2>h. Kind(d)
    BY <1>3, <1>5, <1>6, <2>2, <2>4 DEF Kind
  <2> QED  BY <2>g, <2>h
<1>7. up[h] \in {c.updates[h], NoProxy}  BY <1>3
<1>8. Moved(c, d, h) /\ h \notin d.hosts
  BY <1>3, <1>4, <1>5 DEF Moved
<1> QED  BY <1>5, <1>6, <1>7, <1>8 DEF d

\* pg_service.c: a host that stays is given to its proxy again.
LEMMA TouchedHost ==
    ASSUME NEW c \in CacheType(GroupStates), NEW h \in Hosts, h \in c.hosts,
           \A r, s \in c.map : r.host = s.host => r = s
    PROVE  LET d == TouchHost(c, h)
           IN  /\ Moved(c, d, h) /\ d.hosts = c.hosts
               /\ h \notin HostsOf(c.map) => d.updates[h] = c.updates[h]
               /\ Listed(c) /\ Kind(c) /\ h \notin c.unassigned \cap HostsOf(c.map)
                    => Listed(d) /\ Kind(d)
<1>1. CASE h \notin HostsOf(c.map)
  <2>1. TouchHost(c, h) = c  BY <1>1 DEF TouchHost
  <2> QED  BY <1>1, <2>1 DEF Moved
<1>2. CASE h \in HostsOf(c.map)
  <2> DEFINE d == TouchHost(c, h)
             q == RowOf(c.map, h).proxy
             up == [c.updates EXCEPT ![h] = q]
  <2>1. d = [c EXCEPT !.updates = up, !.queued = TRUE]
    BY <1>2 DEF TouchHost
  <2>t. /\ c.updates \in [Hosts -> Proxies \cup {NoProxy, Keep}]
        /\ c.refs \in [Proxies -> SUBSET Hosts] /\ c.map \in SUBSET RowType
    BY DEF CacheType
  <2>2. /\ RowOf(c.map, h) \in c.map /\ RowOf(c.map, h).host = h
        /\ q = RowOf(c.map, h).proxy
    BY <1>2, RowOfHost
  <2>3. q \in Proxies  BY <2>2, <2>t DEF RowType
  <2> HIDE DEF q
  <2>4. /\ up \in [Hosts -> Proxies \cup {NoProxy, Keep}]
        /\ \A g \in Hosts \ {h} : up[g] = c.updates[g]
        /\ up[h] = q
    BY <2>t, <2>3
  <2> HIDE DEF d, up
  <2>5. /\ d \in CacheType(GroupStates) /\ d.queued
        /\ d.map = c.map /\ d.last = c.last /\ d.shown = c.shown /\ d.updates = up
        /\ d.deleted = c.deleted /\ d.synced = c.synced
        /\ d.refs = c.refs /\ d.state = c.state /\ d.pstate = c.pstate
        /\ d.hosts = c.hosts /\ d.unassigned = c.unassigned
    BY <2>1, <2>4 DEF CacheType
  <2>6. Moved(c, d, h) /\ d.hosts = c.hosts
    BY <2>4, <2>5 DEF Moved
  <2>7. ASSUME Listed(c), Kind(c), h \notin c.unassigned PROVE Listed(d) /\ Kind(d)
    <3>1. \A p \in Proxies : h \in c.refs[p] => p = q
      <4> SUFFICES ASSUME NEW p \in Proxies, h \in c.refs[p] PROVE p = q
        OBVIOUS
      <4>1. PICK r \in c.map : r.host = h /\ r.proxy = p  BY <2>7 DEF Listed
      <4> QED  BY <2>2, <4>1
    <3>2. \E p \in Proxies : h \in c.refs[p]
      BY <2>7 DEF Listed, Kind
    <3>3. h \in c.refs[q]
      BY <3>1, <3>2
    <3>4. c.state = "online" => q \in Online(c)
      BY <2>3, <2>7, <3>3 DEF Listed
    <3>5. Online(d) = Online(c)  BY <2>5 DEF Online
    <3>6. q # Keep  BY <2>3, Bounds
    <3>a. \A p \in Proxies : \A g \in d.refs[p] :
            /\ \E r \in d.map : r.host = g /\ r.proxy = p
            /\ g \in d.hosts /\ g \notin d.unassigned /\ d.updates[g] \in {Keep, p}
      BY <2>t, <2>4, <2>5, <2>7, <3>1 DEF Listed
    <3>b. \A g \in d.hosts :
            g \in d.unassigned \/ d.updates[g] \in Proxies \/ \E p \in Proxies : g \in d.refs[p]
      <4>1. d.hosts \in SUBSET Hosts  BY <2>5 DEF CacheType
      <4> QED  BY <2>3, <2>4, <2>5, <2>7, <4>1 DEF Listed
    <3>c. \A g \in d.unassigned : g \in d.hosts /\ d.updates[g] \notin Proxies
      <4>1. d.unassigned \in SUBSET Hosts  BY <2>5 DEF CacheType
      <4> QED  BY <2>4, <2>5, <2>7, <4>1 DEF Listed
    <3>d. \A g \in Hosts : d.updates[g] \in Proxies =>
            /\ g \in d.hosts
            /\ d.state = "online" => d.updates[g] \in Online(d)
            /\ \A p \in Proxies : g \in d.refs[p] => d.updates[g] = p
      BY <2>4, <2>5, <2>7, <3>1, <3>4, <3>5 DEF Listed
    <3>e. \A r \in d.map : r.host \in d.refs[r.proxy] \/ d.updates[r.host] # Keep
      <4>1. \A r \in c.map : r.host \in Hosts  BY <2>t DEF RowType
      <4> QED  BY <2>4, <2>5, <2>7, <3>6, <4>1 DEF Listed
    <3>f. d.state = "online" => \A p \in Proxies \ Online(d) : d.refs[p] = {}
      BY <2>5, <2>7, <3>5 DEF Listed
    <3>g. Listed(d)
      BY <3>a, <3>b, <3>c, <3>d, <3>e, <3>f DEF Listed
    <3>h. Kind(d)
      BY <2>4, <2>5, <2>7, <3>3 DEF Kind
    <3> QED  BY <3>g, <3>h
  <2> QED  BY <1>2, <2>6, <2>7 DEF d
<1> QED  BY <1>1, <1>2

\* The first relocation is heard of.
LEMMA ChainedTail ==
    ASSUME mail \in Seq(Mail), mail # <<>>, mail' = Tail(mail), conf' = conf, Chained,
           \A h \in Hosts : h \in cache'.hosts <=>
              IF h = Head(mail).host THEN Head(mail).dst = "in" ELSE h \in cache.hosts
    PROVE  Chained' /\ (Head(mail).src = "in" <=> Head(mail).host \in cache.hosts)
<1> DEFINE n == Len(mail)
           m == Head(mail)
<1>1. /\ n \in Nat \ {0} /\ m = mail[1] /\ mail' \in Seq(Mail) /\ Len(mail') = n - 1
      /\ \A i \in 1..n - 1 : mail'[i] = mail[i + 1]
      /\ \A i \in 1..n : mail[i].host \in Hosts
  BY DEF Mail
<1> HIDE DEF n, m
<1>s. m.src = "in" <=> m.host \in cache.hosts
  <2>1. (\A i \in 1..1 - 1 : mail[i].host # mail[1].host) =>
          (mail[1].src = "in" <=> mail[1].host \in cache.hosts)
    BY <1>1 DEF Chained, n
  <2> QED  BY <1>1, <2>1
<1>a. ASSUME NEW j \in 1..n - 1, \A i \in 1..j - 1 : mail'[i].host # mail'[j].host
      PROVE  mail'[j].src = "in" <=> mail'[j].host \in cache'.hosts
  <2>1. j + 1 \in 1..n /\ mail'[j] = mail[j + 1] /\ 1 \in 1..n
    BY <1>1
  <2>2. \A i \in 2..j : mail[i].host # mail[j + 1].host
    <3> TAKE i \in 2..j
    <3>1. i - 1 \in 1..j - 1 /\ i - 1 \in 1..n - 1 /\ (i - 1) + 1 = i  BY <1>1
    <3> QED  BY <1>1, <1>a, <2>1, <3>1
  <2>3. CASE mail[j + 1].host = m.host
    <3>1. \A k \in 1 + 1..(j + 1) - 1 : mail[k].host # mail[j + 1].host
      BY <2>2
    <3>2. mail[j + 1].src = "in" <=> mail[1].dst = "in"
      <4>1. 1 < j + 1 /\ mail[1].host = mail[j + 1].host  BY <1>1, <2>3
      <4> QED  BY <2>1, <3>1, <4>1 DEF Chained, n
    <3> QED  BY <1>1, <2>1, <2>3, <3>2 DEF m
  <2>4. CASE mail[j + 1].host # m.host
    <3>1. \A i \in 1..(j + 1) - 1 : mail[i].host # mail[j + 1].host
      <4> TAKE i \in 1..(j + 1) - 1
      <4>1. i = 1 \/ i \in 2..j  OBVIOUS
      <4> QED  BY <1>1, <2>2, <2>4, <4>1
    <3>2. mail[j + 1].src = "in" <=> mail[j + 1].host \in cache.hosts
      BY <2>1, <3>1 DEF Chained, n
    <3> QED  BY <1>1, <2>1, <2>4, <3>2 DEF m
  <2> QED  BY <2>3, <2>4
<1>b. ASSUME NEW i \in 1..n - 1, NEW j \in 1..n - 1, i < j, mail'[i].host = mail'[j].host,
             \A k \in i + 1..j - 1 : mail'[k].host # mail'[j].host
      PROVE  mail'[j].src = "in" <=> mail'[i].dst = "in"
  <2>1. /\ i + 1 \in 1..n /\ j + 1 \in 1..n /\ i + 1 < j + 1
        /\ mail'[i] = mail[i + 1] /\ mail'[j] = mail[j + 1]
    BY <1>1, <1>b
  <2>2. \A k \in (i + 1) + 1..(j + 1) - 1 : mail[k].host # mail[j + 1].host
    <3> TAKE k \in (i + 1) + 1..(j + 1) - 1
    <3>1. k - 1 \in i + 1..j - 1 /\ k - 1 \in 1..n - 1 /\ (k - 1) + 1 = k  BY <1>1
    <3> QED  BY <1>1, <1>b, <2>1, <3>1
  <2> QED  BY <1>b, <2>1, <2>2 DEF Chained, n
<1>c. ASSUME NEW i \in 1..n - 1, \A k \in i + 1..n - 1 : mail'[k].host # mail'[i].host
      PROVE  conf[mail'[i].host].at = "in" <=> mail'[i].dst = "in"
  <2>1. i + 1 \in 1..n /\ mail'[i] = mail[i + 1]
    BY <1>1
  <2>2. \A k \in (i + 1) + 1..n : mail[k].host # mail[i + 1].host
    <3> TAKE k \in (i + 1) + 1..n
    <3>1. k - 1 \in i + 1..n - 1 /\ k - 1 \in 1..n - 1 /\ (k - 1) + 1 = k  BY <1>1
    <3> QED  BY <1>1, <1>c, <2>1, <3>1
  <2> QED  BY <2>1, <2>2 DEF Chained, n
<1>d. ASSUME NEW h \in Hosts, \A i \in 1..n - 1 : mail'[i].host # h
      PROVE  conf[h].at = "in" <=> h \in cache'.hosts
  <2>1. \A i \in 2..n : mail[i].host # h
    <3> TAKE i \in 2..n
    <3>1. i - 1 \in 1..n - 1 /\ (i - 1) + 1 = i  BY <1>1
    <3> QED  BY <1>1, <1>d, <3>1
  <2>2. CASE h = m.host
    <3>1. 1 \in 1..n /\ \A k \in 1 + 1..n : mail[k].host # mail[1].host
      BY <1>1, <2>1, <2>2
    <3>2. conf[mail[1].host].at = "in" <=> mail[1].dst = "in"
      BY <3>1 DEF Chained, n
    <3> QED  BY <1>1, <2>2, <3>2 DEF m
  <2>3. CASE h # m.host
    <3>1. \A i \in 1..n : mail[i].host # h
      <4> TAKE i \in 1..n
      <4>1. i = 1 \/ i \in 2..n  BY <1>1
      <4> QED  BY <1>1, <2>1, <2>3, <4>1
    <3>2. conf[h].at = "in" <=> h \in cache.hosts
      BY <3>1 DEF Chained, n
    <3> QED  BY <2>3, <3>2 DEF m
  <2> QED  BY <2>2, <2>3
<1>2. Len(mail') = n - 1 /\ 1..Len(mail') = 1..n - 1
  BY <1>1
<1>e. \A j \in 1..Len(mail') : (\A i \in 1..j - 1 : mail'[i].host # mail'[j].host) =>
        (mail'[j].src = "in" <=> mail'[j].host \in cache'.hosts)
  BY <1>2, <1>a
<1>f. \A i, j \in 1..Len(mail') :
        /\ i < j /\ mail'[i].host = mail'[j].host
        /\ \A k \in i + 1..j - 1 : mail'[k].host # mail'[j].host
        => (mail'[j].src = "in" <=> mail'[i].dst = "in")
  <2>1. \A i, j \in 1..n - 1 :
           /\ i < j /\ mail'[i].host = mail'[j].host
           /\ \A k \in i + 1..j - 1 : mail'[k].host # mail'[j].host
           => (mail'[j].src = "in" <=> mail'[i].dst = "in")
    BY <1>b
  <2> QED  BY <1>2, <2>1, ZenonT(40)
<1>g. \A i \in 1..Len(mail') : (\A k \in i + 1..Len(mail') : mail'[k].host # mail'[i].host) =>
        (conf'[mail'[i].host].at = "in" <=> mail'[i].dst = "in")
  BY <1>2, <1>c
<1>h. \A h \in Hosts : (\A i \in 1..Len(mail') : mail'[i].host # h) =>
        (conf'[h].at = "in" <=> h \in cache'.hosts)
  BY <1>2, <1>d
<1>i. Chained'
  BY <1>e, <1>f, <1>g, <1>h, Zenon DEF Chained
<1> QED  BY <1>s, <1>i DEF m

LEMMA MailStep == IInv /\ UpdateHostPgroup => IInv'
<1> SUFFICES ASSUME IInv, UpdateHostPgroup PROVE IInv'
  OBVIOUS
<1> USE DEF IInv
<1> DEFINE m == Head(mail)
           h == m.host
<1>1. /\ mail # <<>> /\ mail' = Tail(mail)
      /\ cache' = IF m.src = m.dst THEN TouchHost(cache, h)
                  ELSE IF m.src = "in" THEN RemoveHost(cache, h) ELSE AddHost(cache, h)
      /\ crossed' = (crossed \/ (m.src = m.dst /\ h \in cache.unassigned \cap HostsOf(cache.map)))
      /\ UNCHANGED <<conf, rows, ids, pgm, heard, quiet, known, refused>>
  BY DEF UpdateHostPgroup
<1>2. m \in Mail /\ mail' \in Seq(Mail)
  BY <1>1 DEF Types
<1> HIDE DEF m
<1>3. /\ h \in Hosts /\ m.src \in Places /\ m.dst \in Places
      /\ m.src = "in" \/ m.dst = "in"
  BY <1>2 DEF Mail
<1> HIDE DEF h
<1>4. m.src = "in" <=> h \in cache.hosts
  <2>1. (\A i \in 1..1 - 1 : mail[i].host # mail[1].host) =>
          (mail[1].src = "in" <=> mail[1].host \in cache.hosts)
    <3>1. 1 \in 1..Len(mail)  BY <1>1 DEF Types
    <3> QED  BY <3>1 DEF Chained
  <2> QED  BY <1>1, <2>1 DEF m, h, Types
<1>5. cache \in CacheType(GroupStates) /\ \A r, s \in cache.map : r.host = s.host => r = s
  BY DEF Types, OneRow
<1>6. /\ Moved(cache, cache', h)
      /\ h \in cache'.hosts <=> m.dst = "in"
      /\ \/ cache'.updates[h] \in {cache.updates[h], NoProxy}
         \/ h \in HostsOf(cache.map)
      /\ Listed(cache) /\ Kind(cache) /\ ~crossed' => Listed(cache') /\ Kind(cache')
  <2>1. CASE m.src = m.dst
    <3>1. cache' = TouchHost(cache, h) /\ h \in cache.hosts
      BY <1>1, <1>3, <1>4, <2>1
    <3>2. /\ Moved(cache, cache', h) /\ cache'.hosts = cache.hosts
          /\ h \notin HostsOf(cache.map) => cache'.updates[h] = cache.updates[h]
          /\ Listed(cache) /\ Kind(cache) /\ h \notin cache.unassigned \cap HostsOf(cache.map)
               => Listed(cache') /\ Kind(cache')
      BY <1>3, <1>5, <3>1, TouchedHost
    <3> QED  BY <1>1, <1>3, <1>4, <2>1, <3>2
  <2>2. CASE m.src # m.dst /\ m.src = "in"
    <3>1. cache' = RemoveHost(cache, h)  BY <1>1, <2>2
    <3>2. /\ Moved(cache, cache', h) /\ h \notin cache'.hosts
          /\ cache'.updates[h] \in {cache.updates[h], NoProxy}
          /\ Listed(cache) /\ Kind(cache) => Listed(cache') /\ Kind(cache')
      BY <1>3, <1>5, <3>1, Left
    <3> QED  BY <2>2, <3>2
  <2>3. CASE m.src # m.dst /\ m.src # "in"
    <3>1. cache' = AddHost(cache, h) /\ h \notin cache.hosts  BY <1>1, <1>4, <2>3
    <3>2. /\ Moved(cache, cache', h) /\ h \in cache'.hosts /\ cache'.updates = cache.updates
          /\ Listed(cache) /\ Kind(cache) => Listed(cache') /\ Kind(cache')
      BY <1>3, <1>5, <3>1, Joined
    <3> QED  BY <1>3, <2>3, <3>2
  <2> QED  BY <2>1, <2>2, <2>3
<1>7. /\ cache' \in CacheType(GroupStates)
      /\ cache'.map = cache.map /\ cache'.last = cache.last /\ cache'.shown = cache.shown
      /\ \A g \in Hosts \ {h} : /\ g \in cache'.hosts <=> g \in cache.hosts
                                /\ cache'.updates[g] = cache.updates[g]
  BY <1>6 DEF Moved
<1>a. Types'
  <2>1. crossed' \in BOOLEAN  BY <1>1 DEF Types
  <2> QED  BY <1>1, <1>2, <1>7, <2>1 DEF Types
<1>b. Counted' /\ OneRow'
  BY <1>1, <1>7 DEF Counted, OneRow
<1>c. Stored'
  <2>1. Writing => Writing'  BY <1>1, <1>7 DEF Writing
  <2> QED  BY <1>1, <1>7, <2>1 DEF Stored
<1>d. DbMatches'
  <2> SUFFICES ASSUME pgm.pc # "commit", ~refused, NEW r \in rows, r \notin cache.map
               PROVE  cache'.updates[r.host] = NoProxy
    BY <1>1, <1>7 DEF DbMatches
  <2>1. cache.updates[r.host] = NoProxy /\ r.host \in Hosts
    BY DEF DbMatches, Types, RowType
  <2>2. r.host \notin HostsOf(cache.map)
    <3> SUFFICES ASSUME NEW s \in cache.map, s.host = r.host PROVE FALSE
      BY DEF HostsOf
    <3>1. s \in rows  BY DEF DbMatches, OneRow
    <3> QED  BY <3>1 DEF OneRow
  <2> QED  BY <1>6, <1>7, <2>1, <2>2
<1>e. Linked'
  BY <1>1, <1>6 DEF Linked
<1>f. Chained'
  <2>1. \A g \in Hosts : g \in cache'.hosts <=>
              IF g = Head(mail).host THEN Head(mail).dst = "in" ELSE g \in cache.hosts
    BY <1>6, <1>7 DEF m, h
  <2>2. mail \in Seq(Mail)  BY DEF Types
  <2> QED  BY <1>1, <2>1, <2>2, ChainedTail
<1> QED  BY <1>a, <1>b, <1>c, <1>d, <1>e, <1>f

----------------------------------------------------------------------------
(* The steps of the environment and of the proxies. *)

\* A relocation is sent off.
LEMMA ChainedAppend ==
    ASSUME mail \in Seq(Mail), conf \in [Hosts -> [at : Places, name : Nat]],
           NEW h \in Hosts, NEW c \in [at : Places, name : Nat],
           conf' = [conf EXCEPT ![h] = c], cache' = cache, Chained,
           NEW m \in Mail, m.host = h, m.src = conf[h].at, m.dst = c.at,
           mail' = Append(mail, m)
    PROVE  Chained'
<1> DEFINE n == Len(mail)
<1>1. /\ n \in Nat /\ mail' \in Seq(Mail) /\ Len(mail') = n + 1 /\ mail'[n + 1] = m
      /\ \A i \in 1..n : mail'[i] = mail[i] /\ mail[i].host \in Hosts
  BY DEF Mail
<1>2. /\ conf'[h].at = c.at /\ \A g \in Hosts \ {h} : conf'[g] = conf[g]
  OBVIOUS
<1> HIDE DEF n
<1>a. ASSUME NEW j \in 1..n + 1, \A i \in 1..j - 1 : mail'[i].host # mail'[j].host
      PROVE  mail'[j].src = "in" <=> mail'[j].host \in cache.hosts
  <2>1. CASE j \in 1..n
    <3>1. \A i \in 1..j - 1 : i \in 1..n  BY <1>1, <2>1
    <3>2. \A i \in 1..j - 1 : mail[i].host # mail[j].host  BY <1>1, <1>a, <2>1, <3>1
    <3> QED  BY <1>1, <2>1, <3>2 DEF Chained, n
  <2>2. CASE j = n + 1
    <3>1. \A i \in 1..n : mail[i].host # h  BY <1>1, <1>a, <2>2
    <3>2. conf[h].at = "in" <=> h \in cache.hosts  BY <3>1 DEF Chained, n
    <3> QED  BY <1>1, <2>2, <3>2
  <2> QED  BY <1>1, <2>1, <2>2
<1>b. ASSUME NEW i \in 1..n + 1, NEW j \in 1..n + 1, i < j, mail'[i].host = mail'[j].host,
             \A k \in i + 1..j - 1 : mail'[k].host # mail'[j].host
      PROVE  mail'[j].src = "in" <=> mail'[i].dst = "in"
  <2>0. i \in 1..n /\ \A k \in i + 1..j - 1 : k \in 1..n
    BY <1>1, <1>b
  <2>1. CASE j \in 1..n
    <3>1. \A k \in i + 1..j - 1 : mail[k].host # mail[j].host  BY <1>1, <1>b, <2>0, <2>1
    <3>2. mail[i].host = mail[j].host  BY <1>1, <1>b, <2>0, <2>1
    <3> QED  BY <1>1, <1>b, <2>0, <2>1, <3>1, <3>2 DEF Chained, n
  <2>2. CASE j = n + 1
    <3>1. mail[i].host = h  BY <1>1, <1>b, <2>0, <2>2
    <3>2. \A k \in i + 1..n : mail[k].host # mail[i].host  BY <1>1, <1>b, <2>0, <2>2, <3>1
    <3>3. conf[h].at = "in" <=> mail[i].dst = "in"  BY <2>0, <3>1, <3>2 DEF Chained, n
    <3> QED  BY <1>1, <2>0, <2>2, <3>3
  <2> QED  BY <1>1, <2>1, <2>2
<1>c. ASSUME NEW i \in 1..n + 1, \A k \in i + 1..n + 1 : mail'[k].host # mail'[i].host
      PROVE  conf'[mail'[i].host].at = "in" <=> mail'[i].dst = "in"
  <2>1. CASE i \in 1..n
    <3>1. n + 1 \in i + 1..n + 1 /\ \A k \in i + 1..n : k \in i + 1..n + 1 /\ k \in 1..n
      BY <1>1, <2>1
    <3>2. \A k \in i + 1..n : mail[k].host # mail[i].host  BY <1>1, <1>c, <2>1, <3>1
    <3>3. mail[i].host # h /\ mail[i].host \in Hosts  BY <1>1, <1>c, <2>1, <3>1
    <3>4. conf[mail[i].host].at = "in" <=> mail[i].dst = "in"
      BY <2>1, <3>2 DEF Chained, n
    <3> QED  BY <1>1, <1>2, <2>1, <3>3, <3>4
  <2>2. CASE i = n + 1
    BY <1>1, <1>2, <2>2
  <2> QED  BY <1>1, <2>1, <2>2
<1>d. ASSUME NEW g \in Hosts, \A i \in 1..n + 1 : mail'[i].host # g
      PROVE  conf'[g].at = "in" <=> g \in cache.hosts
  <2>1. n + 1 \in 1..n + 1 /\ \A i \in 1..n : i \in 1..n + 1  BY <1>1
  <2>2. g # h /\ \A i \in 1..n : mail[i].host # g  BY <1>1, <1>d, <2>1
  <2> QED  BY <1>2, <2>2 DEF Chained, n
<1>3. Len(mail') = n + 1 /\ cache'.hosts = cache.hosts
  BY <1>1
<1>e. \A j \in 1..Len(mail') : (\A i \in 1..j - 1 : mail'[i].host # mail'[j].host) =>
        (mail'[j].src = "in" <=> mail'[j].host \in cache'.hosts)
  BY <1>3, <1>a
<1>f. \A i, j \in 1..Len(mail') :
        /\ i < j /\ mail'[i].host = mail'[j].host
        /\ \A k \in i + 1..j - 1 : mail'[k].host # mail'[j].host
        => (mail'[j].src = "in" <=> mail'[i].dst = "in")
  <2>1. \A i, j \in 1..n + 1 :
           /\ i < j /\ mail'[i].host = mail'[j].host
           /\ \A k \in i + 1..j - 1 : mail'[k].host # mail'[j].host
           => (mail'[j].src = "in" <=> mail'[i].dst = "in")
    BY <1>b
  <2>2. 1..Len(mail') = 1..n + 1  BY <1>3
  <2> QED  BY <2>1, <2>2, ZenonT(40)
<1>g. \A i \in 1..Len(mail') : (\A k \in i + 1..Len(mail') : mail'[k].host # mail'[i].host) =>
        (conf'[mail'[i].host].at = "in" <=> mail'[i].dst = "in")
  BY <1>3, <1>c
<1>h. \A g \in Hosts : (\A i \in 1..Len(mail') : mail'[i].host # g) =>
        (conf'[g].at = "in" <=> g \in cache'.hosts)
  BY <1>3, <1>d
<1> QED  BY <1>e, <1>f, <1>g, <1>h, Zenon DEF Chained

LEMMA EditStep == ASSUME NEW h \in Hosts PROVE IInv /\ EditHost(h) => IInv'
<1> SUFFICES ASSUME IInv, EditHost(h) PROVE IInv'
  OBVIOUS
<1> USE DEF IInv
<1>1. /\ conf[h].at # "gone"
      /\ UNCHANGED <<ids, cache, pgm, heard, quiet, known, refused, crossed>>
  BY DEF EditHost
<1>2. PICK c \in {[at |-> "in", name |-> conf[h].name], [at |-> "out", name |-> conf[h].name],
                  [at |-> "gone", name |-> conf[h].name],
                  [at |-> conf[h].at, name |-> conf[h].name + 1]} :
         /\ conf' = [conf EXCEPT ![h] = c]
         /\ mail' = IF "in" \in {c.at, conf[h].at}
                    THEN Append(mail, [host |-> h, src |-> conf[h].at, dst |-> c.at])
                    ELSE mail
         /\ rows' = IF c.at = "gone" THEN {r \in rows : r.host # h} ELSE rows
  BY DEF EditHost
<1>3. conf \in [Hosts -> [at : Places, name : Nat]] /\ mail \in Seq(Mail)
  BY DEF Types
<1>4. c \in [at : Places, name : Nat]
  BY <1>2, <1>3 DEF Places
<1>5. /\ conf' \in [Hosts -> [at : Places, name : Nat]]
      /\ conf'[h] = c /\ \A g \in Hosts \ {h} : conf'[g] = conf[g]
  BY <1>2, <1>3, <1>4
<1>6. /\ rows' \subseteq rows
      /\ \A r \in rows : r \in rows' \/ (c.at = "gone" /\ r.host = h)
      /\ c.at = "gone" => \A r \in rows' : r.host # h
  BY <1>2
<1> DEFINE m == [host |-> h, src |-> conf[h].at, dst |-> c.at]
<1>7. m.host = h /\ m.src = conf[h].at /\ m.dst = c.at
  OBVIOUS
<1>8. "in" \in {c.at, conf[h].at} => m \in Mail
  BY <1>3, <1>4 DEF Mail
<1>9. mail' = IF "in" \in {c.at, conf[h].at} THEN Append(mail, m) ELSE mail
  BY <1>2
<1> HIDE DEF m
<1>10. \A g \in Hosts : conf[g].at = "gone" => conf'[g].at = "gone"
  BY <1>1, <1>5
<1>11. \A r \in rows \cup cache.map : r.host \in Hosts
  BY DEF Types, CacheType, RowType
<1>a. Types'
  <2>1. mail' \in Seq(Mail)  BY <1>3, <1>8, <1>9
  <2>2. rows' \in SUBSET RowType  BY <1>6 DEF Types
  <2> QED  BY <1>1, <1>5, <2>1, <2>2 DEF Types
<1>b. Counted'
  BY <1>1, <1>6 DEF Counted
<1>c. OneRow'
  BY <1>1, <1>5, <1>6, <1>11 DEF OneRow
<1>d. Stored'
  <2> SUFFICES ASSUME Writing PROVE Writing'
    BY <1>1 DEF Stored
  <2>1. ASSUME NEW r \in cache.map, conf'[r.host].at # "gone"
        PROVE  \/ r \in pgm.new
               \/ r \in pgm.mod /\ \E s \in rows' : s.host = r.host /\ s.id = r.id
               \/ r \in rows' /\ r.host \notin HostsOf(pgm.mod) \cup pgm.del
    <3>1. conf[r.host].at # "gone"  BY <1>10, <1>11, <2>1
    <3>2. \A s \in rows : s.host = r.host => s \in rows'  BY <1>5, <1>6, <2>1
    <3> QED  BY <3>1, <3>2 DEF Writing
  <2> QED  BY <1>1, <1>6, <2>1 DEF Writing
<1>e. DbMatches'
  <2> SUFFICES ASSUME pgm.pc # "commit", ~refused
               PROVE  /\ \A r \in cache.map : r \in rows' \/ conf'[r.host].at = "gone"
                      /\ \A r \in rows' : r \in cache.map \/ cache.updates[r.host] = NoProxy
                      /\ ids.rev = cache.last
    BY <1>1 DEF DbMatches
  <2>1. \A r \in cache.map : r \in rows' \/ conf'[r.host].at = "gone"
    BY <1>5, <1>6, <1>10, <1>11 DEF DbMatches
  <2> QED  BY <1>6, <2>1 DEF DbMatches
<1>f. Linked'
  BY <1>1 DEF Linked
<1>g. Chained'
  <2>1. CASE "in" \in {c.at, conf[h].at}
    <3>1. mail' = Append(mail, m) /\ m \in Mail  BY <1>8, <1>9, <2>1
    <3>2. cache' = cache /\ conf' = [conf EXCEPT ![h] = c] /\ Chained  BY <1>1, <1>2
    <3> QED  BY <1>3, <1>4, <1>7, <3>1, <3>2, ChainedAppend
  <2>2. CASE "in" \notin {c.at, conf[h].at}
    <3>1. mail' = mail /\ cache' = cache  BY <1>1, <1>9, <2>2
    <3>2. \A g \in Hosts : conf'[g].at = "in" <=> conf[g].at = "in"  BY <1>5, <2>2
    <3>3. \A i \in 1..Len(mail) : mail[i].host \in Hosts  BY <1>3 DEF Mail
    <3> QED  BY <3>1, <3>2, <3>3 DEF Chained
  <2> QED  BY <2>1, <2>2
<1> QED  BY <1>a, <1>b, <1>c, <1>d, <1>e, <1>f, <1>g

LEMMA RestartStep == IInv /\ RestartServer => IInv'
<1> SUFFICES ASSUME IInv, RestartServer PROVE IInv'
  OBVIOUS
<1> USE DEF IInv
<1>1. /\ mail' = <<>> /\ cache' = Started(quiet) /\ pgm' = [Nothing EXCEPT !.pc = "check"]
      /\ known' = {} /\ crossed' = FALSE
      /\ UNCHANGED <<conf, rows, ids, heard, quiet, refused>>
  BY DEF RestartServer
<1> DEFINE in == {h \in Hosts : conf[h].at = "in"}
<1>2. /\ cache' \in CacheType(GroupStates)
      /\ cache'.map = {r \in rows : r.host \in in}
      /\ cache'.hosts = in /\ cache'.last = ids.rev /\ cache'.shown <= cache'.last
      /\ \A h \in Hosts : cache'.updates[h] = IF h \in HostsOf(rows) \ in THEN NoProxy ELSE Keep
      /\ Listed(cache') /\ Kind(cache')
  BY <1>1, StartedCache DEF Types, Counted
<1>3. /\ pgm'.new = {} /\ pgm'.mod = {} /\ pgm'.pc = "check"
      /\ pgm' \in [pc : {"idle", "check", "commit", "publish"}, new : SUBSET RowType,
                   mod : SUBSET RowType, del : SUBSET Hosts, touched : BOOLEAN]
  BY <1>1 DEF Nothing
<1>4. \A h \in in : h \in Hosts /\ conf[h].at = "in"
  OBVIOUS
<1>5. \A h \in Hosts : conf[h].at = "in" => h \in in
  OBVIOUS
<1> HIDE DEF in
<1>a. Types'
  <2>1. mail' \in Seq(Mail) /\ known' \in SUBSET Proxies  BY <1>1
  <2> QED  BY <1>1, <1>2, <1>3, <2>1 DEF Types
<1>b. Counted'
  <2>1. ids.rev \in Nat  BY DEF Types
  <2> QED  BY <1>1, <1>2, <2>1 DEF Counted
<1>c. OneRow' /\ Stored' /\ Linked'
  BY <1>1, <1>2, <1>3 DEF OneRow, Stored, Linked
<1>d. DbMatches'
  <2>1. ASSUME NEW r \in rows, r \notin cache'.map PROVE cache'.updates[r.host] = NoProxy
    <3>1. r.host \in HostsOf(rows) \ in /\ r.host \in Hosts
      BY <1>2, <2>1 DEF HostsOf, Types, RowType
    <3> QED  BY <1>2, <3>1
  <2> QED  BY <1>1, <1>2, <2>1 DEF DbMatches
<1>e. Chained'
  <2>1. Len(mail') = 0  BY <1>1
  <2>2. \A h \in Hosts : conf'[h].at = "in" <=> h \in cache'.hosts
    BY <1>1, <1>2, <1>4, <1>5
  <2> QED  BY <2>1, <2>2 DEF Chained
<1> QED  BY <1>a, <1>b, <1>c, <1>d, <1>e

LEMMA AskStep == ASSUME NEW p \in Proxies PROVE IInv /\ GetProxySyncData(p) => IInv'
<1> SUFFICES ASSUME IInv, GetProxySyncData(p) PROVE IInv'
  OBVIOUS
<1> USE DEF IInv
<1> DEFINE asked == IF p \notin known \/ ~remote[p].configured THEN 0 ELSE remote[p].rev
           sy == [cache.synced EXCEPT ![p] = cache.synced[p] \/ cache.shown # 0]
           de == [cache.deleted EXCEPT ![p] = Kept(p, asked)]
<1>1. /\ cache' = [cache EXCEPT !.synced[p] = @ \/ cache.shown # 0, !.deleted[p] = Kept(p, asked)]
      /\ known' = known \cup {p}
      /\ UNCHANGED <<conf, mail, rows, ids, pgm, heard, quiet, refused, crossed>>
  BY DEF GetProxySyncData
<1>2. cache \in CacheType(GroupStates)
  BY DEF Types
<1>3. cache' = [cache EXCEPT !.synced = sy, !.deleted = de]
  BY <1>1
<1>4. sy \in [Proxies -> BOOLEAN]
  BY <1>2 DEF CacheType
<1>5. Kept(p, asked) \in SUBSET [id : Nat, rev : Nat]
  BY <1>2 DEF Kept, Told, CacheType
<1>6. de \in [Proxies -> SUBSET [id : Nat, rev : Nat]]
  <2> HIDE DEF asked
  <2> QED  BY <1>2, <1>5 DEF CacheType
<1> HIDE DEF sy, de
<1>7. /\ cache' \in CacheType(GroupStates)
      /\ cache'.shown = cache.shown /\ cache'.last = cache.last /\ cache'.map = cache.map
      /\ cache'.hosts = cache.hosts /\ cache'.unassigned = cache.unassigned
      /\ cache'.updates = cache.updates /\ cache'.refs = cache.refs
      /\ cache'.state = cache.state /\ cache'.pstate = cache.pstate
      /\ cache'.queued = cache.queued
  BY <1>2, <1>3, <1>4, <1>6 DEF CacheType
<1>a. Types'
  <2>1. known' \in SUBSET Proxies  BY <1>1 DEF Types
  <2> QED  BY <1>1, <1>7, <2>1 DEF Types
<1>b. Counted' /\ OneRow'
  BY <1>1, <1>7 DEF Counted, OneRow
<1>c. Stored'
  BY <1>1, <1>7 DEF Stored, Writing
<1>d. DbMatches'
  BY <1>1, <1>7 DEF DbMatches
<1>e. Linked'
  <2>1. Listed(cache) => Listed(cache')  BY <1>7 DEF Listed, Online
  <2>2. Kind(cache) => Kind(cache')  BY <1>7 DEF Kind
  <2> QED  BY <1>1, <2>1, <2>2 DEF Linked
<1>f. Chained'
  BY <1>1, <1>7 DEF Chained
<1> QED  BY <1>a, <1>b, <1>c, <1>d, <1>e, <1>f

\* The steps that leave the cache, the table and the mail alone.
LEMMA StillStep ==
    ASSUME IInv, UNCHANGED <<conf, mail, rows, ids, cache, quiet, refused, crossed>>,
           pgm' = pgm \/ (pgm' = Nothing /\ pgm.pc # "commit"),
           heard' \in SUBSET Proxies, known' \in SUBSET Proxies
    PROVE  IInv'
<1> USE DEF IInv
<1>1. pgm' \in [pc : {"idle", "check", "commit", "publish"}, new : SUBSET RowType,
                mod : SUBSET RowType, del : SUBSET Hosts, touched : BOOLEAN]
  <2>1. CASE pgm' = pgm
    BY <2>1 DEF Types
  <2>2. CASE pgm' = Nothing
    BY <2>2 DEF Nothing
  <2> QED  BY <2>1, <2>2
<1>2. Types' /\ Counted' /\ OneRow' /\ Linked'
  BY <1>1 DEF Types, Counted, OneRow, Linked
<1>3. Chained'
  BY DEF Chained
<1>4. CASE pgm' = pgm
  <2>1. Stored' /\ DbMatches'  BY <1>4 DEF Stored, Writing, DbMatches
  <2> QED  BY <1>2, <1>3, <2>1
<1>5. CASE pgm' = Nothing /\ pgm.pc # "commit"
  <2>1. Stored' /\ DbMatches'  BY <1>5 DEF Stored, DbMatches, Nothing
  <2> QED  BY <1>2, <1>3, <2>1
<1> QED  BY <1>4, <1>5

LEMMA InitStep == Init => IInv
<1> SUFFICES ASSUME Init PROVE IInv
  OBVIOUS
<1>1. left \in Setups /\ left.hosts \in SUBSET Hosts
  BY Bounds DEF Init
<1>2. conf = [h \in Hosts |-> [at |-> IF h \in left.hosts THEN "in" ELSE "gone", name |-> 0]]
  BY DEF Init
<1>3. PICK h \in left.hosts : \E p \in Proxies : rows \in {{}, {Row(h, 1, p, 1)}}
  BY DEF Init
<1>4. PICK p \in Proxies : rows \in {{}, {Row(h, 1, p, 1)}}
  BY <1>3
<1>5. ids = IF rows = {} THEN [id |-> 0, rev |-> 0] ELSE [id |-> 1, rev |-> 1]
  BY DEF Init
<1>6. /\ mail = <<>> /\ heard = Proxies /\ quiet = [q \in Proxies |-> 0]
      /\ cache = Started(quiet) /\ pgm = [Nothing EXCEPT !.pc = "check"]
      /\ known = {} /\ refused = FALSE /\ crossed = FALSE
  BY DEF Init
<1>7. /\ conf \in [Hosts -> [at : Places, name : Nat]]
      /\ \A g \in Hosts : conf[g].at = IF g \in left.hosts THEN "in" ELSE "gone"
  BY <1>2 DEF Places
<1>8. rows = {} \/ rows = {Row(h, 1, p, 1)}
  BY <1>4
<1>9. Row(h, 1, p, 1) \in RowType /\ Row(h, 1, p, 1).host = h
      /\ Row(h, 1, p, 1).id = 1 /\ Row(h, 1, p, 1).rev = 1
  BY <1>1 DEF Row, RowType
<1>10. /\ rows \in SUBSET RowType /\ ids \in [id : Nat, rev : Nat]
       /\ \A r \in rows : r.id \in 1..ids.id /\ r.rev >= 1 /\ r.rev <= ids.rev /\ r.host = h
       /\ \A r, s \in rows : r = s
  BY <1>5, <1>8, <1>9
<1>11. quiet \in [Proxies -> 0..Delay]
  BY <1>6, Bounds
<1> DEFINE in == {g \in Hosts : conf[g].at = "in"}
<1>12. /\ cache \in CacheType(GroupStates)
       /\ cache.map = {r \in rows : r.host \in in}
       /\ cache.hosts = in /\ cache.last = ids.rev /\ cache.shown <= cache.last
       /\ \A g \in Hosts : cache.updates[g] = IF g \in HostsOf(rows) \ in THEN NoProxy ELSE Keep
       /\ Listed(cache) /\ Kind(cache)
  BY <1>6, <1>7, <1>10, <1>11, StartedCache
<1>13. /\ \A g \in Hosts : g \in in <=> conf[g].at = "in"
       /\ h \in in
  BY <1>1, <1>7
<1> HIDE DEF in
<1>14. /\ pgm.new = {} /\ pgm.mod = {} /\ pgm.pc = "check"
       /\ pgm \in [pc : {"idle", "check", "commit", "publish"}, new : SUBSET RowType,
                   mod : SUBSET RowType, del : SUBSET Hosts, touched : BOOLEAN]
  BY <1>6 DEF Nothing
<1>15. cache.map = rows
  BY <1>10, <1>12, <1>13
<1>a. Types
  <2>1. mail \in Seq(Mail) /\ known \in SUBSET Proxies /\ heard \in SUBSET Proxies  BY <1>6
  <2> QED  BY <1>6, <1>7, <1>10, <1>11, <1>12, <1>14, <2>1 DEF Types
<1>b. Counted
  <2>1. ids.rev \in Nat  BY <1>10
  <2> QED  BY <1>10, <1>12, <1>15, <2>1 DEF Counted
<1>c. OneRow
  BY <1>1, <1>7, <1>10, <1>15 DEF OneRow
<1>d. Stored /\ DbMatches /\ Linked
  BY <1>12, <1>14, <1>15 DEF Stored, DbMatches, Linked
<1>e. Chained
  <2>1. Len(mail) = 0  BY <1>6
  <2> QED  BY <1>12, <1>13, <2>1 DEF Chained
<1> QED  BY <1>a, <1>b, <1>c, <1>d, <1>e DEF IInv

----------------------------------------------------------------------------
(* The theorems. *)

LEMMA NextStep == IInv /\ [Next]_vars => IInv'
<1> SUFFICES ASSUME IInv, [Next]_vars PROVE IInv'
  OBVIOUS
<1>k. known \in SUBSET Proxies /\ heard \in SUBSET Proxies
  BY DEF IInv, Types
<1>1. CASE Rebalance
  BY <1>1, RebalanceStep
<1>2. CASE NothingQueued
  BY <1>2, <1>k, StillStep DEF NothingQueued
<1>3. CASE Commit
  BY <1>3, CommitStep
<1>4. CASE Publish
  BY <1>4, PublishStep
<1>5. CASE Update
  BY <1>5, UpdateStep
<1>6. CASE UpdateHostPgroup
  BY <1>6, MailStep
<1>7. ASSUME NEW p \in Proxies, GetProxySyncData(p) PROVE IInv'
  BY <1>7, AskStep
<1>8. ASSUME NEW p \in Proxies, GetHostmap(p) PROVE IInv'
  BY <1>8, <1>k, StillStep DEF GetHostmap
<1>9. ASSUME NEW p \in Proxies, SyncProxyGroup(p) PROVE IInv'
  BY <1>9, <1>k, StillStep DEF SyncProxyGroup
<1>10. ASSUME NEW p \in Proxies, CommitFails(p) PROVE IInv'
  BY <1>10, <1>k, StillStep DEF CommitFails
<1>11. ASSUME NEW p \in Proxies, Lose(p) PROVE IInv'
  BY <1>11, <1>k, StillStep DEF Lose
<1>12. ASSUME NEW p \in Proxies, RestartProxy(p) PROVE IInv'
  BY <1>12, <1>k, StillStep DEF RestartProxy
<1>13. ASSUME NEW h \in Hosts, EditHost(h) PROVE IInv'
  BY <1>13, EditStep
<1>14. ASSUME NEW S \in SUBSET Proxies, Hear(S) PROVE IInv'
  BY <1>14, <1>k, StillStep DEF Hear
<1>15. CASE RestartServer
  BY <1>15, RestartStep
<1>16. CASE UNCHANGED vars
  BY <1>16, <1>k, StillStep DEF vars
<1> QED  BY <1>1, <1>2, <1>3, <1>4, <1>5, <1>6, <1>7, <1>8, <1>9, <1>10, <1>11, <1>12, <1>13,
            <1>14, <1>15, <1>16 DEF Next

LEMMA GroupInvariant == Spec => []IInv
<1> QED  BY InitStep, NextStep, PTL DEF Spec

\* The state of a group and of its proxies is what pg_manager.c takes it to be,
\* ids and revisions are not ahead of their counters, and a host that waits for
\* a proxy is one of the group.
THEOREM GroupTypes == Spec => []TypeOK
<1>1. IInv => TypeOK
  <2> SUFFICES ASSUME IInv PROVE TypeOK
    OBVIOUS
  <2> USE DEF IInv
  <2>1. /\ cache \in CacheType(GroupStates) /\ rows \in SUBSET RowType
        /\ conf \in [Hosts -> [at : Places, name : Nat]]
        /\ ids.id \in Nat /\ ids.rev \in Nat /\ pgm.pc \in {"idle", "check", "commit", "publish"}
        /\ known \subseteq Proxies /\ heard \subseteq Proxies /\ quiet \in [Proxies -> 0..Delay]
    BY DEF Types
  <2>2. \A h \in Hosts : conf[h].at \in {"in", "out", "gone"} /\ conf[h].name \in Nat
    BY <2>1 DEF Places
  <2>3. ASSUME NEW r \in rows \cup cache.map
        PROVE  r.host \in Hosts /\ r.proxy \in Proxies /\ r.id \in 1..ids.id /\ r.rev \in 1..cache.last
    <3>1. r \in RowType  BY <2>1 DEF CacheType
    <3>2. cache.last \in Nat  BY <2>1 DEF CacheType
    <3>3. r.rev \in Nat /\ r.rev >= 1 /\ r.rev <= cache.last
      BY <2>1, <3>1, <3>2 DEF Counted, RowType
    <3> QED  BY <3>1, <3>2, <3>3 DEF Counted, RowType
  <2>4. /\ cache.state \in {"offline", "recovering", "online", "degrading"}
        /\ cache.pstate \in [Proxies -> {"unknown", "offline", "online"}]
        /\ cache.alive \in [Proxies -> Never..Delay]
        /\ cache.uptime \in 0..Delay /\ cache.since \in 0..Delay + 1 /\ cache.wait \in Never..Wait
        /\ cache.unassigned \subseteq Hosts /\ cache.hosts \subseteq Hosts
        /\ cache.updates \in [Hosts -> Proxies \cup {NoProxy, Keep}]
    BY <2>1 DEF CacheType, GroupStates
  <2>5. ~crossed => cache.unassigned \subseteq cache.hosts
    BY DEF Linked, Listed
  <2>6. cache.shown \in 0..cache.last
    BY <2>1 DEF CacheType, Counted
  <2> QED  BY <2>1, <2>2, <2>3, <2>4, <2>5, <2>6 DEF TypeOK
<1> QED  BY <1>1, GroupInvariant, PTL

\* pg_cache.c: a host in the list of a proxy is mapped to that proxy, and a
\* mapped host that is in no list is about to be written or deleted.
THEOREM RefsSound == Spec => []RefsValid
<1>1. IInv => RefsValid
  <2> SUFFICES ASSUME IInv, ~crossed PROVE RefsValid
    BY DEF RefsValid
  <2>1. Listed(cache)  BY DEF IInv, Linked
  <2> QED  BY <2>1 DEF RefsValid, Listed
<1> QED  BY <1>1, GroupInvariant, PTL

\* pgm_db_flush_host_proxy_map: between two transactions the table holds the
\* map, up to rows of deleted hosts and rows that are about to be deleted.
THEOREM MapStored == Spec => []DbMatches
<1>1. IInv => DbMatches
  BY DEF IInv
<1> QED  BY <1>1, GroupInvariant, PTL

\* pg_cache_rebalance_groups: when all is settled in a group that is online,
\* the mapped hosts are its hosts, each on a proxy that is online.
THEOREM HostsServed == Spec => []AllServed
<1>1. IInv => AllServed
  <2> SUFFICES ASSUME IInv, Settled, cache.state = "online", NEW h \in Hosts
               PROVE  conf[h].at = "in" <=>
                         \E r \in cache.map : r.host = h /\ r.proxy \in Online(cache)
    BY DEF AllServed
  <2> USE DEF IInv
  <2>1. Listed(cache) /\ Kind(cache)
    BY DEF Settled, Linked
  <2>2. cache.unassigned = {} /\ \A g \in Hosts : cache.updates[g] = Keep
    BY <2>1 DEF Settled, Kind
  <2>3. conf[h].at = "in" <=> h \in cache.hosts
    <3>1. Len(mail) = 0  BY DEF Settled
    <3> QED  BY <3>1 DEF Chained
  <2>4. ASSUME h \in cache.hosts
        PROVE  \E r \in cache.map : r.host = h /\ r.proxy \in Online(cache)
    <3>1. PICK p \in Proxies : h \in cache.refs[p]
      BY <2>1, <2>2, <2>4, Bounds DEF Listed
    <3>2. PICK r \in cache.map : r.host = h /\ r.proxy = p
      BY <2>1, <3>1 DEF Listed
    <3>3. p \in Online(cache)
      BY <2>1, <3>1 DEF Listed
    <3> QED  BY <3>2, <3>3
  <2>5. ASSUME NEW r \in cache.map, r.host = h PROVE h \in cache.hosts
    <3>1. r.proxy \in Proxies  BY DEF Types, CacheType, RowType
    <3>2. h \in cache.refs[r.proxy]  BY <2>1, <2>2, <2>5 DEF Listed
    <3> QED  BY <2>1, <3>1, <3>2 DEF Listed
  <2> QED  BY <2>3, <2>4, <2>5
<1> QED  BY <1>1, GroupInvariant, PTL

----------------------------------------------------------------------------
(* The copies of the map at the proxies.  Their invariant adds to the one     *)
(* above what every proxy has stored, is being sent and has yet to be told.  *)

CopyType == [id : Nat, host : Hosts, name : Nat, proxy : Proxies]
RemoteType == [configured : BOOLEAN, rev : Nat, locked : BOOLEAN, rows : SUBSET CopyType,
               served : BOOLEAN]
ReadType == [pc : {"read"}, all : BOOLEAN, hostmap : BOOLEAN, above : Nat, rev : Nat,
             del : SUBSET Nat, sure : BOOLEAN]
ReplyType == [pc : {"reply"}, all : BOOLEAN, hostmap : BOOLEAN, above : Nat, rev : Nat,
              del : SUBSET Nat, sure : BOOLEAN, rows : SUBSET CopyType]

CopyTypes == /\ remote \in [Proxies -> RemoteType]
             /\ sync \in [Proxies -> {NoSync} \cup ReadType \cup ReplyType]
             /\ based \in SUBSET Proxies

\* an id belongs to one host
Distinct == \A r, s \in rows \cup cache.map : r.id = s.id => r.host = s.host

\* what is kept to be told has left the map for good
Removals ==
    \A p \in Proxies : \A d \in cache.deleted[p] :
        /\ d.id \in 1..ids.id /\ d.rev <= cache.last
        /\ \A r \in cache.map : r.id # d.id

\* a revision is shown when its rows are in the table, and nothing is left to
\* be shown when the manager is done
Raised ==
    /\ cache.shown <= ids.rev
    /\ pgm.pc = "commit" => cache.shown < cache.last
    /\ pgm.pc = "commit" => \A r \in pgm.new \cup pgm.mod : r.rev > ids.rev
    /\ pgm.pc # "publish" /\ (pgm.pc = "commit" => ~pgm.touched) =>
          /\ \A r \in cache.map : r.rev <= cache.shown
          /\ \A p \in Proxies : \A d \in cache.deleted[p] : d.rev <= cache.shown

\* nothing about the host is on its way to the map
Still(h) == cache.updates[h] = Keep /\ \A i \in 1..Len(mail) : mail[i].host # h

\* S has the rows of the map with revisions after lo up to hi
Caught(S, lo, hi) ==
    \A r \in cache.map : lo < r.rev /\ r.rev <= hi /\ Still(r.host) => Copy(r) \in S

\* row x of a copy at revision hi is in the map, or the proxy will be told
Explained(p, x, hi) ==
    \/ \E r \in cache.map : r.id = x.id /\ (r.rev > hi \/ ~Still(r.host) \/ x = Copy(r))
    \/ \E d \in cache.deleted[p] : d.id = x.id /\ d.rev > hi

\* answer a to a proxy whose copy is m
Sent(p, m, a) ==
    /\ a.rev <= cache.shown
    /\ a.above = 0 \/ (~a.all /\ m.configured /\ a.above = m.rev)
    /\ IF a.hostmap THEN a.above <= a.rev ELSE a.rev = 0 /\ ~a.all
    /\ a.sure => a.all /\ a.rev >= 1
    /\ a.del \subseteq 1..ids.id /\ \A r \in cache.map : r.id \notin a.del
    /\ p \in based => a.rev >= 1 /\ (a.above = 0 => a.all)
    /\ a.above # 0 => \A d \in cache.deleted[p] :
                         d.rev > a.above => d.id \in a.del \/ d.rev > a.rev

\* the rows in it
Read(p, a) ==
    a.hostmap =>
        /\ Caught(a.rows, a.above, a.rev)
        /\ \A r \in cache.map : r.rev <= a.above => \A x \in a.rows : x.id # r.id
        /\ p \in based \/ a.sure => \A x \in a.rows : Explained(p, x, a.rev)

\* copy m
Held(p, m) ==
    /\ m.configured /\ m.served => m.rev <= cache.shown /\ Caught(m.rows, 0, m.rev)
    /\ p \in based => /\ m.served
                      /\ m.configured => /\ m.rev >= 1
                                         /\ \A x \in m.rows : Explained(p, x, m.rev)

\* a row of the table is in the map, or is being deleted and will be told of
Tabled(p) ==
    \A s \in rows : \/ \E r \in cache.map : r.id = s.id
                    \/ /\ pgm.pc = "commit"
                       /\ \E d \in cache.deleted[p] : d.id = s.id /\ d.rev > cache.shown

Whole(p) == p \in based \/ (p \in known /\ sync[p].pc # "none" /\ sync[p].sure)

Followed(p) ==
    /\ p \notin known /\ remote[p].served => sync[p].pc = "none" /\ ~remote[p].configured
    /\ Held(p, remote[p])
    /\ p \in known /\ sync[p].pc # "none" => Sent(p, remote[p], sync[p])
    /\ p \in known /\ sync[p].pc = "reply" => Read(p, sync[p])
    /\ Whole(p) => cache.synced[p] /\ cache.shown >= 1 /\ Tabled(p)

CopyInv ==
    /\ CopyTypes
    /\ ~refused => /\ Distinct /\ Removals /\ Raised
                   /\ ~crossed => \A p \in Proxies : Followed(p)

\* A mapped host about which nothing is on its way is a host of the group ...
LEMMA StillIn ==
    ASSUME IInv, ~crossed, NEW r \in cache.map, Still(r.host)
    PROVE  conf[r.host].at = "in"
<1>1. Listed(cache) /\ r.proxy \in Proxies /\ r.host \in Hosts
  BY DEF IInv, Linked, Types, CacheType, RowType
<1>2. r.host \in cache.refs[r.proxy]
  BY <1>1 DEF Listed, Still
<1>3. r.host \in cache.hosts
  BY <1>1, <1>2 DEF Listed
<1> QED  BY <1>1, <1>3 DEF IInv, Chained, Still

\* ... and once its revision is shown its row is in the table.
LEMMA StillStored ==
    ASSUME IInv, Raised, ~refused, NEW r \in cache.map, conf[r.host].at # "gone",
           r.rev <= cache.shown
    PROVE  r \in rows
<1>1. /\ r.rev \in Nat /\ cache.shown \in Nat /\ ids.rev \in Nat
      /\ pgm.new \in SUBSET RowType /\ pgm.mod \in SUBSET RowType
  BY DEF IInv, Types, CacheType, RowType
<1>2. r.rev <= ids.rev
  BY <1>1 DEF Raised
<1>3. CASE pgm.pc = "commit"
  <2>1. r \notin pgm.new /\ r \notin pgm.mod
    BY <1>1, <1>2, <1>3 DEF Raised
  <2> QED  BY <1>3, <2>1 DEF IInv, Stored, Writing
<1>4. CASE pgm.pc # "commit"
  BY <1>4 DEF IInv, DbMatches
<1> QED  BY <1>3, <1>4

\* What a step does to the map as proxy p sees it: rows get new revisions or
\* are told of as removed, and what settles does so unchanged.
Evolves(p) ==
    /\ cache.shown <= cache'.shown /\ ids.id <= ids'.id
    /\ \A r \in cache'.map : r.rev <= cache.shown => r \in cache.map
    /\ \A r \in cache.map \cap cache'.map :
          Still(r.host)' => Still(r.host) /\ conf'[r.host].name = conf[r.host].name
    /\ \A r \in cache.map :
          \/ r \in cache'.map
          \/ \E s \in cache'.map : s.id = r.id /\ s.rev > cache.shown
          \/ cache.synced[p] => \E d \in cache'.deleted[p] : d.id = r.id /\ d.rev > cache.shown
    /\ \A r \in cache'.map : (\E s \in cache.map : s.id = r.id) \/ r.id > ids.id
    /\ cache.deleted[p] \subseteq cache'.deleted[p]
    /\ \A d \in cache'.deleted[p] : d \in cache.deleted[p] \/ d.rev > cache.shown

LEMMA CaughtEvolves ==
    ASSUME NEW p \in Proxies, Types, Types', Evolves(p), NEW S, NEW lo \in Nat, NEW hi \in Nat,
           hi <= cache.shown, Caught(S, lo, hi)
    PROVE  Caught(S, lo, hi)'
<1> SUFFICES ASSUME NEW r \in cache'.map, lo < r.rev, r.rev <= hi, Still(r.host)'
             PROVE  Copy(r)' \in S
  BY DEF Caught
<1>1. r.rev \in Nat /\ cache.shown \in Nat
  BY DEF Types, CacheType, RowType
<1>2. r \in cache.map
  BY <1>1 DEF Evolves
<1>3. Still(r.host) /\ conf'[r.host].name = conf[r.host].name
  BY <1>2 DEF Evolves
<1>4. Copy(r) \in S
  BY <1>2, <1>3 DEF Caught
<1> QED  BY <1>3, <1>4 DEF Copy

LEMMA ExplainedEvolves ==
    ASSUME NEW p \in Proxies, Types, Types', Evolves(p), NEW x, NEW hi \in Nat,
           hi <= cache.shown, cache.synced[p], Explained(p, x, hi)
    PROVE  Explained(p, x, hi)'
<1>t. cache.shown \in Nat /\ cache'.deleted[p] \in SUBSET [id : Nat, rev : Nat]
      /\ cache'.map \in SUBSET RowType
  BY DEF Types, CacheType
<1>1. CASE \E d \in cache.deleted[p] : d.id = x.id /\ d.rev > hi
  BY <1>1 DEF Evolves, Explained
<1>2. ASSUME NEW r \in cache.map, r.id = x.id, r.rev > hi \/ ~Still(r.host) \/ x = Copy(r)
      PROVE  Explained(p, x, hi)'
  <2>1. CASE r \in cache'.map
    <3>1. ~Still(r.host) => ~Still(r.host)'
      BY <2>1 DEF Evolves
    <3>2. x = Copy(r) /\ Still(r.host)' => x = Copy(r)'
      BY <2>1 DEF Evolves, Copy
    <3>3. r.rev > hi \/ ~Still(r.host)' \/ x = Copy(r)'
      BY <1>2, <3>1, <3>2
    <3> QED  BY <1>2, <2>1, <3>3 DEF Explained
  <2>2. CASE \E s \in cache'.map : s.id = r.id /\ s.rev > cache.shown
    <3>1. PICK s \in cache'.map : s.id = r.id /\ s.rev > cache.shown
      BY <2>2
    <3>2. s.rev > hi  BY <1>t, <3>1 DEF RowType
    <3> QED  BY <1>2, <3>1, <3>2 DEF Explained
  <2>3. CASE \E d \in cache'.deleted[p] : d.id = r.id /\ d.rev > cache.shown
    <3>1. PICK d \in cache'.deleted[p] : d.id = r.id /\ d.rev > cache.shown
      BY <2>3
    <3>2. d.rev > hi  BY <1>t, <3>1
    <3> QED  BY <1>2, <3>1, <3>2 DEF Explained
  <2> QED  BY <2>1, <2>2, <2>3 DEF Evolves
<1> QED  BY <1>1, <1>2 DEF Explained

LEMMA SentEvolves ==
    ASSUME NEW p \in Proxies, Types, Types', Evolves(p), p \in based' <=> p \in based, NEW m, NEW a,
           a.rev \in Nat, Sent(p, m, a)
    PROVE  Sent(p, m, a)'
<1>t. /\ cache.shown \in Nat /\ cache'.shown \in Nat /\ ids.id \in Nat /\ ids'.id \in Nat
      /\ cache'.map \in SUBSET RowType /\ cache'.deleted[p] \in SUBSET [id : Nat, rev : Nat]
  BY DEF Types, CacheType
<1>1. a.rev <= cache'.shown
  BY <1>t DEF Sent, Evolves
<1>2. a.del \subseteq 1..ids'.id
  BY <1>t DEF Sent, Evolves
<1>3. ASSUME NEW r \in cache'.map PROVE r.id \notin a.del
  <2>1. r.id \in Nat  BY <1>t DEF RowType
  <2> QED  BY <1>t, <2>1 DEF Sent, Evolves
<1>4. ASSUME a.above # 0, NEW d \in cache'.deleted[p], d.rev > a.above
      PROVE  d.id \in a.del \/ d.rev > a.rev
  <2>1. CASE d \in cache.deleted[p]
    BY <1>4, <2>1 DEF Sent
  <2>2. CASE d.rev > cache.shown
    <3>1. d.rev \in Nat  BY <1>t
    <3> QED  BY <1>t, <2>2, <3>1 DEF Sent
  <2> QED  BY <2>1, <2>2 DEF Evolves
<1> QED  BY <1>1, <1>2, <1>3, <1>4 DEF Sent

LEMMA ReadEvolves ==
    ASSUME NEW p \in Proxies, Types, Types', Evolves(p), p \in based' <=> p \in based, NEW m, NEW a,
           a.rev \in Nat, a.above \in Nat, Sent(p, m, a), Read(p, a),
           p \in based \/ a.sure => cache.synced[p]
    PROVE  Read(p, a)'
<1> SUFFICES ASSUME a.hostmap
             PROVE  /\ Caught(a.rows, a.above, a.rev)'
                    /\ \A r \in cache'.map : r.rev <= a.above => \A x \in a.rows : x.id # r.id
                    /\ p \in based \/ a.sure => \A x \in a.rows : Explained(p, x, a.rev)'
  BY DEF Read
<1>t. cache.shown \in Nat /\ cache'.map \in SUBSET RowType
  BY DEF Types, CacheType
<1>1. a.rev <= cache.shown /\ a.above <= a.rev
  BY DEF Sent
<1>2. Caught(a.rows, a.above, a.rev)'
  BY <1>1, CaughtEvolves DEF Read
<1>3. ASSUME NEW r \in cache'.map, r.rev <= a.above PROVE \A x \in a.rows : x.id # r.id
  <2>1. r.rev <= cache.shown  BY <1>t, <1>1, <1>3 DEF RowType
  <2> QED  BY <1>3, <2>1 DEF Evolves, Read
<1>4. ASSUME p \in based \/ a.sure, NEW x \in a.rows PROVE Explained(p, x, a.rev)'
  <2>1. Explained(p, x, a.rev)  BY <1>4 DEF Read
  <2> QED  BY <1>1, <1>4, <2>1, ExplainedEvolves
<1> QED  BY <1>2, <1>3, <1>4

LEMMA HeldEvolves ==
    ASSUME NEW p \in Proxies, Types, Types', Evolves(p), p \in based' <=> p \in based, NEW m, m.rev \in Nat,
           Held(p, m), p \in based => cache.synced[p]
    PROVE  Held(p, m)'
<1>t. cache.shown \in Nat /\ cache'.shown \in Nat
  BY DEF Types, CacheType
<1>1. ASSUME m.configured, m.served PROVE m.rev <= cache'.shown /\ Caught(m.rows, 0, m.rev)'
  <2>1. m.rev <= cache.shown /\ Caught(m.rows, 0, m.rev)  BY <1>1 DEF Held
  <2>2. Caught(m.rows, 0, m.rev)'  BY <2>1, CaughtEvolves
  <2> QED  BY <1>t, <2>1, <2>2 DEF Evolves
<1>2. ASSUME p \in based, m.configured, NEW x \in m.rows PROVE Explained(p, x, m.rev)'
  <2>1. m.rev <= cache.shown /\ Explained(p, x, m.rev)  BY <1>2 DEF Held
  <2> QED  BY <1>2, <2>1, ExplainedEvolves
<1> QED  BY <1>1, <1>2 DEF Held

LEMMA FollowedEvolves ==
    ASSUME NEW p \in Proxies, Types, Types', CopyTypes, Evolves(p), Followed(p),
           p \in based' <=> p \in based, p \in known' <=> p \in known,
           remote'[p] = remote[p], sync'[p] = sync[p], cache'.synced[p] = cache.synced[p],
           Tabled(p) /\ cache.synced[p] => Tabled(p)'
    PROVE  Followed(p)'
<1>m. PICK m : m = remote[p]
  OBVIOUS
<1>a. PICK a : a = sync[p]
  OBVIOUS
<1>t. /\ m.rev \in Nat /\ cache.shown \in Nat /\ cache'.shown \in Nat
      /\ a.pc # "none" => a.rev \in Nat /\ a.above \in Nat
  <2>1. m \in RemoteType /\ a \in {NoSync} \cup ReadType \cup ReplyType
    BY <1>m, <1>a DEF CopyTypes
  <2>2. cache.shown \in Nat /\ cache'.shown \in Nat
    BY DEF Types, CacheType
  <2>3. a = NoSync => a.pc = "none"
    BY DEF NoSync
  <2> QED  BY <2>1, <2>2, <2>3 DEF RemoteType, ReadType, ReplyType
<1>1. Whole(p)' <=> Whole(p)
  BY DEF Whole
<1>2. Whole(p) => cache.synced[p] /\ cache.shown >= 1 /\ Tabled(p)
  BY DEF Followed
<1>3. p \in based \/ (p \in known /\ a.pc # "none" /\ a.sure) => cache.synced[p]
  BY <1>a, <1>2 DEF Whole
<1>4. Held(p, m)'
  <2>1. Held(p, m)  BY <1>m DEF Followed
  <2> QED  BY <1>t, <1>3, <2>1, HeldEvolves
<1>5. ASSUME p \in known, a.pc # "none" PROVE Sent(p, m, a)'
  <2>1. Sent(p, m, a)  BY <1>5, <1>m, <1>a DEF Followed
  <2> QED  BY <1>t, <1>5, <2>1, SentEvolves
<1>6. ASSUME p \in known, a.pc = "reply" PROVE Read(p, a)'
  <2>1. Sent(p, m, a) /\ Read(p, a)  BY <1>6, <1>m, <1>a DEF Followed
  <2> QED  BY <1>t, <1>3, <1>6, <2>1, ReadEvolves
<1>7. p \notin known /\ m.served => a.pc = "none" /\ ~m.configured
  BY <1>m, <1>a DEF Followed
<1>8. Whole(p)' => cache'.synced[p] /\ cache'.shown >= 1 /\ Tabled(p)'
  BY <1>t, <1>1, <1>2 DEF Evolves
<1>9. remote'[p] = m /\ sync'[p] = a
  BY <1>m, <1>a
<1> QED  BY <1>4, <1>5, <1>6, <1>7, <1>8, <1>9 DEF Followed

\* A step that leaves the map alone, and stops nothing that is on its way.
LEMMA FollowedKept ==
    ASSUME NEW p \in Proxies, Types, Types', CopyTypes, Followed(p),
           cache'.map = cache.map, cache'.deleted[p] = cache.deleted[p],
           cache'.synced[p] = cache.synced[p], cache.shown <= cache'.shown, ids'.id = ids.id,
           \A r \in cache.map :
               Still(r.host)' => Still(r.host) /\ conf'[r.host].name = conf[r.host].name,
           p \in based' <=> p \in based, p \in known' <=> p \in known,
           remote'[p] = remote[p], sync'[p] = sync[p],
           Tabled(p) /\ cache.synced[p] => Tabled(p)'
    PROVE  Followed(p)'
<1>1. \A r \in cache.map : \E s \in cache.map : s.id = r.id
  OBVIOUS
<1>2. ids.id <= ids'.id
  BY DEF Types
<1>3. Evolves(p)
  BY <1>1, <1>2 DEF Evolves
<1> QED  BY <1>3, FollowedEvolves

LEMMA CopyStillStep ==
    ASSUME IInv, IInv', CopyInv, UNCHANGED <<conf, mail, rows, ids, cache, remote, sync>>,
           UNCHANGED <<known, based, refused, crossed>>,
           pgm' = pgm \/ (pgm' = Nothing /\ pgm.pc = "check")
    PROVE  CopyInv'
<1>1. Types /\ Types' /\ CopyTypes
  BY DEF IInv, CopyInv
<1>2. CopyTypes'
  BY <1>1 DEF CopyTypes
<1>3. ASSUME ~refused PROVE Distinct' /\ Removals' /\ Raised'
  <2>1. Distinct /\ Removals /\ Raised
    BY <1>3 DEF CopyInv
  <2>2. Distinct' /\ Removals'
    BY <2>1 DEF Distinct, Removals
  <2>3. CASE pgm' = pgm
    BY <2>1, <2>2, <2>3 DEF Raised
  <2>4. CASE pgm' = Nothing /\ pgm.pc = "check"
    BY <2>1, <2>2, <2>4 DEF Raised, Nothing
  <2> QED  BY <2>3, <2>4
<1>4. ASSUME ~refused, ~crossed, NEW p \in Proxies PROVE Followed(p)'
  <2>1. Followed(p)
    BY <1>4 DEF CopyInv
  <2>2. Tabled(p) => Tabled(p)'
    <3>1. pgm.pc = "commit" => pgm'.pc = "commit"  OBVIOUS
    <3> QED  BY <3>1 DEF Tabled
  <2>3. \A r \in cache.map :
            Still(r.host)' => Still(r.host) /\ conf'[r.host].name = conf[r.host].name
    BY DEF Still
  <2>4. cache.shown <= cache'.shown
    BY <1>1 DEF Types, CacheType
  <2> QED  BY <1>1, <2>1, <2>2, <2>3, <2>4, FollowedKept
<1> QED  BY <1>2, <1>3, <1>4 DEF CopyInv

LEMMA CopyPublishStep == IInv /\ IInv' /\ CopyInv /\ Publish => CopyInv'
<1> SUFFICES ASSUME IInv, IInv', CopyInv, Publish PROVE CopyInv'
  OBVIOUS
<1>1. /\ pgm.pc = "publish" /\ pgm' = Nothing
      /\ cache' = [cache EXCEPT !.shown = cache.last]
      /\ UNCHANGED <<conf, mail, rows, ids, remote, sync, known, based, refused, crossed>>
  BY DEF Publish
<1>2. Types /\ Types' /\ CopyTypes /\ Counted /\ DbMatches
  BY DEF IInv, CopyInv
<1>3. /\ cache'.shown = cache.last /\ cache'.last = cache.last /\ cache'.map = cache.map
      /\ cache'.updates = cache.updates /\ cache'.deleted = cache.deleted
      /\ cache'.synced = cache.synced
      /\ cache.last \in Nat /\ cache.shown \in Nat
  BY <1>1, <1>2 DEF Types, CacheType
<1>4. CopyTypes'
  BY <1>1, <1>2 DEF CopyTypes
<1>5. ASSUME ~refused PROVE Distinct' /\ Removals' /\ Raised'
  <2>1. Distinct /\ Removals
    BY <1>5 DEF CopyInv
  <2>2. Distinct' /\ Removals'
    BY <1>1, <1>3, <2>1 DEF Distinct, Removals
  <2>3. ids.rev = cache.last
    BY <1>1, <1>2, <1>5 DEF DbMatches
  <2>4. pgm'.pc = "idle"
    BY <1>1 DEF Nothing
  <2>5. Raised'
    BY <1>1, <1>2, <1>3, <2>1, <2>3, <2>4 DEF Raised, Removals, Counted
  <2> QED  BY <2>2, <2>5
<1>6. ASSUME ~refused, ~crossed, NEW p \in Proxies PROVE Followed(p)'
  <2>1. Followed(p)
    BY <1>6 DEF CopyInv
  <2>2. Tabled(p) => Tabled(p)'
    BY <1>1, <1>3 DEF Tabled
  <2>3. \A r \in cache.map :
            Still(r.host)' => Still(r.host) /\ conf'[r.host].name = conf[r.host].name
    BY <1>1, <1>3 DEF Still
  <2>4. cache.shown <= cache'.shown
    BY <1>2, <1>3 DEF Counted
  <2> QED  BY <1>1, <1>2, <1>3, <2>1, <2>2, <2>3, <2>4, FollowedKept
<1> QED  BY <1>1, <1>4, <1>5, <1>6 DEF CopyInv

LEMMA CopyUpdateStep == IInv /\ IInv' /\ CopyInv /\ Update => CopyInv'
<1> SUFFICES ASSUME IInv, IInv', CopyInv, Update PROVE CopyInv'
  OBVIOUS
<1>1. /\ pgm.pc = "idle" /\ pgm' = [Nothing EXCEPT !.pc = "check"]
      /\ quiet' = [p \in Proxies |-> IF p \in heard THEN 0 ELSE Older(quiet[p], Delay)]
      /\ cache' = UpdateGroupState(UpdateProxyState(Aged(cache), quiet'), quiet')
      /\ UNCHANGED <<conf, mail, rows, ids, remote, sync, known, based, refused, crossed>>
  BY DEF Update
<1>2. Types /\ Types' /\ CopyTypes /\ OneRow
  BY DEF IInv, CopyInv
<1>3. cache \in CacheType(GroupStates) /\ quiet' \in [Proxies -> 0..Delay]
  BY <1>2 DEF Types
<1>4. /\ cache'.map = cache.map /\ cache'.last = cache.last /\ cache'.shown = cache.shown
      /\ cache'.deleted = cache.deleted /\ cache'.synced = cache.synced
      /\ \A h \in Hosts : cache.updates[h] # Keep => cache'.updates[h] # Keep
  BY <1>1, <1>2, <1>3, UpdateCache DEF OneRow
<1>5. pgm'.pc = "check" /\ cache.shown \in Nat /\ cache.map \in SUBSET RowType
  BY <1>1, <1>3 DEF Nothing, CacheType
<1>6. CopyTypes'
  BY <1>1, <1>2 DEF CopyTypes
<1>7. ASSUME ~refused PROVE Distinct' /\ Removals' /\ Raised'
  <2>1. Distinct /\ Removals /\ Raised
    BY <1>7 DEF CopyInv
  <2>2. Distinct' /\ Removals'
    BY <1>1, <1>4, <2>1 DEF Distinct, Removals
  <2>3. Raised'
    BY <1>1, <1>4, <1>5, <2>1 DEF Raised
  <2> QED  BY <2>2, <2>3
<1>8. ASSUME ~refused, ~crossed, NEW p \in Proxies PROVE Followed(p)'
  <2>1. Followed(p)
    BY <1>8 DEF CopyInv
  <2>2. Tabled(p) => Tabled(p)'
    BY <1>1, <1>4 DEF Tabled
  <2>3. \A r \in cache.map :
            Still(r.host)' => Still(r.host) /\ conf'[r.host].name = conf[r.host].name
    BY <1>1, <1>4, <1>5 DEF Still, RowType
  <2> QED  BY <1>1, <1>2, <1>4, <1>5, <2>1, <2>2, <2>3, FollowedKept
<1> QED  BY <1>1, <1>6, <1>7, <1>8 DEF CopyInv

LEMMA CopyMailStep == IInv /\ IInv' /\ CopyInv /\ UpdateHostPgroup => CopyInv'
<1> SUFFICES ASSUME IInv, IInv', CopyInv, UpdateHostPgroup PROVE CopyInv'
  OBVIOUS
<1>m. PICK m : m = Head(mail)
  OBVIOUS
<1>h. PICK h : h = m.host
  OBVIOUS
<1>1. /\ mail # <<>> /\ mail' = Tail(mail)
      /\ cache' = IF m.src = m.dst THEN TouchHost(cache, h)
                  ELSE IF m.src = "in" THEN RemoveHost(cache, h) ELSE AddHost(cache, h)
      /\ crossed \in BOOLEAN => (~crossed' => ~crossed)
      /\ UNCHANGED <<conf, rows, ids, pgm, remote, sync, known, based, refused>>
  BY <1>m, <1>h DEF UpdateHostPgroup
<1>2. Types /\ Types' /\ CopyTypes /\ OneRow /\ Chained /\ Linked
  BY DEF IInv, CopyInv
<1>3. /\ mail \in Seq(Mail) /\ m \in Mail /\ m = mail[1] /\ crossed \in BOOLEAN
      /\ Len(mail) \in Nat \ {0}
  BY <1>1, <1>2, <1>m DEF Types
<1>4. h \in Hosts /\ (m.src = "in" \/ m.dst = "in")
  BY <1>3, <1>h DEF Mail
<1>5. m.src = "in" <=> h \in cache.hosts
  <2>1. (\A i \in 1..1 - 1 : mail[i].host # mail[1].host) =>
          (mail[1].src = "in" <=> mail[1].host \in cache.hosts)
    <3>1. 1 \in 1..Len(mail)  BY <1>3
    <3> QED  BY <1>2, <3>1 DEF Chained
  <2> QED  BY <1>3, <1>h, <2>1
<1>6. cache \in CacheType(GroupStates) /\ \A r, s \in cache.map : r.host = s.host => r = s
  BY <1>2 DEF Types, OneRow
<1>7. \A r \in cache.map : r.host \in Hosts /\ r.proxy \in Proxies
  BY <1>6 DEF CacheType, RowType
<1>8. /\ Moved(cache, cache', h)
      /\ ~crossed /\ h \in HostsOf(cache.map) => cache'.updates[h] # Keep
  <2>1. CASE m.src = m.dst
    <3>1. cache' = TouchHost(cache, h) /\ h \in cache.hosts
      BY <1>1, <1>4, <1>5, <2>1
    <3>2. Moved(cache, cache', h)
      BY <1>4, <1>6, <3>1, TouchedHost
    <3>3. ASSUME h \in HostsOf(cache.map) PROVE cache'.updates[h] # Keep
      <4>1. RowOf(cache.map, h).proxy \in Proxies
        BY <1>7, <3>3, RowOfHost
      <4>2. cache'.updates[h] = RowOf(cache.map, h).proxy
        BY <1>4, <1>6, <3>1, <3>3 DEF TouchHost, CacheType
      <4> QED  BY <4>1, <4>2, Bounds
    <3> QED  BY <3>2, <3>3
  <2>2. CASE m.src # m.dst /\ m.src = "in"
    <3>1. cache' = RemoveHost(cache, h)  BY <1>1, <2>2
    <3>2. Moved(cache, cache', h)
      BY <1>4, <1>6, <3>1, Left
    <3>3. h \in HostsOf(cache.map) => cache'.updates[h] = NoProxy
      BY <1>4, <1>6, <3>1 DEF RemoveHost, CacheType
    <3> QED  BY <3>2, <3>3, Bounds
  <2>3. CASE m.src # m.dst /\ m.src # "in"
    <3>1. cache' = AddHost(cache, h) /\ h \notin cache.hosts  BY <1>1, <1>5, <2>3
    <3>2. Moved(cache, cache', h) /\ cache'.updates = cache.updates
      BY <1>4, <1>6, <3>1, Joined
    <3>3. ASSUME ~crossed, NEW r \in cache.map, r.host = h PROVE cache.updates[h] # Keep
      <4>1. Listed(cache)  BY <1>2, <3>3 DEF Linked
      <4>2. h \notin cache.refs[r.proxy]  BY <1>7, <3>1, <4>1 DEF Listed
      <4> QED  BY <3>3, <4>1, <4>2 DEF Listed
    <3> QED  BY <3>2, <3>3 DEF HostsOf
  <2> QED  BY <2>1, <2>2, <2>3
<1>9. /\ cache'.map = cache.map /\ cache'.last = cache.last /\ cache'.shown = cache.shown
      /\ cache'.deleted = cache.deleted /\ cache'.synced = cache.synced
      /\ \A g \in Hosts \ {h} : cache'.updates[g] = cache.updates[g]
      /\ cache.shown \in Nat
  BY <1>6, <1>8 DEF Moved, CacheType
<1>10. CopyTypes'
  BY <1>1, <1>2 DEF CopyTypes
<1>11. ASSUME ~refused PROVE Distinct' /\ Removals' /\ Raised'
  <2>1. Distinct /\ Removals /\ Raised
    BY <1>11 DEF CopyInv
  <2> QED  BY <1>1, <1>9, <2>1 DEF Distinct, Removals, Raised
<1>12. ASSUME ~crossed, NEW r \in cache.map, Still(r.host)' PROVE Still(r.host)
  <2>1. r.host # h
    BY <1>8, <1>12 DEF Still, HostsOf
  <2>2. cache.updates[r.host] = Keep
    BY <1>7, <1>9, <1>12, <2>1 DEF Still
  <2>3. ASSUME NEW i \in 1..Len(mail) PROVE mail[i].host # r.host
    <3>1. CASE i = 1
      BY <1>3, <1>h, <2>1, <3>1
    <3>2. CASE i # 1
      <4>1. i - 1 \in 1..Len(mail') /\ mail'[i - 1] = mail[i]
        BY <1>1, <1>3, <3>2
      <4> QED  BY <1>12, <4>1 DEF Still
    <3> QED  BY <3>1, <3>2
  <2> QED  BY <2>2, <2>3 DEF Still
<1>13. ASSUME ~refused, ~crossed', NEW p \in Proxies PROVE Followed(p)'
  <2>1. ~crossed /\ Followed(p)
    BY <1>1, <1>3, <1>13 DEF CopyInv
  <2>2. Tabled(p) => Tabled(p)'
    BY <1>1, <1>9 DEF Tabled
  <2>3. \A r \in cache.map :
            Still(r.host)' => Still(r.host) /\ conf'[r.host].name = conf[r.host].name
    BY <1>1, <1>12, <2>1
  <2> QED  BY <1>1, <1>2, <1>9, <2>1, <2>2, <2>3, FollowedKept
<1> QED  BY <1>1, <1>10, <1>11, <1>13 DEF CopyInv

LEMMA CopyEditStep ==
    ASSUME NEW h \in Hosts PROVE IInv /\ IInv' /\ CopyInv /\ EditHost(h) => CopyInv'
<1> SUFFICES ASSUME IInv, IInv', CopyInv, EditHost(h) PROVE CopyInv'
  OBVIOUS
<1>1. UNCHANGED <<ids, cache, pgm, remote, sync, known, based, refused, crossed>>
  BY DEF EditHost
<1>2. PICK c \in {[at |-> "in", name |-> conf[h].name], [at |-> "out", name |-> conf[h].name],
                  [at |-> "gone", name |-> conf[h].name],
                  [at |-> conf[h].at, name |-> conf[h].name + 1]} :
         /\ conf' = [conf EXCEPT ![h] = c]
         /\ mail' = IF "in" \in {c.at, conf[h].at}
                    THEN Append(mail, [host |-> h, src |-> conf[h].at, dst |-> c.at])
                    ELSE mail
         /\ rows' = IF c.at = "gone" THEN {r \in rows : r.host # h} ELSE rows
  BY DEF EditHost
<1>3. Types /\ Types' /\ CopyTypes
  BY DEF IInv, CopyInv
<1>4. /\ conf \in [Hosts -> [at : Places, name : Nat]] /\ mail \in Seq(Mail)
      /\ cache.shown \in Nat /\ cache.map \in SUBSET RowType
      /\ \A r \in cache.map : r.host \in Hosts
  BY <1>3 DEF Types, CacheType, RowType
<1>5. rows' \subseteq rows
  BY <1>2
<1>6. \A g \in Hosts \ {h} : conf'[g] = conf[g]
  BY <1>2, <1>4
<1>7. CopyTypes'
  BY <1>1, <1>3 DEF CopyTypes
<1>8. ASSUME ~refused PROVE Distinct' /\ Removals' /\ Raised'
  <2>1. Distinct /\ Removals /\ Raised
    BY <1>8 DEF CopyInv
  <2> QED  BY <1>1, <1>5, <2>1 DEF Distinct, Removals, Raised
<1>9. ASSUME "in" \in {c.at, conf[h].at}
      PROVE  /\ ~Still(h)'
             /\ \A g \in Hosts : Still(g)' => Still(g)
  <2>1. PICK m : m = [host |-> h, src |-> conf[h].at, dst |-> c.at]
    OBVIOUS
  <2>2. m \in Mail /\ m.host = h
    <3>1. c.at \in Places  BY <1>2, <1>4 DEF Places
    <3> QED  BY <1>4, <1>9, <2>1, <3>1 DEF Mail
  <2>3. mail' = Append(mail, m)
    BY <1>2, <1>9, <2>1
  <2>4. /\ Len(mail') = Len(mail) + 1 /\ mail'[Len(mail) + 1] = m
        /\ \A i \in 1..Len(mail) : mail'[i] = mail[i]
        /\ Len(mail) \in Nat
    BY <1>4, <2>2, <2>3
  <2>5. ~Still(h)'
    <3>1. Len(mail) + 1 \in 1..Len(mail')  BY <2>4
    <3> QED  BY <2>2, <2>4, <3>1 DEF Still
  <2>6. ASSUME NEW g \in Hosts, Still(g)' PROVE Still(g)
    <3>1. \A i \in 1..Len(mail) : i \in 1..Len(mail')  BY <2>4
    <3> QED  BY <1>1, <2>4, <2>6, <3>1 DEF Still
  <2> QED  BY <2>5, <2>6
<1>10. ASSUME "in" \notin {c.at, conf[h].at} PROVE \A g \in Hosts : Still(g)' => Still(g)
  <2>1. mail' = mail  BY <1>2, <1>10
  <2> QED  BY <1>1, <2>1 DEF Still
<1>11. ASSUME ~crossed, NEW r \in cache.map, Still(r.host)'
       PROVE  Still(r.host) /\ conf'[r.host].name = conf[r.host].name
  <2>1. Still(r.host) /\ r.host \in Hosts
    BY <1>4, <1>9, <1>10, <1>11
  <2>2. CASE r.host = h
    <3>1. conf[h].at = "in"
      BY <1>11, <2>1, <2>2, StillIn
    <3> QED  BY <1>9, <1>11, <2>2, <3>1
  <2>3. CASE r.host # h
    BY <1>6, <2>1, <2>3
  <2> QED  BY <2>2, <2>3
<1>12. ASSUME ~refused, ~crossed, NEW p \in Proxies PROVE Followed(p)'
  <2>1. Followed(p)
    BY <1>12 DEF CopyInv
  <2>2. Tabled(p) => Tabled(p)'
    BY <1>1, <1>5 DEF Tabled
  <2>3. cache.shown <= cache'.shown
    BY <1>1, <1>4
  <2> QED  BY <1>1, <1>3, <1>11, <1>12, <2>1, <2>2, <2>3, FollowedKept
<1> QED  BY <1>1, <1>7, <1>8, <1>12 DEF CopyInv

LEMMA CopyCommitStep == IInv /\ IInv' /\ CopyInv /\ Commit => CopyInv'
<1> SUFFICES ASSUME IInv, IInv', CopyInv, Commit PROVE CopyInv'
  OBVIOUS
<1>1. /\ pgm.pc = "commit"
      /\ UNCHANGED <<conf, mail, cache, remote, sync, known, based, crossed>>
  BY DEF Commit
<1>2. Types /\ Types' /\ CopyTypes /\ Counted /\ OneRow /\ Stored
  BY DEF IInv, CopyInv
<1>3. CopyTypes'
  BY <1>1, <1>2 DEF CopyTypes
<1>4. ASSUME ~refused'
      PROVE  /\ ~refused /\ ids'.rev = cache.last /\ ids'.id = ids.id
             /\ \A r \in rows' : r \in cache.map
             /\ pgm'.pc # "commit" /\ (pgm.touched => pgm'.pc = "publish")
  <2>1. /\ HostsOf(Inserted) \cap HostsOf(Rest) = {}
        /\ rows' = Rest \cup Inserted /\ ids' = [ids EXCEPT !.rev = cache.last]
        /\ pgm' = IF pgm.touched THEN [Nothing EXCEPT !.pc = "publish"] ELSE Nothing
        /\ refused' = refused
    BY <1>4 DEF Commit
  <2>2. ids'.rev = cache.last /\ ids'.id = ids.id
    BY <1>2, <2>1 DEF Types
  <2>3. pgm'.pc # "commit" /\ (pgm.touched => pgm'.pc = "publish")
    BY <2>1 DEF Nothing
  <2>4. \A r \in rows' : r \in cache.map
    BY <1>1, <1>2, <1>4, <2>1, Committed
  <2> QED  BY <1>4, <2>1, <2>2, <2>3, <2>4
<1>5. ASSUME ~refused' PROVE Distinct' /\ Removals' /\ Raised'
  <2>1. Distinct /\ Removals /\ Raised
    BY <1>4, <1>5 DEF CopyInv
  <2>2. Distinct' /\ Removals'
    BY <1>1, <1>4, <1>5, <2>1 DEF Distinct, Removals
  <2>3. Raised'
    BY <1>1, <1>2, <1>4, <1>5, <2>1 DEF Raised, Counted
  <2> QED  BY <2>2, <2>3
<1>6. ASSUME ~refused', ~crossed, NEW p \in Proxies PROVE Followed(p)'
  <2>1. Followed(p)
    BY <1>4, <1>6 DEF CopyInv
  <2>2. Tabled(p)'
    BY <1>1, <1>4, <1>6 DEF Tabled
  <2>3. \A r \in cache.map :
            Still(r.host)' => Still(r.host) /\ conf'[r.host].name = conf[r.host].name
    BY <1>1 DEF Still
  <2>4. cache.shown <= cache'.shown
    BY <1>1, <1>2 DEF Types, CacheType
  <2> QED  BY <1>1, <1>2, <1>4, <1>6, <2>1, <2>2, <2>3, <2>4, FollowedKept
<1> QED  BY <1>1, <1>3, <1>5, <1>6 DEF CopyInv

\* The new map and the old one: a row stays, or gets the next revision under its
\* id, or is told of as removed; a host without a row gets a new id.
LEMMA NewMap ==
    ASSUME IInv, NEW c, Same(cache, c), cache' = GetHostmapUpdates(c, ids.id)
    PROVE  /\ cache'.shown = cache.shown /\ cache'.synced = cache.synced
           /\ cache'.last = IF Changed(c) = {} THEN cache.last ELSE cache.last + 1
           /\ \A r \in cache'.map :
                 \/ r \in cache.map /\ r.host \notin Changed(c)
                 \/ /\ r.host \in Given(c) /\ r.rev = cache.last + 1
                    /\ \/ \E t \in cache.map : t.host = r.host /\ t.id = r.id
                       \/ r.host \notin HostsOf(cache.map) /\ r.id > ids.id
           /\ \A r, s \in cache'.map : r.id = s.id /\ r.id > ids.id => r = s
           /\ \A r \in cache.map :
                 /\ r.host \notin Changed(c) => r \in cache'.map
                 /\ r.host \in Given(c) => \E s \in cache'.map : s.id = r.id /\ s.rev = cache.last + 1
                 /\ r.host \in Removed(c) => \E g \in Gone(c) : g.id = r.id /\ g.rev = cache.last + 1
           /\ \A g \in Gone(c) : /\ g.rev = cache.last + 1
                                 /\ \E r \in cache.map : r.host \in Removed(c) /\ g.id = r.id
           /\ \A p \in Proxies : cache'.deleted[p] = cache.deleted[p] \cup
                 {g \in Gone(c) : cache.synced[p]}
           /\ Changed(c) = Given(c) \cup Removed(c) /\ Given(c) \cap Removed(c) = {}
           /\ \A h \in Hosts : h \notin Changed(c) => cache.updates[h] = Keep
<1> DEFINE L == Listing(c, ids.id)
<1>1. /\ c \in CacheType(GroupStates) /\ c.map = cache.map /\ c.last = cache.last
      /\ c.shown = cache.shown /\ c.synced = cache.synced /\ c.deleted = cache.deleted
      /\ \A h \in Hosts : cache.updates[h] # Keep => c.updates[h] # Keep
  BY DEF Same
<1>2. Types /\ Counted /\ OneRow /\ ids.id \in Nat
  BY DEF IInv, Types
<1>3. /\ cache'.shown = c.shown /\ cache'.synced = c.synced
      /\ cache'.last = IF Changed(c) = {} THEN c.last ELSE c.last + 1
      /\ cache'.map = {r \in c.map : r.host \notin Changed(c)} \cup L
      /\ \A p \in Proxies : cache'.deleted[p] = c.deleted[p] \cup {g \in Gone(c) : c.synced[p]}
  BY <1>1, <1>2, HostmapUpdates
<1>4. /\ L \in SUBSET RowType
      /\ \A r \in L : /\ r.host \in Given(c)
                      /\ r.rev = IF Changed(c) = {} THEN c.last ELSE c.last + 1
                      /\ IF r.host \in HostsOf(c.map) THEN r.id = RowOf(c.map, r.host).id
                         ELSE r.id \in ids.id + 1..ids.id + Cardinality(Added(c))
      /\ \A h \in Given(c) : \E r \in L : r.host = h
      /\ \A r, s \in L : r.id = s.id /\ {r.host, s.host} \cap HostsOf(c.map) = {} => r = s
  BY <1>1, <1>2, ListingRows
<1>5. /\ Changed(c) = Given(c) \cup Removed(c) /\ Changed(c) = {h \in Hosts : c.updates[h] # Keep}
      /\ Given(c) = {h \in Hosts : c.updates[h] \in Proxies}
      /\ Removed(c) = {h \in Hosts : c.updates[h] = NoProxy}
      /\ IsFiniteSet(Added(c))
  BY <1>1, GivenHosts DEF Changed
<1>6. Given(c) \cap Removed(c) = {}
  BY <1>5, Bounds
<1>7. \A r \in c.map : RowOf(c.map, r.host) = r
  <2> TAKE r \in c.map
  <2>1. r.host \in HostsOf(c.map)  BY DEF HostsOf
  <2>2. RowOf(c.map, r.host) \in c.map /\ RowOf(c.map, r.host).host = r.host
    BY <2>1, RowOfHost
  <2> QED  BY <1>1, <1>2, <2>2 DEF OneRow
<1> HIDE DEF L
<1>8. ASSUME NEW r \in L
      PROVE  /\ r.host \in Given(c) /\ r.rev = cache.last + 1
             /\ \/ \E t \in cache.map : t.host = r.host /\ t.id = r.id
                \/ r.host \notin HostsOf(cache.map) /\ r.id > ids.id
  <2>1. r.host \in Given(c) /\ r.rev = cache.last + 1
    BY <1>1, <1>4, <1>5
  <2>2. CASE r.host \in HostsOf(c.map)
    <3>1. PICK t \in c.map : t.host = r.host  BY <2>2 DEF HostsOf
    <3>2. r.id = t.id  BY <1>4, <1>7, <2>2, <3>1
    <3> QED  BY <1>1, <2>1, <3>1, <3>2
  <2>3. CASE r.host \notin HostsOf(c.map)
    <3>1. r.id > ids.id
      <4>1. r.id \in ids.id + 1..ids.id + Cardinality(Added(c))  BY <1>4, <2>3
      <4>2. Cardinality(Added(c)) \in Nat  BY <1>5, FS_CardinalityType
      <4> QED  BY <1>2, <4>1, <4>2
    <3> QED  BY <1>1, <2>1, <2>3, <3>1
  <2> QED  BY <2>2, <2>3
<1>9. \A r \in c.map : r.id \in Nat /\ r.id <= ids.id
  BY <1>1, <1>2 DEF Counted
<1>10. ASSUME NEW r \in cache'.map, NEW s \in cache'.map, r.id = s.id, r.id > ids.id PROVE r = s
  <2>1. r \in L /\ s \in L
    BY <1>2, <1>3, <1>9, <1>10
  <2>2. r.host \notin HostsOf(c.map) /\ s.host \notin HostsOf(c.map)
    BY <1>1, <1>2, <1>8, <1>9, <1>10, <2>1
  <2> QED  BY <1>4, <1>10, <2>1, <2>2
<1>11. ASSUME NEW r \in cache.map, r.host \in Given(c)
       PROVE  \E s \in cache'.map : s.id = r.id /\ s.rev = cache.last + 1
  <2>1. PICK s \in L : s.host = r.host  BY <1>4, <1>11
  <2>2. s.host \in HostsOf(c.map)  BY <1>1, <2>1 DEF HostsOf
  <2>3. s.id = r.id  BY <1>1, <1>4, <1>7, <2>1, <2>2
  <2> QED  BY <1>3, <1>8, <2>1, <2>3
<1>12. ASSUME NEW r \in cache.map, r.host \in Removed(c)
       PROVE  \E g \in Gone(c) : g.id = r.id /\ g.rev = cache.last + 1
  <2>1. Changed(c) # {}  BY <1>5, <1>12
  <2>2. [id |-> r.id, rev |-> c.last + 1] \in Gone(c)
    BY <1>1, <1>12, <2>1 DEF Gone
  <2> QED  BY <1>1, <2>2
<1>13. ASSUME NEW g \in Gone(c)
       PROVE  /\ g.rev = cache.last + 1
              /\ \E r \in cache.map : r.host \in Removed(c) /\ g.id = r.id
  <2>1. PICK r \in c.map :
           /\ r.host \in Removed(c)
           /\ g = [id |-> r.id, rev |-> IF Changed(c) = {} THEN c.last ELSE c.last + 1]
    BY DEF Gone
  <2>2. Changed(c) # {}  BY <1>5, <2>1
  <2> QED  BY <1>1, <2>1, <2>2
<1>14. \A h \in Hosts : h \notin Changed(c) => cache.updates[h] = Keep
  BY <1>1, <1>5
<1>15. \A r \in cache'.map : (r \in cache.map /\ r.host \notin Changed(c)) \/ r \in L
  BY <1>1, <1>3
<1>16. \A r \in cache.map : r.host \notin Changed(c) => r \in cache'.map
  BY <1>1, <1>3
<1> QED  BY <1>1, <1>3, <1>5, <1>6, <1>8, <1>10, <1>11, <1>12, <1>13, <1>14, <1>15, <1>16

LEMMA CopyRebalanceStep == IInv /\ IInv' /\ CopyInv /\ Rebalance => CopyInv'
<1> SUFFICES ASSUME IInv, IInv', CopyInv, Rebalance PROVE CopyInv'
  OBVIOUS
<1>1. PICK c \in RebalanceGroup(cache) :
         /\ cache' = GetHostmapUpdates(c, ids.id)
         /\ pgm' = Flush(c, cache')
         /\ ids' = [ids EXCEPT !.id = @ + Cardinality(Added(c))]
  BY DEF Rebalance
<1>2. /\ pgm.pc \in {"idle", "check"}
      /\ UNCHANGED <<conf, mail, rows, remote, sync, known, based, refused, crossed>>
  BY DEF Rebalance
<1>3. /\ Types /\ Types' /\ CopyTypes /\ Counted /\ OneRow /\ DbMatches
      /\ cache \in CacheType(GroupStates) /\ ids.id \in Nat
  BY DEF IInv, CopyInv, Types
<1>4. Same(cache, c)
  BY <1>3, Rebalanced
<1>5. /\ cache'.shown = cache.shown /\ cache'.synced = cache.synced
      /\ cache'.last = IF Changed(c) = {} THEN cache.last ELSE cache.last + 1
      /\ \A r \in cache'.map :
            \/ r \in cache.map /\ r.host \notin Changed(c)
            \/ /\ r.host \in Given(c) /\ r.rev = cache.last + 1
               /\ \/ \E t \in cache.map : t.host = r.host /\ t.id = r.id
                  \/ r.host \notin HostsOf(cache.map) /\ r.id > ids.id
      /\ \A r, s \in cache'.map : r.id = s.id /\ r.id > ids.id => r = s
      /\ \A r \in cache.map :
            /\ r.host \notin Changed(c) => r \in cache'.map
            /\ r.host \in Given(c) => \E s \in cache'.map : s.id = r.id /\ s.rev = cache.last + 1
            /\ r.host \in Removed(c) => \E g \in Gone(c) : g.id = r.id /\ g.rev = cache.last + 1
      /\ \A g \in Gone(c) : /\ g.rev = cache.last + 1
                            /\ \E r \in cache.map : r.host \in Removed(c) /\ g.id = r.id
      /\ \A p \in Proxies : cache'.deleted[p] = cache.deleted[p] \cup
            {g \in Gone(c) : cache.synced[p]}
      /\ Changed(c) = Given(c) \cup Removed(c) /\ Given(c) \cap Removed(c) = {}
      /\ \A h \in Hosts : h \notin Changed(c) => cache.updates[h] = Keep
  BY <1>1, <1>4, NewMap
<1>6. /\ pgm'.new = {r \in cache'.map : r.host \in Added(c)}
      /\ pgm'.mod = {r \in cache'.map : r.host \in Modified(c)}
      /\ pgm'.pc = IF Changed(c) = {} THEN "idle" ELSE "commit"
      /\ pgm'.touched <=> Given(c) \cup (Removed(c) \cap HostsOf(cache.map)) # {}
      /\ Added(c) \cup Modified(c) = Given(c)
  BY <1>1, <1>4 DEF Flush, Given, Same
<1>7. /\ cache.shown \in Nat /\ cache.last \in Nat /\ ids.rev \in Nat /\ cache.shown <= cache.last
      /\ \A r \in cache.map : r.id \in 1..ids.id /\ r.rev \in Nat /\ r.rev <= cache.last
                              /\ r.host \in Hosts
      /\ \A r \in rows : r.id \in 1..ids.id
  BY <1>3 DEF CacheType, Types, RowType, Counted
<1>8. ids'.id \in Nat /\ ids.id <= ids'.id /\ ids'.rev = ids.rev
  <2>1. c \in CacheType(GroupStates)  BY <1>4 DEF Same
  <2>2. Cardinality(Added(c)) \in Nat  BY <2>1, GivenHosts, FS_CardinalityType
  <2> QED  BY <1>1, <1>3, <2>2 DEF Types
<1>9. CopyTypes'
  BY <1>2, <1>3 DEF CopyTypes
<1>10. \A h \in Given(c) \cup Removed(c) : h \in Changed(c)
  BY <1>5
<1> HIDE DEF Flush
<1>a. ASSUME ~refused PROVE Distinct'
  <2>1. Distinct  BY <1>a DEF CopyInv
  <2>2. ASSUME NEW r \in rows \cup cache'.map
        PROVE  \/ r.id <= ids.id /\ \E t \in rows \cup cache.map : t.host = r.host /\ t.id = r.id
               \/ r \in cache'.map /\ r.id > ids.id
    <3>1. CASE r \in rows \cup cache.map
      BY <1>7, <3>1
    <3>2. CASE r \notin rows \cup cache.map
      <4>1. \/ \E t \in cache.map : t.host = r.host /\ t.id = r.id
            \/ r.id > ids.id
        BY <1>5, <2>2, <3>2
      <4> QED  BY <1>7, <2>2, <3>2, <4>1
    <3> QED  BY <3>1, <3>2
  <2>3. ASSUME NEW r \in rows \cup cache'.map, NEW s \in rows \cup cache'.map, r.id = s.id
        PROVE  r.host = s.host
    <3>1. CASE r.id <= ids.id
      <4>1. ~(r.id > ids.id) /\ ~(s.id > ids.id)
        <5>1. r.id \in Nat  BY <1>3, <2>3, <1>2 DEF Types, CacheType, RowType
        <5> QED  BY <1>3, <2>3, <3>1, <5>1
      <4>2. PICK t \in rows \cup cache.map : t.host = r.host /\ t.id = r.id  BY <2>2, <4>1
      <4>3. PICK u \in rows \cup cache.map : u.host = s.host /\ u.id = s.id  BY <2>2, <4>1
      <4> QED  BY <2>1, <2>3, <4>2, <4>3 DEF Distinct
    <3>2. CASE ~(r.id <= ids.id)
      <4>1. r \in cache'.map /\ s \in cache'.map /\ r.id > ids.id
        BY <2>2, <2>3, <3>2
      <4> QED  BY <1>5, <2>3, <4>1
    <3> QED  BY <3>1, <3>2
  <2> QED  BY <1>2, <2>3 DEF Distinct
<1>b. ASSUME ~refused PROVE Removals'
  <2>1. Distinct /\ Removals  BY <1>b DEF CopyInv
  <2> SUFFICES ASSUME NEW p \in Proxies, NEW d \in cache'.deleted[p]
               PROVE  d.id \in 1..ids'.id /\ d.rev <= cache'.last /\ \A r \in cache'.map : r.id # d.id
    BY DEF Removals
  <2>2. CASE d \in cache.deleted[p]
    <3>1. /\ d.id \in 1..ids.id /\ d.rev <= cache.last /\ d.rev \in Nat
          /\ \A r \in cache.map : r.id # d.id
      BY <1>3, <2>1, <2>2 DEF Removals, CacheType
    <3>2. d.id \in 1..ids'.id /\ d.rev <= cache'.last
      BY <1>3, <1>5, <1>7, <1>8, <3>1
    <3>3. ASSUME NEW r \in cache'.map PROVE r.id # d.id
      <4>1. (\E t \in cache.map : t.id = r.id) \/ r.id > ids.id
        BY <1>5
      <4> QED  BY <1>3, <3>1, <4>1
    <3> QED  BY <3>2, <3>3
  <2>3. CASE d \in Gone(c)
    <3>1. PICK s \in cache.map : s.host \in Removed(c) /\ d.id = s.id
      BY <1>5, <2>3
    <3>2. d.rev = cache.last + 1 /\ cache'.last = cache.last + 1
      <4>1. Changed(c) # {}  BY <1>10, <3>1
      <4> QED  BY <1>5, <2>3, <4>1
    <3>3. d.id \in 1..ids.id /\ d.id \in 1..ids'.id
      BY <1>3, <1>7, <1>8, <3>1
    <3>4. ASSUME NEW r \in cache'.map PROVE r.id # d.id
      <4>1. CASE \E t \in cache.map : t.host = r.host /\ t.id = r.id
        <5>1. r.host # s.host
          BY <1>5, <1>10, <3>1
        <5> QED  BY <2>1, <3>1, <4>1, <5>1 DEF Distinct
      <4>2. CASE r.id > ids.id
        BY <1>3, <3>3, <4>2
      <4> QED  BY <1>5, <4>1, <4>2
    <3> QED  BY <1>7, <3>2, <3>3, <3>4
  <2> QED  BY <1>5, <2>2, <2>3
<1>c. ASSUME ~refused PROVE Raised'
  <2>1. /\ ids.rev = cache.last
        /\ \A r \in cache.map : r.rev <= cache.shown
        /\ \A p \in Proxies : \A d \in cache.deleted[p] : d.rev <= cache.shown
    <3>1. Raised  BY <1>c DEF CopyInv
    <3> QED  BY <1>2, <1>3, <1>c, <3>1 DEF Raised, DbMatches
  <2>2. cache'.shown <= ids'.rev
    BY <1>5, <1>7, <1>8, <2>1
  <2>3. pgm'.pc = "commit" => cache'.shown < cache'.last
    BY <1>5, <1>6, <1>7
  <2>4. ASSUME NEW r \in pgm'.new \cup pgm'.mod PROVE r.rev > ids'.rev
    <3>1. r \in cache'.map /\ r.host \in Changed(c)
      BY <1>6, <1>10
    <3>2. r.rev = cache.last + 1
      BY <1>5, <3>1
    <3> QED  BY <1>7, <1>8, <2>1, <3>2
  <2>5. ASSUME pgm'.pc = "commit" => ~pgm'.touched
        PROVE  /\ \A r \in cache'.map : r.rev <= cache'.shown
               /\ \A p \in Proxies : \A d \in cache'.deleted[p] : d.rev <= cache'.shown
    <3>1. Given(c) = {} /\ Removed(c) \cap HostsOf(cache.map) = {}
      <4>1. Changed(c) = {} => Given(c) = {} /\ Removed(c) = {}  BY <1>5
      <4> QED  BY <1>6, <2>5, <4>1
    <3>2. \A r \in cache'.map : r \in cache.map
      BY <1>5, <3>1
    <3>3. Gone(c) = {}
      BY <1>5, <3>1 DEF HostsOf
    <3> QED  BY <1>5, <2>1, <3>2, <3>3
  <2> QED  BY <2>2, <2>3, <2>4, <2>5 DEF Raised
<1>d. ASSUME NEW p \in Proxies PROVE Evolves(p)
  <2>1. \A r \in cache'.map : r.rev <= cache.shown => r \in cache.map
    BY <1>5, <1>7
  <2>2. ASSUME NEW r \in cache.map \cap cache'.map, Still(r.host)'
        PROVE  Still(r.host) /\ conf'[r.host].name = conf[r.host].name
    <3>1. r.host \notin Changed(c)
      BY <1>5, <1>7
    <3>2. cache.updates[r.host] = Keep
      BY <1>5, <1>7, <3>1
    <3> QED  BY <1>2, <2>2, <3>2 DEF Still
  <2>3. ASSUME NEW r \in cache.map
        PROVE  \/ r \in cache'.map
               \/ \E s \in cache'.map : s.id = r.id /\ s.rev > cache.shown
               \/ cache.synced[p] => \E d \in cache'.deleted[p] : d.id = r.id /\ d.rev > cache.shown
    <3>1. CASE r.host \notin Changed(c)
      BY <1>5, <3>1
    <3>2. CASE r.host \in Given(c)
      <4>1. PICK s \in cache'.map : s.id = r.id /\ s.rev = cache.last + 1  BY <1>5, <3>2
      <4> QED  BY <1>7, <4>1
    <3>3. CASE r.host \in Removed(c)
      <4>1. PICK g \in Gone(c) : g.id = r.id /\ g.rev = cache.last + 1  BY <1>5, <3>3
      <4>2. cache.synced[p] => g \in cache'.deleted[p]  BY <1>5
      <4> QED  BY <1>7, <4>1, <4>2
    <3> QED  BY <1>5, <3>1, <3>2, <3>3
  <2>4. \A r \in cache'.map : (\E s \in cache.map : s.id = r.id) \/ r.id > ids.id
    BY <1>5
  <2>5. /\ cache.deleted[p] \subseteq cache'.deleted[p]
        /\ \A d \in cache'.deleted[p] : d \in cache.deleted[p] \/ d.rev > cache.shown
    BY <1>5, <1>7
  <2> QED  BY <1>5, <1>7, <1>8, <2>1, <2>2, <2>3, <2>4, <2>5 DEF Evolves
<1>e. ASSUME NEW p \in Proxies, Tabled(p), cache.synced[p] PROVE Tabled(p)'
  <2> SUFFICES ASSUME NEW s \in rows
               PROVE  \/ \E r \in cache'.map : r.id = s.id
                      \/ /\ pgm'.pc = "commit"
                         /\ \E d \in cache'.deleted[p] : d.id = s.id /\ d.rev > cache'.shown
    BY <1>2 DEF Tabled
  <2>1. PICK r \in cache.map : r.id = s.id
    BY <1>2, <1>e DEF Tabled
  <2>2. CASE r.host \notin Changed(c)
    BY <1>5, <2>1, <2>2
  <2>3. CASE r.host \in Given(c)
    BY <1>5, <2>1, <2>3
  <2>4. CASE r.host \in Removed(c)
    <3>1. PICK g \in Gone(c) : g.id = r.id /\ g.rev = cache.last + 1  BY <1>5, <2>4
    <3>2. g \in cache'.deleted[p]  BY <1>5, <1>e
    <3>3. pgm'.pc = "commit"  BY <1>6, <1>10, <2>4
    <3> QED  BY <1>5, <1>7, <2>1, <3>1, <3>2, <3>3
  <2> QED  BY <1>5, <2>2, <2>3, <2>4
<1>f. ASSUME ~refused, ~crossed, NEW p \in Proxies PROVE Followed(p)'
  <2>1. Followed(p) /\ Evolves(p)
    BY <1>d, <1>f DEF CopyInv
  <2>2. Tabled(p) /\ cache.synced[p] => Tabled(p)'
    BY <1>e
  <2> QED  BY <1>2, <1>3, <1>5, <2>1, <2>2, FollowedEvolves
<1> QED  BY <1>2, <1>9, <1>a, <1>b, <1>c, <1>f DEF CopyInv

\* The steps of the proxies do not touch the map.
Fixed == UNCHANGED <<conf, mail, rows, ids, cache, pgm, refused, crossed>>

LEMMA FollowedFixed ==
    ASSUME NEW p \in Proxies, Types, Types', CopyTypes, Followed(p), Fixed,
           p \in based' <=> p \in based, p \in known' <=> p \in known,
           remote'[p] = remote[p], sync'[p] = sync[p]
    PROVE  Followed(p)'
<1>1. \A r \in cache.map :
          Still(r.host)' => Still(r.host) /\ conf'[r.host].name = conf[r.host].name
  BY DEF Fixed, Still
<1>2. Tabled(p) => Tabled(p)'
  BY DEF Fixed, Tabled
<1>3. cache.shown <= cache'.shown /\ cache'.map = cache.map /\ ids'.id = ids.id
      /\ cache'.deleted[p] = cache.deleted[p] /\ cache'.synced[p] = cache.synced[p]
  BY DEF Fixed, Types, CacheType
<1> QED  BY <1>1, <1>2, <1>3, FollowedKept

LEMMA FixedInv ==
    ASSUME CopyInv, Fixed, CopyTypes',
           ~refused /\ ~crossed => \A p \in Proxies : Followed(p)'
    PROVE  CopyInv'
<1>1. refused' = refused /\ crossed' = crossed
  BY DEF Fixed
<1>2. ASSUME ~refused PROVE Distinct' /\ Removals' /\ Raised'
  <2>1. Distinct /\ Removals /\ Raised
    BY <1>2 DEF CopyInv
  <2> QED  BY <2>1 DEF Fixed, Distinct, Removals, Raised
<1> QED  BY <1>1, <1>2 DEF CopyInv

\* What the predicates on copies and answers say is not changed by them either.
LEMMA FixedParts ==
    ASSUME Fixed
    PROVE  /\ \A S, lo, hi : Caught(S, lo, hi)' <=> Caught(S, lo, hi)
           /\ \A p, x, hi : Explained(p, x, hi)' <=> Explained(p, x, hi)
           /\ \A p : Tabled(p)' <=> Tabled(p)
<1>1. \A h : Still(h)' <=> Still(h)
  BY DEF Fixed, Still
<1>2. \A r : Copy(r)' = Copy(r)
  BY DEF Fixed, Copy
<1>3. ASSUME NEW S, NEW lo, NEW hi PROVE Caught(S, lo, hi)' <=> Caught(S, lo, hi)
  BY <1>1, <1>2 DEF Fixed, Caught
<1>4. ASSUME NEW p, NEW x, NEW hi PROVE Explained(p, x, hi)' <=> Explained(p, x, hi)
  BY <1>1, <1>2 DEF Fixed, Explained
<1>5. ASSUME NEW p PROVE Tabled(p)' <=> Tabled(p)
  BY DEF Fixed, Tabled
<1> QED  BY <1>3, <1>4, <1>5

LEMMA CopyReadStep ==
    ASSUME NEW p \in Proxies PROVE IInv /\ IInv' /\ CopyInv /\ GetHostmap(p) => CopyInv'
<1> SUFFICES ASSUME IInv, IInv', CopyInv, GetHostmap(p) PROVE CopyInv'
  OBVIOUS
<1>a. PICK a : a = sync[p]
  OBVIOUS
<1>b. PICK b : b = [pc |-> "reply", all |-> a.all, hostmap |-> a.hostmap, above |-> a.above,
                    rev |-> a.rev, del |-> a.del, sure |-> a.sure,
                    rows |-> IF a.hostmap
                             THEN {Copy(r) : r \in {s \in rows : conf[s.host].at = "in"
                                                                 /\ s.rev > a.above}}
                             ELSE {}]
  OBVIOUS
<1>1. a.pc = "read" /\ sync' = [sync EXCEPT ![p] = b] /\ Fixed
      /\ UNCHANGED <<remote, known, based>>
  BY <1>a, <1>b DEF GetHostmap, Fixed
<1>2. Types /\ Types' /\ CopyTypes /\ OneRow
  BY DEF IInv, CopyInv
<1>3. a \in ReadType
  <2>1. a \in {NoSync} \cup ReadType \cup ReplyType  BY <1>a, <1>2 DEF CopyTypes
  <2> QED  BY <1>1, <2>1 DEF NoSync, ReplyType
<1>4. /\ b.pc = "reply" /\ b.all = a.all /\ b.hostmap = a.hostmap /\ b.above = a.above
      /\ b.rev = a.rev /\ b.del = a.del /\ b.sure = a.sure
      /\ a.hostmap => b.rows = {Copy(r) : r \in {s \in rows : conf[s.host].at = "in"
                                                              /\ s.rev > a.above}}
  BY <1>b
<1>5. /\ rows \in SUBSET RowType /\ conf \in [Hosts -> [at : Places, name : Nat]]
      /\ cache.map \in SUBSET RowType /\ cache.shown \in Nat
      /\ a.rev \in Nat /\ a.above \in Nat
  BY <1>2, <1>3 DEF Types, CacheType, ReadType
<1>6. b \in ReplyType
  <2>1. \A r \in rows : Copy(r) \in CopyType
    BY <1>5 DEF Copy, CopyType, RowType
  <2>2. b.rows \in SUBSET CopyType
    BY <1>b, <2>1
  <2> QED  BY <1>b, <1>3, <2>2 DEF ReadType, ReplyType
<1>7. sync'[p] = b /\ \A q \in Proxies \ {p} : sync'[q] = sync[q]
  BY <1>1, <1>2 DEF CopyTypes
<1>8. CopyTypes'
  BY <1>1, <1>2, <1>6 DEF CopyTypes
<1>9. ASSUME ~refused, ~crossed, p \in known, Followed(p), Distinct, Raised
      PROVE  Read(p, b)
  <2>1. Sent(p, remote[p], a)
    BY <1>a, <1>1, <1>9 DEF Followed
  <2> SUFFICES ASSUME a.hostmap
               PROVE  /\ Caught(b.rows, a.above, a.rev)
                      /\ \A r \in cache.map : r.rev <= a.above => \A x \in b.rows : x.id # r.id
                      /\ p \in based \/ a.sure => \A x \in b.rows : Explained(p, x, a.rev)
    BY <1>4 DEF Read
  <2>2. a.rev <= cache.shown /\ a.above <= a.rev
    BY <2>1 DEF Sent
  <2>3. ASSUME NEW r \in cache.map, Still(r.host), r.rev <= a.rev
        PROVE  r \in rows /\ conf[r.host].at = "in"
    <3>1. conf[r.host].at = "in"
      BY <1>9, <2>3, StillIn
    <3>2. r.rev <= cache.shown
      BY <1>5, <2>2, <2>3 DEF RowType
    <3> QED  BY <1>9, <3>1, <3>2, StillStored
  <2>4. Caught(b.rows, a.above, a.rev)
    <3> SUFFICES ASSUME NEW r \in cache.map, a.above < r.rev, r.rev <= a.rev, Still(r.host)
                 PROVE  Copy(r) \in b.rows
      BY DEF Caught
    <3>1. r \in rows /\ conf[r.host].at = "in" /\ r.rev > a.above
      BY <1>5, <2>3 DEF RowType
    <3> QED  BY <1>4, <3>1
  <2>5. ASSUME NEW r \in cache.map, r.rev <= a.above, NEW x \in b.rows, x.id = r.id PROVE FALSE
    <3>1. PICK s \in rows : conf[s.host].at = "in" /\ s.rev > a.above /\ x = Copy(s)
      BY <1>4
    <3>2. s.host = r.host
      BY <1>9, <2>5, <3>1 DEF Distinct, Copy
    <3>3. r.rev <= cache.shown
      BY <1>5, <2>2, <2>5 DEF RowType
    <3>4. r \in rows
      BY <1>9, <3>1, <3>2, <3>3, StillStored
    <3>5. r = s
      BY <1>2, <3>2, <3>4 DEF OneRow
    <3> QED  BY <1>5, <2>5, <3>1, <3>5 DEF RowType
  <2>6. ASSUME p \in based \/ a.sure, NEW x \in b.rows PROVE Explained(p, x, a.rev)
    <3>1. PICK s \in rows : x = Copy(s)
      BY <1>4
    <3>2. x.id = s.id
      BY <3>1 DEF Copy
    <3>3. Tabled(p)
      BY <1>a, <1>1, <1>9, <2>6 DEF Followed, Whole
    <3>4. CASE \E r \in cache.map : r.id = s.id
      <4>1. PICK r \in cache.map : r.id = s.id  BY <3>4
      <4>2. ASSUME ~(r.rev > a.rev), Still(r.host) PROVE x = Copy(r)
        <5>1. r.rev <= a.rev  BY <1>5, <4>2 DEF RowType
        <5>2. r \in rows  BY <2>3, <4>2, <5>1
        <5>3. r.host = s.host  BY <1>9, <4>1 DEF Distinct
        <5>4. r = s  BY <1>2, <5>2, <5>3 DEF OneRow
        <5> QED  BY <3>1, <5>4
      <4> QED  BY <3>2, <4>1, <4>2 DEF Explained
    <3>5. CASE \E d \in cache.deleted[p] : d.id = s.id /\ d.rev > cache.shown
      <4>1. PICK d \in cache.deleted[p] : d.id = s.id /\ d.rev > cache.shown  BY <3>5
      <4>2. d.rev > a.rev
        <5>1. d.rev \in Nat  BY <1>2 DEF Types, CacheType
        <5> QED  BY <1>5, <2>2, <4>1, <5>1
      <4> QED  BY <3>2, <4>1, <4>2 DEF Explained
    <3> QED  BY <3>3, <3>4, <3>5 DEF Tabled
  <2> QED  BY <2>4, <2>5, <2>6
<1>10. ASSUME ~refused, ~crossed PROVE Followed(p)'
  <2>1. Followed(p) /\ Distinct /\ Raised
    BY <1>10 DEF CopyInv
  <2>2. PICK m : m = remote[p]
    OBVIOUS
  <2>3. remote'[p] = m /\ known' = known /\ based' = based /\ sync'[p] = b
    BY <1>1, <1>7, <2>2
  <2>4. ~(p \notin known /\ m.served)
    BY <1>a, <1>1, <2>1, <2>2 DEF Followed
  <2>5. Held(p, m)'
    <3>1. Held(p, m)  BY <2>1, <2>2 DEF Followed
    <3> QED  BY <1>1, <2>3, <3>1, FixedParts DEF Held, Fixed
  <2>6. p \in known => Sent(p, m, b)'
    <3>1. p \in known => Sent(p, m, a)  BY <1>a, <1>1, <2>1, <2>2 DEF Followed
    <3> QED  BY <1>1, <1>4, <2>3, <3>1 DEF Sent, Fixed
  <2>7. p \in known => Read(p, b)'
    <3>1. p \in known => Read(p, b)  BY <1>9, <1>10, <2>1
    <3> QED  BY <1>1, <2>3, <3>1, FixedParts DEF Read, Fixed
  <2>8. Whole(p)' => cache'.synced[p] /\ cache'.shown >= 1 /\ Tabled(p)'
    <3>1. Whole(p)' => Whole(p)  BY <1>a, <1>1, <1>4, <2>3 DEF Whole
    <3> QED  BY <1>1, <2>1, <3>1, FixedParts DEF Followed, Fixed
  <2> QED  BY <2>3, <2>4, <2>5, <2>6, <2>7, <2>8 DEF Followed
<1>11. ASSUME ~refused, ~crossed, NEW q \in Proxies PROVE Followed(q)'
  <2>1. CASE q = p
    BY <1>10, <1>11, <2>1
  <2>2. CASE q # p
    <3>1. Followed(q)  BY <1>11 DEF CopyInv
    <3> QED  BY <1>1, <1>2, <1>7, <2>2, <3>1, FollowedFixed
  <2> QED  BY <2>1, <2>2
<1> QED  BY <1>1, <1>8, <1>11, FixedInv

\* proxyconfig_sync_proxy_group keeps what a copy promises.
LEMMA StoredCopy ==
    ASSUME NEW p \in Proxies, Types, NEW m \in RemoteType, NEW a \in ReplyType,
           Sent(p, m, a), Read(p, a), Held(p, m), NEW S, S = Applied(m.rows, a)
    PROVE  /\ S \in SUBSET CopyType
           /\ m.served \/ a.above = 0 => a.rev <= cache.shown /\ Caught(S, 0, a.rev)
           /\ p \in based \/ a.sure => /\ m.served \/ a.above = 0
                                       /\ a.rev >= 1
                                       /\ \A x \in S : Explained(p, x, a.rev)
<1>1. /\ a.rev \in Nat /\ a.above \in Nat /\ a.rows \in SUBSET CopyType /\ a.hostmap \in BOOLEAN
      /\ a.all \in BOOLEAN /\ a.sure \in BOOLEAN /\ m.rows \in SUBSET CopyType /\ m.rev \in Nat
      /\ m.served \in BOOLEAN /\ m.configured \in BOOLEAN
      /\ cache.map \in SUBSET RowType /\ cache.shown \in Nat
  BY DEF RemoteType, ReplyType, Types, CacheType
<1>2. /\ ~a.hostmap => S = m.rows
      /\ a.hostmap /\ a.all => S = a.rows
      /\ a.hostmap /\ ~a.all =>
            S = {r \in m.rows : r.id \notin {x.id : x \in a.rows} \cup a.del}
                \cup {r \in a.rows : r.id \in a.del => r.id \notin {x.id : x \in m.rows}}
  BY DEF Applied
<1>3. /\ a.rev <= cache.shown
      /\ a.above = 0 \/ (~a.all /\ m.configured /\ a.above = m.rev)
      /\ IF a.hostmap THEN a.above <= a.rev ELSE a.rev = 0 /\ ~a.all
      /\ a.sure => a.all /\ a.rev >= 1
      /\ \A r \in cache.map : r.id \notin a.del
      /\ p \in based => a.rev >= 1 /\ (a.above = 0 => a.all)
      /\ a.above # 0 => \A d \in cache.deleted[p] :
                           d.rev > a.above => d.id \in a.del \/ d.rev > a.rev
  BY DEF Sent
<1>4. a.hostmap =>
        /\ \A r \in cache.map : a.above < r.rev /\ r.rev <= a.rev /\ Still(r.host)
                                => Copy(r) \in a.rows
        /\ \A r \in cache.map : r.rev <= a.above => \A x \in a.rows : x.id # r.id
        /\ p \in based \/ a.sure => \A x \in a.rows : Explained(p, x, a.rev)
  BY DEF Read, Caught
<1>5. \A r \in cache.map : Copy(r).id = r.id /\ r.rev \in Nat
  BY <1>1 DEF Copy, RowType
<1>6. S \in SUBSET CopyType
  BY <1>1, <1>2
<1>7. ASSUME m.served \/ a.above = 0 PROVE Caught(S, 0, a.rev)
  <2> SUFFICES ASSUME NEW r \in cache.map, 0 < r.rev, r.rev <= a.rev, Still(r.host)
               PROVE  Copy(r) \in S
    BY DEF Caught
  <2>1. a.hostmap
    BY <1>1, <1>3, <1>5
  <2>2. CASE r.rev > a.above
    <3>1. Copy(r) \in a.rows  BY <1>1, <1>4, <1>5, <2>1, <2>2
    <3>2. Copy(r).id \notin a.del  BY <1>3, <1>5
    <3> QED  BY <1>1, <1>2, <2>1, <3>1, <3>2
  <2>3. CASE ~(r.rev > a.above)
    <3>1. a.above # 0 /\ r.rev <= a.above
      BY <1>1, <1>5, <2>3
    <3>2. ~a.all /\ m.configured /\ a.above = m.rev /\ m.served
      BY <1>3, <1>7, <3>1
    <3>3. Copy(r) \in m.rows
      BY <1>1, <3>1, <3>2 DEF Held, Caught
    <3>4. Copy(r).id \notin {x.id : x \in a.rows} \cup a.del
      BY <1>3, <1>4, <1>5, <2>1, <3>1
    <3> QED  BY <1>2, <2>1, <3>2, <3>3, <3>4
  <2> QED  BY <2>2, <2>3
<1>8. ASSUME p \in based \/ a.sure
      PROVE  (m.served \/ a.above = 0) /\ a.rev >= 1 /\ \A x \in S : Explained(p, x, a.rev)
  <2>1. a.rev >= 1 /\ a.hostmap
    BY <1>1, <1>3, <1>8
  <2>2. m.served \/ a.above = 0
    BY <1>3, <1>8 DEF Held
  <2>3. CASE a.all
    BY <1>2, <1>4, <1>8, <2>1, <2>2, <2>3
  <2>4. CASE ~a.all
    <3>1. p \in based /\ a.above # 0 /\ m.configured /\ a.above = m.rev
      BY <1>3, <1>8, <2>4
    <3>2. ASSUME NEW x \in m.rows, x.id \notin {y.id : y \in a.rows} \cup a.del
          PROVE  Explained(p, x, a.rev)
      <4>1. Explained(p, x, m.rev)
        BY <3>1 DEF Held
      <4>2. CASE \E r \in cache.map : r.id = x.id
                     /\ (r.rev > m.rev \/ ~Still(r.host) \/ x = Copy(r))
        <5>1. PICK r \in cache.map : r.id = x.id
                 /\ (r.rev > m.rev \/ ~Still(r.host) \/ x = Copy(r))
          BY <4>2
        <5>2. ASSUME r.rev > m.rev, Still(r.host), ~(r.rev > a.rev) PROVE FALSE
          <6>1. Copy(r) \in a.rows
            <7>1. a.above < r.rev /\ r.rev <= a.rev  BY <1>1, <1>5, <3>1, <5>2
            <7> QED  BY <1>4, <2>1, <5>2, <7>1
          <6>2. x.id \in {y.id : y \in a.rows}
            BY <1>5, <5>1, <6>1
          <6> QED  BY <3>2, <6>2
        <5> QED  BY <5>1, <5>2 DEF Explained
      <4>3. CASE \E d \in cache.deleted[p] : d.id = x.id /\ d.rev > m.rev
        <5>1. PICK d \in cache.deleted[p] : d.id = x.id /\ d.rev > m.rev
          BY <4>3
        <5>2. d.id \in a.del \/ d.rev > a.rev
          BY <1>3, <3>1, <5>1
        <5> QED  BY <3>2, <5>1, <5>2 DEF Explained
      <4> QED  BY <4>1, <4>2, <4>3 DEF Explained
    <3>3. \A x \in a.rows : Explained(p, x, a.rev)
      BY <1>4, <1>8, <2>1
    <3> QED  BY <1>2, <2>1, <2>2, <2>4, <3>2, <3>3
  <2> QED  BY <1>1, <2>3, <2>4
<1> QED  BY <1>3, <1>6, <1>7, <1>8

LEMMA CopySyncStep ==
    ASSUME NEW p \in Proxies PROVE IInv /\ IInv' /\ CopyInv /\ SyncProxyGroup(p) => CopyInv'
<1> SUFFICES ASSUME IInv, IInv', CopyInv, SyncProxyGroup(p) PROVE CopyInv'
  OBVIOUS
<1>a. PICK a : a = sync[p]
  OBVIOUS
<1>m. PICK m : m = remote[p]
  OBVIOUS
<1>s. PICK S : S = Applied(m.rows, a)
  OBVIOUS
<1>n. PICK n : n = [configured |-> TRUE, rev |-> a.rev, locked |-> FALSE, rows |-> S,
                    served |-> m.served \/ (p \in known /\ a.above = 0)]
  OBVIOUS
<1>1. /\ a.pc = "reply" /\ Fixed /\ UNCHANGED known
      /\ based' = IF a.sure /\ p \in known THEN based \cup {p} ELSE based
      /\ sync' = [sync EXCEPT ![p] = NoSync]
  BY <1>a DEF SyncProxyGroup, Fixed
<1>2. remote' = [remote EXCEPT ![p] = n]
  BY <1>a, <1>m, <1>s, <1>n DEF SyncProxyGroup
<1>3. Types /\ Types' /\ CopyTypes
  BY DEF IInv, CopyInv
<1>4. a \in ReplyType /\ m \in RemoteType
  <2>1. a \in {NoSync} \cup ReadType \cup ReplyType /\ m \in RemoteType
    BY <1>a, <1>m, <1>3 DEF CopyTypes
  <2> QED  BY <1>1, <2>1 DEF NoSync, ReadType
<1>5. /\ a.rev \in Nat /\ a.rows \in SUBSET CopyType /\ m.rows \in SUBSET CopyType
      /\ m.served \in BOOLEAN
  BY <1>4 DEF ReplyType, RemoteType
<1>6. S \in SUBSET CopyType
  BY <1>s, <1>5 DEF Applied
<1>7. /\ n \in RemoteType /\ n.configured = TRUE /\ n.rev = a.rev /\ n.rows = S
      /\ n.served <=> m.served \/ (p \in known /\ a.above = 0)
  BY <1>n, <1>5, <1>6 DEF RemoteType
<1>8. /\ sync'[p] = NoSync /\ remote'[p] = n
      /\ \A q \in Proxies \ {p} : sync'[q] = sync[q] /\ remote'[q] = remote[q]
                                  /\ (q \in based' <=> q \in based)
  BY <1>1, <1>2, <1>3 DEF CopyTypes
<1>9. CopyTypes'
  BY <1>1, <1>2, <1>3, <1>7 DEF CopyTypes
<1>10. ASSUME ~refused, ~crossed PROVE Followed(p)'
  <2>1. Followed(p)
    BY <1>10 DEF CopyInv
  <2>2. /\ p \notin known => ~m.served
        /\ Held(p, m)
        /\ p \in known => Sent(p, m, a) /\ Read(p, a)
    BY <1>1, <1>a, <1>m, <2>1 DEF Followed
  <2>3. p \in based => m.served
    BY <2>2 DEF Held
  <2>4. NoSync.pc = "none"
    BY DEF NoSync
  <2>5. p \in based' => p \in known /\ (p \in based \/ a.sure)
    BY <1>1, <2>2, <2>3
  <2>6. p \in known => /\ n.served => n.rev <= cache.shown /\ Caught(n.rows, 0, n.rev)
                       /\ p \in based \/ a.sure => /\ n.served /\ n.rev >= 1
                                                   /\ \A x \in n.rows : Explained(p, x, n.rev)
    BY <1>3, <1>4, <1>7, <1>s, <2>2, StoredCopy
  <2>7. ~n.served \/ p \in known
    BY <1>7, <2>2
  <2>8. Held(p, n)'
    BY <1>1, <2>5, <2>6, <2>7, FixedParts DEF Held, Fixed
  <2>9. Whole(p)' => cache'.synced[p] /\ cache'.shown >= 1 /\ Tabled(p)'
    <3>1. Whole(p)' => Whole(p)  BY <1>1, <1>8, <1>a, <2>4, <2>5 DEF Whole
    <3> QED  BY <1>1, <2>1, <3>1, FixedParts DEF Followed, Fixed
  <2> QED  BY <1>1, <1>8, <2>4, <2>7, <2>8, <2>9 DEF Followed
<1>11. ASSUME ~refused, ~crossed, NEW q \in Proxies PROVE Followed(q)'
  <2>1. CASE q = p
    BY <1>10, <1>11, <2>1
  <2>2. CASE q # p
    <3>1. Followed(q)  BY <1>11 DEF CopyInv
    <3> QED  BY <1>1, <1>3, <1>8, <2>2, <3>1, FollowedFixed
  <2> QED  BY <2>1, <2>2
<1> QED  BY <1>1, <1>9, <1>11, FixedInv

\* A copy whose request ends without an answer that is stored.
LEMMA CopyEndStep ==
    ASSUME NEW p \in Proxies, IInv, IInv', CopyInv, Fixed, NEW n \in RemoteType,
           remote' = [remote EXCEPT ![p] = n], sync' = [sync EXCEPT ![p] = NoSync],
           n.rows = remote[p].rows, n.served = remote[p].served,
           n.configured => remote[p].configured /\ n.rev = remote[p].rev, based' = based,
           \/ known' = known /\ (~n.configured \/ sync[p].pc = "reply")
           \/ known' = known \ {p} /\ ~n.configured
    PROVE  CopyInv'
<1>m. PICK m : m = remote[p]
  OBVIOUS
<1>1. Types /\ Types' /\ CopyTypes
  BY DEF IInv, CopyInv
<1>2. /\ sync'[p] = NoSync /\ remote'[p] = n /\ NoSync.pc = "none"
      /\ \A q \in Proxies \ {p} : sync'[q] = sync[q] /\ remote'[q] = remote[q]
                                  /\ (q \in known' <=> q \in known)
  BY <1>1 DEF CopyTypes, NoSync
<1>3. CopyTypes'
  BY <1>1 DEF CopyTypes
<1>4. ASSUME ~refused, ~crossed PROVE Followed(p)'
  <2>1. Followed(p)
    BY <1>4 DEF CopyInv
  <2>2. Held(p, m)
    BY <1>m, <2>1 DEF Followed
  <2>3. Held(p, n)'
    <3>1. /\ n.rows = m.rows /\ n.served = m.served
          /\ n.configured => m.configured /\ n.rev = m.rev
      BY <1>m
    <3> QED  BY <2>2, <3>1, FixedParts DEF Held, Fixed
  <2>4. p \notin known' /\ n.served => ~n.configured
    BY <2>1 DEF Followed
  <2>5. Whole(p)' => cache'.synced[p] /\ cache'.shown >= 1 /\ Tabled(p)'
    <3>1. Whole(p)' => Whole(p)  BY <1>2 DEF Whole
    <3> QED  BY <2>1, <3>1, FixedParts DEF Followed, Fixed
  <2> QED  BY <1>2, <2>3, <2>4, <2>5 DEF Followed
<1>5. ASSUME ~refused, ~crossed, NEW q \in Proxies PROVE Followed(q)'
  <2>1. CASE q = p
    BY <1>4, <1>5, <2>1
  <2>2. CASE q # p
    <3>1. Followed(q)  BY <1>5 DEF CopyInv
    <3> QED  BY <1>1, <1>2, <2>2, <3>1, FollowedFixed
  <2> QED  BY <2>1, <2>2
<1> QED  BY <1>3, <1>5, FixedInv

LEMMA CopyLossStep ==
    ASSUME NEW p \in Proxies
    PROVE  IInv /\ IInv' /\ CopyInv /\ (CommitFails(p) \/ Lose(p) \/ RestartProxy(p)) => CopyInv'
<1> SUFFICES ASSUME IInv, IInv', CopyInv, CommitFails(p) \/ Lose(p) \/ RestartProxy(p)
             PROVE  CopyInv'
  OBVIOUS
<1>1. remote \in [Proxies -> RemoteType] /\ remote[p] \in RemoteType
  BY DEF CopyInv, CopyTypes
<1>2. CASE CommitFails(p)
  <2>1. PICK n : n = [remote[p] EXCEPT !.locked = FALSE]
    OBVIOUS
  <2>2. /\ n \in RemoteType /\ n.rows = remote[p].rows /\ n.served = remote[p].served
        /\ n.configured = remote[p].configured /\ n.rev = remote[p].rev
    BY <1>1, <2>1 DEF RemoteType
  <2>3. /\ Fixed /\ sync[p].pc = "reply" /\ based' = based /\ known' = known
        /\ remote' = [remote EXCEPT ![p] = n] /\ sync' = [sync EXCEPT ![p] = NoSync]
    BY <1>2, <2>1 DEF CommitFails, Fixed
  <2> QED  BY <2>2, <2>3, CopyEndStep
<1>3. CASE Lose(p)
  <2>1. PICK n : n = WithoutAnswer(p)
    OBVIOUS
  <2>2. /\ n \in RemoteType /\ n.rows = remote[p].rows /\ n.served = remote[p].served
        /\ n.configured => remote[p].configured /\ n.rev = remote[p].rev
    BY <1>1, <2>1 DEF RemoteType, WithoutAnswer
  <2>3. /\ Fixed /\ sync[p].pc = "reply" /\ based' = based /\ known' = known
        /\ remote' = [remote EXCEPT ![p] = n] /\ sync' = [sync EXCEPT ![p] = NoSync]
    BY <1>3, <2>1 DEF Lose, Fixed
  <2> QED  BY <2>2, <2>3, CopyEndStep
<1>4. CASE RestartProxy(p)
  <2>1. PICK n : n = [remote[p] EXCEPT !.configured = FALSE, !.rev = 0, !.locked = FALSE]
    OBVIOUS
  <2>2. /\ n \in RemoteType /\ n.rows = remote[p].rows /\ n.served = remote[p].served
        /\ n.configured = FALSE
    BY <1>1, <2>1 DEF RemoteType
  <2>3. /\ Fixed /\ based' = based /\ known' = known \ {p}
        /\ remote' = [remote EXCEPT ![p] = n] /\ sync' = [sync EXCEPT ![p] = NoSync]
    BY <1>4, <2>1 DEF RestartProxy, Fixed
  <2> QED  BY <2>2, <2>3, CopyEndStep
<1> QED  BY <1>2, <1>3, <1>4

LEMMA CopyRestartStep == IInv /\ IInv' /\ CopyInv /\ RestartServer => CopyInv'
<1> SUFFICES ASSUME IInv, IInv', CopyInv, RestartServer PROVE CopyInv'
  OBVIOUS
<1>1. /\ cache' = Started(quiet) /\ pgm' = [Nothing EXCEPT !.pc = "check"]
      /\ sync' = [p \in Proxies |-> IF sync[p].pc = "read" THEN NoSync ELSE sync[p]]
      /\ remote' = [p \in Proxies |->
                      [(IF sync[p].pc = "read" THEN WithoutAnswer(p) ELSE remote[p])
                          EXCEPT !.served = FALSE]]
      /\ known' = {} /\ based' = {}
      /\ UNCHANGED <<conf, rows, ids, refused>>
  BY DEF RestartServer
<1>2. Types /\ Types' /\ CopyTypes /\ Counted
  BY DEF IInv, CopyInv
<1>3. PICK in : in = {h \in Hosts : conf[h].at = "in"}
  OBVIOUS
<1>4. /\ cache'.map = {r \in rows : r.host \in in}
      /\ cache'.last = ids.rev /\ cache'.shown <= cache'.last
      /\ \A r \in cache'.map : r.rev <= cache'.shown
      /\ \A p \in Proxies : cache'.deleted[p] = {}
  BY <1>1, <1>2, <1>3, StartedCache DEF Types, Counted
<1>5. ASSUME NEW p \in Proxies
      PROVE  /\ remote'[p] \in RemoteType /\ remote'[p].served = FALSE
             /\ sync'[p] \in {NoSync} \cup ReadType \cup ReplyType
  <2>1. remote[p] \in RemoteType /\ sync[p] \in {NoSync} \cup ReadType \cup ReplyType
    BY <1>2 DEF CopyTypes
  <2>2. WithoutAnswer(p) \in RemoteType
    BY <2>1 DEF WithoutAnswer, RemoteType
  <2>3. \A n \in RemoteType : /\ [n EXCEPT !.served = FALSE] \in RemoteType
                              /\ [n EXCEPT !.served = FALSE].served = FALSE
    BY DEF RemoteType
  <2>4. remote'[p] = [(IF sync[p].pc = "read" THEN WithoutAnswer(p) ELSE remote[p])
                         EXCEPT !.served = FALSE]
    BY <1>1
  <2>5. remote'[p] \in RemoteType /\ remote'[p].served = FALSE
    BY <2>1, <2>2, <2>3, <2>4
  <2>6. sync'[p] \in {NoSync} \cup ReadType \cup ReplyType
    BY <1>1, <2>1
  <2> QED  BY <2>5, <2>6
<1>6. CopyTypes'
  <2>1. remote' \in [Proxies -> RemoteType]
    BY <1>1, <1>5
  <2>2. sync' \in [Proxies -> {NoSync} \cup ReadType \cup ReplyType]
    BY <1>1, <1>5
  <2> QED  BY <1>1, <2>1, <2>2 DEF CopyTypes
<1>7. ASSUME ~refused PROVE Distinct' /\ Removals' /\ Raised'
  <2>1. Distinct
    BY <1>7 DEF CopyInv
  <2>2. Distinct'
    BY <1>1, <1>4, <2>1 DEF Distinct
  <2>3. pgm'.pc = "check"
    BY <1>1 DEF Nothing
  <2> QED  BY <1>1, <1>4, <2>2, <2>3 DEF Removals, Raised
<1>8. ASSUME NEW p \in Proxies PROVE Followed(p)'
  <2>1. remote'[p].served = FALSE /\ p \notin known' /\ p \notin based'
    BY <1>1, <1>5
  <2>2. ~Whole(p)'
    BY <2>1 DEF Whole
  <2> QED  BY <2>1, <2>2 DEF Followed, Held
<1> QED  BY <1>1, <1>6, <1>7, <1>8 DEF CopyInv

LEMMA CopyAskStep ==
    ASSUME NEW p \in Proxies PROVE IInv /\ IInv' /\ CopyInv /\ GetProxySyncData(p) => CopyInv'
<1> SUFFICES ASSUME IInv, IInv', CopyInv, GetProxySyncData(p) PROVE CopyInv'
  OBVIOUS
<1>m. PICK m : m = remote[p]
  OBVIOUS
<1>l. PICK all \in BOOLEAN : all <=> p \notin known \/ ~m.configured
  OBVIOUS
<1>k. PICK asked : asked = IF all THEN 0 ELSE m.rev
  OBVIOUS
<1>o. PICK mode : mode = Mode(p, asked)
  OBVIOUS
<1>a. PICK a : a = [pc |-> "read", all |-> all, hostmap |-> all \/ mode # "none",
                    above |-> IF mode = "full" THEN 0 ELSE asked, rev |-> cache.shown,
                    del |-> IF mode = "partial" THEN {d.id : d \in Told(p, asked)} ELSE {},
                    sure |-> /\ all /\ cache.shown # 0
                             /\ {r.id : r \in rows} \subseteq {r.id : r \in cache.map}]
  OBVIOUS
<1>1. /\ sync[p].pc = "none" /\ known' = known \cup {p}
      /\ cache' = [cache EXCEPT !.synced[p] = @ \/ cache.shown # 0, !.deleted[p] = Kept(p, asked)]
      /\ sync' = IF ~all /\ asked = cache.shown THEN sync ELSE [sync EXCEPT ![p] = a]
      /\ UNCHANGED <<conf, mail, rows, ids, pgm, based, refused, crossed>>
  BY <1>m, <1>l, <1>k, <1>o, <1>a DEF GetProxySyncData
<1>2. PICK b : remote' = [remote EXCEPT ![p].locked = b] /\ b \in BOOLEAN
  BY DEF GetProxySyncData
<1>3. /\ Types /\ Types' /\ CopyTypes /\ cache \in CacheType(GroupStates)
  BY DEF IInv, CopyInv, Types
<1>4. m \in RemoteType /\ sync[p] = NoSync
  BY <1>1, <1>m, <1>3 DEF CopyTypes, ReadType, ReplyType
<1>5. /\ asked \in Nat /\ m.rev \in Nat /\ cache.shown \in Nat
      /\ cache.deleted[p] \in SUBSET [id : Nat, rev : Nat] /\ cache.synced[p] \in BOOLEAN
      /\ m.served \in BOOLEAN /\ m.configured \in BOOLEAN
  BY <1>k, <1>3, <1>4 DEF RemoteType, CacheType
<1>6. PICK n : n = [m EXCEPT !.locked = b]
  OBVIOUS
<1>7. /\ n \in RemoteType /\ n.rows = m.rows /\ n.served = m.served
      /\ n.configured = m.configured /\ n.rev = m.rev
  BY <1>2, <1>4, <1>6 DEF RemoteType
<1>8. remote' = [remote EXCEPT ![p] = n]
  BY <1>2, <1>m, <1>6
<1>9. /\ remote'[p] = n
      /\ \A q \in Proxies \ {p} : sync'[q] = sync[q] /\ remote'[q] = remote[q]
                                  /\ (q \in known' <=> q \in known)
  BY <1>1, <1>3, <1>8 DEF CopyTypes
<1>10. /\ cache'.shown = cache.shown /\ cache'.last = cache.last /\ cache'.map = cache.map
       /\ cache'.updates = cache.updates
       /\ cache'.synced[p] = (cache.synced[p] \/ cache.shown # 0)
       /\ cache'.deleted[p] = Kept(p, asked)
       /\ \A q \in Proxies \ {p} : /\ cache'.synced[q] = cache.synced[q]
                                   /\ cache'.deleted[q] = cache.deleted[q]
  BY <1>1, <1>3 DEF CacheType
<1>11. mode \in {"none", "full", "partial"}
  BY <1>o DEF Mode
<1>12. /\ mode = "none" => cache.shown = 0 \/ asked = cache.shown
       /\ mode = "full" => asked = 0 \/ asked > cache.shown \/ ~cache.synced[p]
       /\ mode = "partial" => asked # 0 /\ asked < cache.shown
       /\ mode # "full" => cache.shown = 0 \/ asked # 0
  BY <1>o, <1>5 DEF Mode
<1>13. /\ Told(p, asked) = {d \in cache.deleted[p] : d.rev > asked}
       /\ cache'.deleted[p] = IF mode = "partial" THEN Told(p, asked) ELSE cache.deleted[p]
       /\ cache'.deleted[p] \subseteq cache.deleted[p]
  BY <1>o, <1>10 DEF Told, Kept
<1>14. /\ a.pc = "read" /\ (a.all <=> all) /\ (a.hostmap <=> all \/ mode # "none")
       /\ a.above = IF mode = "full" THEN 0 ELSE asked
       /\ a.rev = cache.shown
       /\ a.del = IF mode = "partial" THEN {d.id : d \in Told(p, asked)} ELSE {}
       /\ a.sure <=> /\ all /\ cache.shown # 0
                     /\ {r.id : r \in rows} \subseteq {r.id : r \in cache.map}
       /\ a.all \in BOOLEAN /\ a.hostmap \in BOOLEAN /\ a.sure \in BOOLEAN
  BY <1>a
<1>15. a \in ReadType
  <2>1. a.del \in SUBSET Nat /\ a.above \in Nat
    BY <1>5, <1>13, <1>14
  <2>2. a = [pc |-> a.pc, all |-> a.all, hostmap |-> a.hostmap, above |-> a.above,
             rev |-> a.rev, del |-> a.del, sure |-> a.sure]
    BY <1>a
  <2> QED  BY <1>5, <1>14, <2>1, <2>2 DEF ReadType
<1>16. CopyTypes'
  BY <1>1, <1>3, <1>7, <1>8, <1>15 DEF CopyTypes
<1>17. sync'[p] = IF ~all /\ asked = cache.shown THEN NoSync ELSE a
  BY <1>1, <1>3, <1>4 DEF CopyTypes
<1>18. /\ \A h : Still(h)' <=> Still(h)
       /\ \A r : Copy(r)' = Copy(r)
  BY <1>1, <1>10 DEF Still, Copy
<1>19. ASSUME ~refused PROVE Distinct' /\ Removals' /\ Raised'
  <2>1. Distinct /\ Removals /\ Raised
    BY <1>19 DEF CopyInv
  <2>2. \A q \in Proxies : cache'.deleted[q] \subseteq cache.deleted[q]
    BY <1>10, <1>13
  <2>3. Distinct'
    BY <1>1, <1>10, <2>1 DEF Distinct
  <2>4. Removals'
    BY <1>1, <1>10, <2>1, <2>2 DEF Removals
  <2>5. Raised'
    BY <1>1, <1>10, <2>1, <2>2 DEF Raised
  <2> QED  BY <2>3, <2>4, <2>5
<1>20. ASSUME ~refused, ~crossed PROVE Followed(p)'
  <2>1. Followed(p) /\ Removals
    BY <1>20 DEF CopyInv
  <2>2. Held(p, m) /\ (p \in based => cache.synced[p] /\ cache.shown >= 1 /\ Tabled(p))
    BY <1>m, <2>1 DEF Followed, Whole
  <2>3. ASSUME NEW x, p \in based, m.configured, Explained(p, x, m.rev)
        PROVE  Explained(p, x, m.rev)'
    <3>1. CASE \E d \in cache.deleted[p] : d.id = x.id /\ d.rev > m.rev
      <4>1. PICK d \in cache.deleted[p] : d.id = x.id /\ d.rev > m.rev
        BY <3>1
      <4>2. d \in cache'.deleted[p]
        <5>1. mode = "partial" => asked = m.rev
          BY <1>k, <1>12
        <5> QED  BY <1>13, <4>1, <5>1
      <4> QED  BY <4>1, <4>2 DEF Explained
    <3>2. CASE \E r \in cache.map : r.id = x.id /\ (r.rev > m.rev \/ ~Still(r.host) \/ x = Copy(r))
      BY <1>10, <1>18, <3>2 DEF Explained
    <3> QED  BY <2>3, <3>1, <3>2 DEF Explained
  <2>4. Held(p, n)'
    <3>1. n.configured /\ n.served => n.rev <= cache'.shown /\ Caught(n.rows, 0, n.rev)'
      BY <1>7, <1>10, <1>18, <2>2 DEF Held, Caught
    <3>2. p \in based => n.served /\ (n.configured => n.rev >= 1)
      BY <1>7, <2>2 DEF Held
    <3>3. ASSUME p \in based, n.configured, NEW x \in n.rows PROVE Explained(p, x, n.rev)'
      <4>1. Explained(p, x, m.rev)  BY <1>7, <2>2, <3>3 DEF Held
      <4> QED  BY <1>7, <2>3, <3>3, <4>1
    <3> QED  BY <1>1, <3>1, <3>2, <3>3 DEF Held
  <2>5. ASSUME ~(~all /\ asked = cache.shown) PROVE Sent(p, n, a)'
    <3>1. a.rev <= cache'.shown
      BY <1>5, <1>10, <1>14
    <3>2. a.above = 0 \/ (~a.all /\ n.configured /\ a.above = n.rev)
      BY <1>l, <1>k, <1>7, <1>14
    <3>3. IF a.hostmap THEN a.above <= a.rev ELSE a.rev = 0 /\ ~a.all
      BY <1>5, <1>k, <1>11, <1>12, <1>14, <2>5
    <3>4. a.sure => a.all /\ a.rev >= 1
      BY <1>5, <1>14
    <3>5. a.del \subseteq 1..ids'.id /\ \A r \in cache'.map : r.id \notin a.del
      <4>1. \A d \in cache.deleted[p] : d.id \in 1..ids.id /\ \A r \in cache.map : r.id # d.id
        BY <2>1 DEF Removals
      <4> QED  BY <1>1, <1>10, <1>13, <1>14, <4>1
    <3>6. p \in based => a.rev >= 1 /\ (a.above = 0 => a.all)
      <4> SUFFICES ASSUME p \in based, ~all PROVE a.rev >= 1 /\ a.above # 0
        BY <1>14, <2>2
      <4>1. m.configured /\ m.served /\ m.rev >= 1 /\ m.rev <= cache.shown
        BY <1>l, <2>2 DEF Held
      <4>2. asked = m.rev
        BY <1>k
      <4>3. mode # "full"
        BY <1>5, <1>12, <2>2, <4>1, <4>2
      <4> QED  BY <1>5, <1>14, <2>2, <4>1, <4>2, <4>3
    <3>7. ASSUME a.above # 0, NEW d \in cache'.deleted[p], d.rev > a.above
          PROVE  d.id \in a.del \/ d.rev > a.rev
      <4>1. CASE mode = "partial"
        BY <1>13, <1>14, <3>7, <4>1
      <4>2. CASE mode = "none"
        <5>1. a.above = asked /\ asked # 0
          BY <1>14, <3>7, <4>2
        <5>2. ~all
          BY <1>k, <5>1
        <5>3. cache.shown = 0
          BY <1>12, <2>5, <4>2, <5>2
        <5>4. d.rev \in Nat
          BY <1>5, <1>13
        <5> QED  BY <1>5, <1>14, <3>7, <5>1, <5>3, <5>4
      <4>3. CASE mode = "full"
        BY <1>14, <3>7, <4>3
      <4> QED  BY <1>11, <4>1, <4>2, <4>3
    <3> QED  BY <1>1, <3>1, <3>2, <3>3, <3>4, <3>5, <3>6, <3>7 DEF Sent
  <2>6. ASSUME Whole(p)' PROVE cache'.synced[p] /\ cache'.shown >= 1 /\ Tabled(p)'
    <3>1. CASE p \in based
      <4>1. Tabled(p)'
        <5> SUFFICES ASSUME NEW s \in rows, pgm.pc = "commit",
                            NEW d \in cache.deleted[p], d.id = s.id, d.rev > cache.shown
                     PROVE  \E e \in cache'.deleted[p] : e.id = s.id /\ e.rev > cache'.shown
          BY <1>1, <1>10, <2>2, <3>1 DEF Tabled
        <5>1. d.rev \in Nat
          BY <1>5
        <5>2. d \in cache'.deleted[p]
          BY <1>5, <1>12, <1>13, <5>1
        <5> QED  BY <1>10, <5>2
      <4> QED  BY <1>10, <2>2, <3>1, <4>1
    <3>2. CASE p \notin based
      <4>1. sync'[p] = a /\ a.sure
        BY <1>1, <1>17, <2>6, <3>2 DEF Whole, NoSync
      <4>2. Tabled(p)'
        BY <1>1, <1>10, <1>14, <4>1 DEF Tabled
      <4> QED  BY <1>5, <1>10, <1>14, <4>1, <4>2
    <3> QED  BY <3>1, <3>2
  <2>7. sync'[p].pc # "reply" /\ (sync'[p].pc # "none" => sync'[p] = a /\ ~(~all /\ asked = cache.shown))
    BY <1>14, <1>17 DEF NoSync
  <2>8. p \in known'
    BY <1>1
  <2> QED  BY <1>9, <2>4, <2>5, <2>6, <2>7, <2>8 DEF Followed
<1>21. ASSUME ~refused, ~crossed, NEW q \in Proxies PROVE Followed(q)'
  <2>1. CASE q = p
    BY <1>20, <1>21, <2>1
  <2>2. CASE q # p
    <3>1. Followed(q)  BY <1>21 DEF CopyInv
    <3>2. \A r \in cache.map :
              Still(r.host)' => Still(r.host) /\ conf'[r.host].name = conf[r.host].name
      BY <1>1, <1>18
    <3>3. Tabled(q) => Tabled(q)'
      BY <1>1, <1>10, <2>2 DEF Tabled
    <3>4. cache.shown <= cache'.shown
      BY <1>5, <1>10
    <3> QED  BY <1>1, <1>3, <1>9, <1>10, <2>2, <3>1, <3>2, <3>3, <3>4, FollowedKept
  <2> QED  BY <2>1, <2>2
<1> QED  BY <1>1, <1>16, <1>19, <1>21 DEF CopyInv

LEMMA CopyInitStep == Init => CopyInv
<1> SUFFICES ASSUME Init PROVE CopyInv
  OBVIOUS
<1>1. Types /\ Counted
  BY InitStep DEF IInv
<1>2. /\ cache = Started(quiet) /\ pgm = [Nothing EXCEPT !.pc = "check"]
      /\ remote = [p \in Proxies |-> [configured |-> FALSE, rev |-> 0, locked |-> FALSE,
                                      rows |-> {Copy(r) : r \in rows}, served |-> FALSE]]
      /\ sync = [p \in Proxies |-> NoSync] /\ known = {} /\ based = {}
      /\ \E h \in left.hosts, p \in Proxies : rows \in {{}, {Row(h, 1, p, 1)}}
  BY DEF Init
<1>3. PICK in : in = {h \in Hosts : conf[h].at = "in"}
  OBVIOUS
<1>4. /\ cache.map = {r \in rows : r.host \in in}
      /\ cache.last = ids.rev /\ cache.shown <= cache.last
      /\ \A r \in cache.map : r.rev <= cache.shown
      /\ \A p \in Proxies : cache.deleted[p] = {}
  BY <1>1, <1>2, <1>3, StartedCache DEF Types, Counted
<1>5. \A r, s \in rows : r = s
  BY <1>2
<1>6. pgm.pc = "check"
  BY <1>2 DEF Nothing
<1>7. CopyTypes
  <2>1. \A r \in rows : Copy(r) \in CopyType
    BY <1>1 DEF Types, RowType, Copy, CopyType
  <2>2. remote \in [Proxies -> RemoteType]
    BY <1>2, <2>1 DEF RemoteType
  <2> QED  BY <1>2, <2>2 DEF CopyTypes
<1>8. Distinct /\ Removals /\ Raised
  <2>1. Distinct  BY <1>4, <1>5 DEF Distinct
  <2>2. Removals  BY <1>4 DEF Removals
  <2>3. Raised  BY <1>4, <1>6 DEF Raised
  <2> QED  BY <2>1, <2>2, <2>3
<1>9. \A p \in Proxies : Followed(p)
  BY <1>2 DEF Followed, Held, Whole
<1> QED  BY <1>7, <1>8, <1>9 DEF CopyInv

LEMMA CopyNextStep == IInv /\ IInv' /\ CopyInv /\ [Next]_vars => CopyInv'
<1> SUFFICES ASSUME IInv, IInv', CopyInv, [Next]_vars PROVE CopyInv'
  OBVIOUS
<1>1. CASE Rebalance
  BY <1>1, CopyRebalanceStep
<1>2. CASE NothingQueued
  BY <1>2, CopyStillStep DEF NothingQueued
<1>3. CASE Commit
  BY <1>3, CopyCommitStep
<1>4. CASE Publish
  BY <1>4, CopyPublishStep
<1>5. CASE Update
  BY <1>5, CopyUpdateStep
<1>6. CASE UpdateHostPgroup
  BY <1>6, CopyMailStep
<1>7. ASSUME NEW p \in Proxies, GetProxySyncData(p) PROVE CopyInv'
  BY <1>7, CopyAskStep
<1>8. ASSUME NEW p \in Proxies, GetHostmap(p) PROVE CopyInv'
  BY <1>8, CopyReadStep
<1>9. ASSUME NEW p \in Proxies, SyncProxyGroup(p) PROVE CopyInv'
  BY <1>9, CopySyncStep
<1>10. ASSUME NEW p \in Proxies, CommitFails(p) \/ Lose(p) \/ RestartProxy(p) PROVE CopyInv'
  BY <1>10, CopyLossStep
<1>11. ASSUME NEW h \in Hosts, EditHost(h) PROVE CopyInv'
  BY <1>11, CopyEditStep
<1>12. ASSUME NEW S \in SUBSET Proxies, Hear(S) PROVE CopyInv'
  BY <1>12, CopyStillStep DEF Hear
<1>13. CASE RestartServer
  BY <1>13, CopyRestartStep
<1>14. CASE UNCHANGED vars
  BY <1>14, CopyStillStep DEF vars
<1> QED  BY <1>1, <1>2, <1>3, <1>4, <1>5, <1>6, <1>7, <1>8, <1>9, <1>10, <1>11, <1>12, <1>13,
            <1>14 DEF Next

\* The copies that the answers of proxyconfig_get_hostmap and the deletions of
\* pg_get_proxy_sync_data build up, at every step of the manager, the service
\* thread, the proxies and their connections.
THEOREM CopiesInvariant == Spec => [](IInv /\ CopyInv)
<1>1. Init => IInv /\ CopyInv
  BY InitStep, CopyInitStep
<1>2. IInv /\ CopyInv /\ [Next]_vars => (IInv /\ CopyInv)'
  BY NextStep, CopyNextStep
<1> QED  BY <1>1, <1>2, PTL DEF Spec

\* When everything has settled, every revision has been shown and nothing about
\* a mapped host is on its way.
LEMMA SettledShown ==
    ASSUME IInv, CopyInv, Settled
    PROVE  /\ \A r \in cache.map : 0 < r.rev /\ r.rev <= cache.shown /\ Still(r.host)
           /\ \A p \in Proxies : \A d \in cache.deleted[p] : ~(d.rev > cache.shown)
<1>1. pgm.pc = "idle" /\ mail = <<>> /\ \A h \in Hosts : cache.updates[h] = Keep
  BY DEF Settled
<1>2. Raised
  BY DEF Settled, CopyInv
<1>3. /\ cache.map \in SUBSET RowType /\ cache.shown \in Nat
      /\ \A p \in Proxies : cache.deleted[p] \in SUBSET [id : Nat, rev : Nat]
      /\ \A r \in cache.map : r.rev >= 1
  BY DEF IInv, Types, CacheType, Counted
<1>4. /\ \A r \in cache.map : r.rev <= cache.shown
      /\ \A p \in Proxies : \A d \in cache.deleted[p] : d.rev <= cache.shown
  BY <1>1, <1>2 DEF Raised
<1>5. \A h \in Hosts : Still(h)
  BY <1>1 DEF Still
<1>6. \A r \in cache.map : r.host \in Hosts /\ r.rev \in Nat
  BY <1>3 DEF RowType
<1> QED  BY <1>3, <1>4, <1>5, <1>6

\* pg_cache.c and proxyconfigwrite.c: a proxy that is at the revision of the
\* group has every row of the map as it is now, new names of hosts included.
THEOREM CopiesCurrent == Spec => []CopyCurrent
<1>1. IInv /\ CopyInv => CopyCurrent
  <2> SUFFICES ASSUME IInv, CopyInv, NEW p \in Proxies, Settled, UpToDate(p), NEW r \in cache.map
               PROVE  Copy(r) \in remote[p].rows
    BY DEF CopyCurrent
  <2>1. 0 < r.rev /\ r.rev <= cache.shown /\ Still(r.host)
    BY SettledShown
  <2>2. Held(p, remote[p])
    BY DEF CopyInv, Settled, Followed
  <2>3. Caught(remote[p].rows, 0, remote[p].rev) /\ remote[p].rev = cache.shown
    BY <2>2 DEF Held, UpToDate
  <2> QED  BY <2>1, <2>3 DEF Caught
<1> QED  BY <1>1, CopiesInvariant, PTL

\* ... and no row that is not in the map, when one answer of this server gave it
\* everything: whatever left the map later it has been told of.
THEOREM CopiesExact == Spec => []CopyExact
<1>1. IInv /\ CopyInv => CopyExact
  <2> SUFFICES ASSUME IInv, CopyInv, NEW p \in Proxies, Settled, UpToDate(p), p \in based,
                      NEW x \in remote[p].rows
               PROVE  \E r \in cache.map : x = Copy(r)
    BY DEF CopyExact
  <2>1. /\ \A r \in cache.map : r.rev <= cache.shown /\ Still(r.host)
        /\ \A d \in cache.deleted[p] : ~(d.rev > cache.shown)
    BY SettledShown
  <2>2. Held(p, remote[p])
    BY DEF CopyInv, Settled, Followed
  <2>3. Explained(p, x, cache.shown)
    BY <2>2 DEF Held, UpToDate
  <2>4. PICK r \in cache.map : r.rev > cache.shown \/ ~Still(r.host) \/ x = Copy(r)
    BY <2>1, <2>3 DEF Explained
  <2>5. ~(r.rev > cache.shown)
    <3>1. r.rev \in Nat /\ cache.shown \in Nat
      BY DEF IInv, Types, CacheType, RowType
    <3> QED  BY <2>1, <3>1
  <2> QED  BY <2>1, <2>4, <2>5
<1> QED  BY <1>1, CopiesInvariant, PTL

=============================================================================
