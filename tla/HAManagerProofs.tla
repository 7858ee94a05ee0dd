-------------------------- MODULE HAManagerProofs --------------------------
(* Theorems about HAManager, for any number of servers and any values of     *)
(* the poll period and the failover delays: types, and when a node may be    *)
(* marked unavailable.                                                       *)
EXTENDS HAManager, SequenceTheorems, TLAPS

Rows == [Names -> Node]

\* a manager in error does nothing but wait to be stopped
Sane == {m \in Manager : m.status = "error" => m.pc = "paused"}

TypeInv == TypeOK /\ mgr \in [Servers -> Sane]

----------------------------------------------------------------------------
(* Types of what the operators return. *)

LEMMA Periods ==
    /\ Poll \in Nat /\ Poll >= 1 /\ Delays \subseteq Nat /\ DefaultDelay \in Delays
    /\ \A d \in Delays : d >= 2 * Poll
    /\ \A st : FirstCheck(st) \in Nat /\ FirstCheck(st) >= Poll
BY HAAssumption DEF HAAssumption, FirstCheck

LEMMA NewManagerType ==
    ASSUME NEW st \in Statuses
    PROVE  /\ st # "error" => NewManager(st) \in Sane
           /\ [NewManager("unknown") EXCEPT !.pc = "off"] \in Sane
BY Periods DEF NewManager, Manager, Statuses, Sane

LEMMA OffType == Off \in MainProcess
<1>1. <<>> \in Seq(Message)
  BY EmptySeq
<1> QED  BY <1>1, Periods DEF Off, MainProcess, Statuses

LEMMA SendType ==
    ASSUME main \in [Servers -> MainProcess], NEW s \in Servers,
           NEW msgs \in Seq(Message), Send(s, msgs)
    PROVE  main' \in [Servers -> MainProcess]
<1>1. main[s] \in MainProcess /\ main[s].inbox \in Seq(Message)
  BY DEF MainProcess
<1>2. Queued(main[s].inbox, msgs) \in Seq(Message)
  <2>1. main[s].inbox \o msgs \in Seq(Message)
    BY <1>1, ConcatProperties
  <2> QED  BY <1>1, <2>1 DEF Queued
<1>3. [main[s] EXCEPT !.inbox = Queued(@, msgs)] \in MainProcess
  BY <1>1, <1>2 DEF MainProcess
<1> QED  BY <1>3 DEF Send

LEMMA MessageTypes ==
    ASSUME NEW m \in Manager
    PROVE  Heartbeats(m) \in Seq(Message) /\ StatusUpdate(m) \in Message
<1>1. Heartbeat \in Message
  BY DEF Message
<1>2. <<>> \in Seq(Message) /\ <<Heartbeat>> \in Seq(Message)
  BY <1>1
<1> QED  BY <1>2 DEF Heartbeats, StatusUpdate, Message, Manager

LEMMA ConcludedType ==
    ASSUME mgr \in [Servers -> Sane], main \in [Servers -> MainProcess],
           NEW s \in Servers, NEW m \in Manager, Concluded(s, m)
    PROVE  mgr' \in [Servers -> Sane] /\ main' \in [Servers -> MainProcess]
<1> DEFINE told == IF m.status # mgr[s].status /\ m.status # "unknown"
                   THEN <<StatusUpdate(m)>> ELSE <<>>
           beat == IF m.status = "error" THEN <<>> ELSE Heartbeats(m)
           wait == IF m.init THEN FirstCheck(m.status) ELSE IF m.db = "ok" THEN Poll ELSE 1
           x == [m EXCEPT !.pc = IF m.status = "error" THEN "paused" ELSE "run",
                          !.init = FALSE, !.wait = wait, !.ticked = ~m.init]
<1>1. wait \in Nat  BY Periods
<1>2. x \in Sane
  <2> HIDE DEF wait
  <2> QED  BY <1>1 DEF Manager, Sane
<1>3. mgr' = [mgr EXCEPT ![s] = x]  BY DEF Concluded
<1>4. told \o beat \in Seq(Message)
  <2>1. told \in Seq(Message)
    <3>1. <<StatusUpdate(m)>> \in Seq(Message) /\ <<>> \in Seq(Message)  BY MessageTypes
    <3> QED  BY <3>1
  <2>2. beat \in Seq(Message)
    <3>1. <<>> \in Seq(Message) /\ Heartbeats(m) \in Seq(Message)  BY MessageTypes
    <3> QED  BY <3>1
  <2> HIDE DEF told, beat
  <2> QED  BY <2>1, <2>2, ConcatProperties
<1>5. main' = main \/ Send(s, told \o beat)  BY DEF Concluded
<1> HIDE DEF x, told, beat
<1>6. main' \in [Servers -> MainProcess]  BY <1>4, <1>5, SendType
<1> QED  BY <1>2, <1>3, <1>6

----------------------------------------------------------------------------
(* Rows of the registry. *)

LEMMA UpdatedType ==
    ASSUME NEW r \in Rows, NEW n \in Names, NEW id, NEW row \in Node
    PROVE  Updated(r, n, id, row) \in Rows
BY DEF Updated, Rows

LEMMA UnavailableType ==
    ASSUME NEW r \in Rows, NEW id, NEW delay
    PROVE  Unavailable(r, id, delay) \in Rows
<1>1. \A n \in Names : [r[n] EXCEPT !.status = "unavailable"] \in Node
  BY DEF Rows, Node, NodeStatuses
<1> QED  BY <1>1 DEF Unavailable, Rows

LEMMA AppliedType ==
    ASSUME rows \in Rows, NEW r \in Rows, NEW out
    PROVE  Applied(out, r) \in Rows
BY DEF Applied

LEMMA NoRowType == NoRow \in Node
BY DEF NoRow, Node

LEMMA KeptType ==
    ASSUME rows \in Rows, now \in Nat, NEW s \in Servers, NEW m, NEW st \in NodeStatuses
    PROVE  Kept(s, m, st) \in Rows
<1>1. Name[s] \in Names  BY DEF Names
<1>2. [rows[Name[s]] EXCEPT !.status = st, !.lastaccess = now] \in Node
  BY <1>1 DEF Rows, Node
<1> QED  BY <1>1, <1>2, UpdatedType DEF Kept

LEMMA RegisteredType ==
    ASSUME rows \in Rows, now \in Nat, main \in [Servers -> MainProcess],
           NEW s \in Servers, NEW id, NEW st \in {"active", "standby"}, NEW delay
    PROVE  Registered(s, id, st, delay) \in Rows
<1> DEFINE row == [rows[Name[s]] EXCEPT !.status = st, !.lastaccess = now,
                                        !.session = main[s].session]
           r == OwnKind(s, Updated(rows, Name[s], id, row))
<1>1. Name[s] \in Names  BY DEF Names
<1>2. main[s].session \in Nat  BY DEF MainProcess
<1>3. row \in Node  BY <1>1, <1>2 DEF Rows, Node, NodeStatuses
<1>4. Updated(rows, Name[s], id, row) \in Rows  BY <1>1, <1>3, UpdatedType
<1>5. r \in Rows  BY <1>4, NoRowType DEF OwnKind, Rows
<1> HIDE DEF r
<1>6. Unavailable(r, id, delay) \in Rows  BY <1>5, UnavailableType
<1> QED  BY <1>5, <1>6 DEF Registered, r

----------------------------------------------------------------------------
(* Type correctness, one lemma per group of actions.  The setup never       *)
(* changes, so that the names do not either.                                *)

\* what a step of a server keeps, once its rows, manager and main process are
\* known to have their types
LEMMA TypeStep ==
    ASSUME TypeInv, UNCHANGED setup,
           now' \in Nat, settings' \in Delays, sessions' \in Nat, quiet' \in [Servers -> Nat],
           rows' \in Rows, mgr' \in [Servers -> Sane], main' \in [Servers -> MainProcess]
    PROVE  TypeInv'
BY DEF TypeInv, TypeOK, Rows, Names, Name, Sane

LEMMA TypeFacts ==
    ASSUME TypeInv, NEW s \in Servers
    PROVE  /\ setup \in Setups /\ now \in Nat /\ settings \in Delays /\ sessions \in Nat
           /\ quiet \in [Servers -> Nat] /\ rows \in Rows
           /\ mgr \in [Servers -> Sane] /\ main \in [Servers -> MainProcess]
           /\ mgr[s] \in Sane /\ mgr[s] \in Manager /\ main[s] \in MainProcess
           /\ Name[s] \in Names /\ rows[Name[s]] \in Node
BY DEF TypeInv, TypeOK, Rows, Names, Sane

LEMMA CreateNodeType ==
    ASSUME TypeInv, UNCHANGED setup, NEW s \in Servers, NEW out, CreateNode(s, out)
    PROVE  TypeInv'
<1> DEFINE m == [mgr[s] EXCEPT !.db = DbStatus(out),
                               !.delay = IF out = "down" THEN @ ELSE settings]
           new == [status |-> "stopped", id |-> main[s].session, session |-> 0,
                   lastaccess |-> now]
<1>1. m \in Manager
  BY TypeFacts, ZenonT(60) DEF Manager, DbStatus
<1>2. new \in Node
  BY TypeFacts DEF Node, NodeStatuses, MainProcess
<1>3. [rows EXCEPT ![Name[s]] = new] \in Rows
  <2> HIDE DEF new
  <2> QED  BY <1>2, TypeFacts DEF Rows
<1>4. rows' \in Rows
  <2>1. rows' = rows \/ rows' = Applied(out, [rows EXCEPT ![Name[s]] = new])
    BY DEF CreateNode
  <2> HIDE DEF new
  <2> QED  BY <1>3, <2>1, AppliedType, TypeFacts
<1>5. mgr' \in [Servers -> Sane] /\ main' \in [Servers -> MainProcess]
  <2>1. CASE Concluded(s, [m EXCEPT !.status = "error"])
    <3>1. [m EXCEPT !.status = "error"] \in Manager
      <4> HIDE DEF m
      <4> QED  BY <1>1 DEF Manager, Statuses
    <3> QED  BY <2>1, <3>1, ConcludedType, TypeFacts
  <2>2. CASE Concluded(s, m)
    BY <1>1, <2>2, ConcludedType, TypeFacts
  <2>3. CASE /\ mgr' = [mgr EXCEPT ![s] =
                          [m EXCEPT !.pc = "register",
                                    !.id = IF out = "ok" THEN rows'[Name[s]].id ELSE @]]
             /\ UNCHANGED main
    <3>1. rows'[Name[s]].id \in Nat  BY <1>4, TypeFacts DEF Rows, Node
    <3>2. m.status # "error"
      <4>1. mgr[s].pc = "create"  BY DEF CreateNode
      <4>2. mgr[s].status # "error" /\ m.status = mgr[s].status
        BY <4>1, TypeFacts DEF Sane, Manager
      <4> QED  BY <4>2
    <3>3. [m EXCEPT !.pc = "register",
                    !.id = IF out = "ok" THEN rows'[Name[s]].id ELSE @] \in Sane
      <4> HIDE DEF m
      <4> QED  BY <1>1, <3>1, <3>2 DEF Manager, Sane
    <3> HIDE DEF m
    <3> QED  BY <2>3, <3>3, TypeFacts
  <2> HIDE DEF m, new
  <2>4. \/ Concluded(s, [m EXCEPT !.status = "error"]) \/ Concluded(s, m)
        \/ /\ mgr' = [mgr EXCEPT ![s] =
                          [m EXCEPT !.pc = "register",
                                    !.id = IF out = "ok" THEN rows'[Name[s]].id ELSE @]]
           /\ UNCHANGED main
    BY DEF CreateNode, m
  <2> QED  BY <2>1, <2>2, <2>3, <2>4
<1>6. UNCHANGED <<now, settings, sessions, quiet>>
  BY DEF CreateNode
<1> QED  BY <1>4, <1>5, <1>6, TypeStep, TypeFacts

LEMMA RegisterNodeType ==
    ASSUME TypeInv, UNCHANGED setup, NEW s \in Servers, NEW out, RegisterNode(s, out)
    PROVE  TypeInv'
<1> DEFINE m == [mgr[s] EXCEPT !.db = DbStatus(out)]
           error == \/ out = "fail"
                    \/ out # "down" /\ (Conflict(s, m.delay) \/ Name[s] \notin Present)
           status == IF Activate(s, m.delay) THEN "active" ELSE "standby"
           new == Registered(s, m.id, status, m.delay)
           x == [m EXCEPT !.status = IF error THEN "error" ELSE IF out = "ok" THEN status ELSE @]
<1>1. rows' = IF error THEN rows ELSE Applied(out, new)
  BY DEF RegisterNode
<1>2. Concluded(s, x) /\ UNCHANGED <<now, settings, sessions, quiet>>
  BY DEF RegisterNode
<1>3. status \in {"active", "standby"}
  OBVIOUS
<1>4. m \in Manager
  BY TypeFacts DEF Manager, DbStatus
<1> HIDE DEF m, error, status
<1>5. new \in Rows
  BY <1>3, RegisteredType, TypeFacts
<1>6. x \in Manager
  BY <1>3, <1>4 DEF Manager, Statuses
<1> HIDE DEF new, x
<1>7. rows' \in Rows
  BY <1>1, <1>5, AppliedType, TypeFacts
<1>8. mgr' \in [Servers -> Sane] /\ main' \in [Servers -> MainProcess]
  BY <1>2, <1>6, ConcludedType, TypeFacts
<1> QED  BY <1>2, <1>7, <1>8, TypeStep, TypeFacts

\* what ha_check_nodes knows when it has read the registry
ReadBy(s, out) ==
    [mgr[s] EXCEPT !.db = DbStatus(out), !.delay = settings,
                   !.id = IF @ = 0 THEN rows[Name[s]].id ELSE @]

Actives == {n \in Present : rows[n].status = "active"}

\* a check of node s that finds the active node a, another one, and counts it
Watches(s, out, a) ==
    LET o == Observed(ReadBy(s, out), rows[a].lastaccess)
    IN  IF TakeoverDue(o)
        THEN Checked(s, o, out, "active",
                     [Kept(s, ReadBy(s, out), "active") EXCEPT ![a].status = "unavailable"])
        ELSE Checked(s, o, out, ReadBy(s, out).status,
                     Kept(s, ReadBy(s, out), ReadBy(s, out).status))

\* The ways in which ha_check_nodes may end.
LEMMA CheckCases ==
    ASSUME NEW s \in Servers, NEW out, CheckNodes(s, out)
    PROVE  LET m == ReadBy(s, out) IN
           /\ CheckDue(s) /\ mgr[s].status # "unknown"
           /\ UNCHANGED <<now, settings, sessions, quiet>>
           /\ \/ /\ out = "down" /\ rows' = rows
                 /\ Concluded(s, [mgr[s] EXCEPT !.db = "down"])
              \/ rows' = rows /\ Concluded(s, [mgr[s] EXCEPT !.status = "error"])
              \/ /\ out \notin {"down", "fail"} /\ Ownership(s)
                 /\ \/ /\ ~Cluster(s)
                       /\ Checked(s, m, out, m.status, Kept(s, m, m.status))
                    \/ /\ Cluster(s) /\ m.status = "active"
                       /\ Checked(s, m, out, "active",
                                  Unavailable(Kept(s, m, "active"), m.id, m.delay))
                    \/ /\ Cluster(s) /\ m.status # "active" /\ Actives = {}
                       /\ Checked(s, m, out, "active", Kept(s, m, "active"))
                    \/ /\ Cluster(s) /\ m.status # "active"
                       /\ \E a \in Actives : /\ a # "" /\ rows[a].id = m.id
                                             /\ Checked(s, m, out, "active", Kept(s, m, "active"))
                    \/ /\ Cluster(s) /\ m.status # "active"
                       /\ \E a \in Actives : a # "" /\ rows[a].id # m.id /\ Watches(s, out, a)
<1> DEFINE m == ReadBy(s, out)
           Error == rows' = rows /\ Concluded(s, [mgr[s] EXCEPT !.status = "error"])
<1>1. /\ CheckDue(s) /\ mgr[s].status # "unknown"
      /\ UNCHANGED <<now, settings, sessions, quiet>>
  BY DEF CheckNodes
<1>2. \/ out = "down" /\ rows' = rows /\ Concluded(s, [mgr[s] EXCEPT !.db = "down"])
      \/ Error
      \/ /\ out \notin {"down", "fail"} /\ Ownership(s)
         /\ \/ /\ ~Cluster(s)
               /\ Checked(s, m, out, m.status, Kept(s, m, m.status))
            \/ /\ Cluster(s) /\ m.status = "active"
               /\ Checked(s, m, out, "active",
                          Unavailable(Kept(s, m, "active"), m.id, m.delay))
            \/ /\ Cluster(s) /\ m.status # "active" /\ Actives = {}
               /\ Checked(s, m, out, "active", Kept(s, m, "active"))
            \/ /\ Cluster(s) /\ m.status # "active"
               /\ \E a \in Actives :
                     \/ a = "" /\ Error
                     \/ /\ a \in {n \in Actives : rows[n].id = m.id} /\ a # ""
                        /\ Checked(s, m, out, "active", Kept(s, m, "active"))
                     \/ /\ a # "" /\ a \notin {n \in Actives : rows[n].id = m.id}
                        /\ Watches(s, out, a)
  BY DEF CheckNodes, ReadBy, Actives, Watches
<1> HIDE DEF m, Error
<1> QED  BY <1>1, <1>2 DEF m, Error

LEMMA CheckedType ==
    ASSUME TypeInv, NEW s \in Servers, NEW m \in Manager, NEW out, NEW st \in Statuses,
           NEW new \in Rows, Checked(s, m, out, st, new)
    PROVE  rows' \in Rows /\ mgr' \in [Servers -> Sane] /\ main' \in [Servers -> MainProcess]
<1> DEFINE x == [m EXCEPT !.status = IF out = "ok" THEN st ELSE @]
<1>1. x \in Manager
  BY DEF Manager
<1>2. rows' = Applied(out, new) /\ Concluded(s, x)
  BY DEF Checked
<1> HIDE DEF x
<1> QED  BY <1>1, <1>2, AppliedType, ConcludedType, TypeFacts

LEMMA ReadByType ==
    ASSUME TypeInv, NEW s \in Servers, NEW out
    PROVE  /\ ReadBy(s, out) \in Manager /\ ReadBy(s, out).status = mgr[s].status
           /\ ReadBy(s, out).delay = settings /\ ReadBy(s, out).seen = mgr[s].seen
           /\ ReadBy(s, out).ticks = mgr[s].ticks /\ ReadBy(s, out).db = DbStatus(out)
           /\ ReadBy(s, out).init = mgr[s].init
           /\ ReadBy(s, out).id = IF mgr[s].id = 0 THEN rows[Name[s]].id ELSE mgr[s].id
BY TypeFacts, ZenonT(60) DEF ReadBy, Manager, DbStatus, Node

LEMMA ObservedType ==
    ASSUME NEW m \in Manager, NEW last \in Nat
    PROVE  Observed(m, last) \in Manager
<1>1. [m EXCEPT !.seen = last, !.ticks = 0] \in Manager
  BY DEF Manager
<1>2. [m EXCEPT !.ticks = @ + 1] \in Manager
  BY DEF Manager
<1> QED  BY <1>1, <1>2 DEF Observed

LEMMA CheckNodesType ==
    ASSUME TypeInv, UNCHANGED setup, NEW s \in Servers, NEW out, CheckNodes(s, out)
    PROVE  TypeInv'
<1> DEFINE m == ReadBy(s, out)
<1>1. UNCHANGED <<now, settings, sessions, quiet>>
  BY CheckCases
<1>2. m \in Manager /\ m.status = mgr[s].status
  BY ReadByType
<1>3. m.status \in {"standby", "active"}
  <2>1. mgr[s].pc = "run" /\ mgr[s].status # "unknown"  BY CheckCases DEF CheckDue
  <2>2. mgr[s].status \in Statuses /\ mgr[s].status # "error"  BY <2>1, TypeFacts DEF Sane, Manager
  <2> QED  BY <1>2, <2>1, <2>2 DEF Statuses
<1> HIDE DEF m
<1>4. Kept(s, m, m.status) \in Rows /\ Kept(s, m, "active") \in Rows
  BY <1>3, KeptType, TypeFacts DEF NodeStatuses
<1>5. Unavailable(Kept(s, m, "active"), m.id, m.delay) \in Rows
  BY <1>4, UnavailableType
<1>6. ASSUME NEW o \in Manager, NEW st \in {"standby", "active"}, NEW new \in Rows,
             Checked(s, o, out, st, new)
      PROVE  TypeInv'
  BY <1>1, <1>6, CheckedType, TypeStep, TypeFacts, ZenonT(60) DEF Statuses
<1>7. ASSUME NEW x \in Manager, rows' = rows, Concluded(s, x)
      PROVE  TypeInv'
  BY <1>1, <1>7, ConcludedType, TypeStep, TypeFacts
<1>8. [mgr[s] EXCEPT !.db = "down"] \in Manager /\ [mgr[s] EXCEPT !.status = "error"] \in Manager
  BY TypeFacts DEF Manager, Statuses
<1>9. ASSUME NEW a \in Actives, Watches(s, out, a)
      PROVE  TypeInv'
  <2> DEFINE o == Observed(m, rows[a].lastaccess)
             k == Kept(s, m, "active")
             new == [k EXCEPT ![a].status = "unavailable"]
  <2>1. a \in Names  BY DEF Actives, Present
  <2>2. rows[a].lastaccess \in Nat  BY <2>1, TypeFacts DEF Rows, Node
  <2>3. o \in Manager  BY <1>2, <2>2, ObservedType
  <2>4. new \in Rows
    <3> HIDE DEF k
    <3>1. [k[a] EXCEPT !.status = "unavailable"] \in Node
      BY <1>4, <2>1 DEF Rows, Node, NodeStatuses, k
    <3> QED  BY <1>4, <3>1 DEF Rows, k
  <2>5. \/ Checked(s, o, out, "active", new)
        \/ Checked(s, o, out, m.status, Kept(s, m, m.status))
    BY <1>9 DEF Watches, m
  <2> HIDE DEF o, new
  <2> QED  BY <1>3, <1>4, <1>6, <2>3, <2>4, <2>5
<1>10. \/ Concluded(s, [mgr[s] EXCEPT !.db = "down"]) /\ rows' = rows
       \/ Concluded(s, [mgr[s] EXCEPT !.status = "error"]) /\ rows' = rows
       \/ Checked(s, m, out, m.status, Kept(s, m, m.status))
       \/ Checked(s, m, out, "active", Unavailable(Kept(s, m, "active"), m.id, m.delay))
       \/ Checked(s, m, out, "active", Kept(s, m, "active"))
       \/ \E a \in Actives : Watches(s, out, a)
  BY CheckCases DEF m
<1> QED  BY <1>2, <1>3, <1>4, <1>5, <1>6, <1>7, <1>8, <1>9, <1>10

\* The other steps of a manager.
LEMMA ManageType ==
    ASSUME TypeInv, UNCHANGED setup, NEW s \in Servers, Manage(s)
    PROVE  TypeInv'
<1>1. \A x \in Sane : [mgr EXCEPT ![s] = x] \in [Servers -> Sane]
  BY TypeFacts
<1>2. CASE Tick(s)
  <2> DEFINE x == [mgr[s] EXCEPT !.wait = @ - 1, !.ticked = TRUE]
  <2>1. x \in Sane  BY <1>2, TypeFacts DEF Tick, Sane, Manager
  <2>2. mgr' = [mgr EXCEPT ![s] = x]  BY <1>2 DEF Tick
  <2>3. main' \in [Servers -> MainProcess]
    <3>1. Send(s, Heartbeats(mgr[s]))  BY <1>2 DEF Tick
    <3> QED  BY <3>1, SendType, MessageTypes, TypeFacts
  <2> HIDE DEF x
  <2> QED  BY <1>1, <1>2, <2>1, <2>2, <2>3, TypeStep, TypeFacts DEF Tick
<1>3. CASE RetryRegister(s)
  <2> DEFINE x == [mgr[s] EXCEPT !.pc = "create", !.ticked = TRUE]
  <2>1. x \in Sane  BY <1>3, TypeFacts DEF RetryRegister, Sane, Manager
  <2>2. mgr' = [mgr EXCEPT ![s] = x]  BY <1>3 DEF RetryRegister
  <2> HIDE DEF x
  <2> QED  BY <1>1, <1>3, <2>1, <2>2, TypeStep, TypeFacts DEF RetryRegister
<1>4. CASE Pause(s)
  <2> DEFINE x == [mgr[s] EXCEPT !.pc = "paused", !.wait = Poll]
  <2>1. x \in Sane  BY TypeFacts, Periods DEF Sane, Manager
  <2>2. mgr' = [mgr EXCEPT ![s] = x]  BY <1>4 DEF Pause
  <2> HIDE DEF x
  <2> QED  BY <1>1, <1>4, <2>1, <2>2, TypeStep, TypeFacts DEF Pause
<1>5. ASSUME NEW out, RemoveDelete(s, out) PROVE TypeInv'
  <2> DEFINE x == [mgr[s] EXCEPT !.pc = "run", !.target = 0, !.db = DbStatus(out)]
             new == [n \in Names |-> IF rows[n].id = mgr[s].target THEN NoRow ELSE rows[n]]
  <2>1. x \in Sane  BY <1>5, TypeFacts, ZenonT(60) DEF RemoveDelete, Sane, Manager, DbStatus
  <2>2. mgr' = [mgr EXCEPT ![s] = x] /\ rows' = Applied(out, new)  BY <1>5 DEF RemoveDelete
  <2>3. new \in Rows  BY NoRowType, TypeFacts DEF Rows
  <2> HIDE DEF x, new
  <2>4. rows' \in Rows  BY <2>2, <2>3, AppliedType, TypeFacts
  <2> QED  BY <1>1, <1>5, <2>1, <2>2, <2>4, TypeStep, TypeFacts DEF RemoveDelete
<1>6. ASSUME NEW out, UpdateLastaccess(s, out) PROVE TypeInv'
  <2>0. PICK error \in {FALSE, out = "fail"} :
           mgr' = [mgr EXCEPT
                     ![s].ticked = TRUE, ![s].wait = Poll,
                     ![s].db = IF out = "fail" /\ ~error THEN "ok" ELSE DbStatus(out),
                     ![s].status = IF error THEN "error" ELSE @]
    BY <1>6 DEF UpdateLastaccess
  <2> DEFINE x == [mgr[s] EXCEPT !.ticked = TRUE, !.wait = Poll,
                                 !.db = IF out = "fail" /\ ~error THEN "ok" ELSE DbStatus(out),
                                 !.status = IF error THEN "error" ELSE @]
             row == [rows[Name[s]] EXCEPT !.lastaccess = now]
  <2>1. mgr[s].pc = "paused"  BY <1>6 DEF UpdateLastaccess, Keeping
  <2>2. x \in Sane  BY <2>1, TypeFacts, Periods, ZenonT(60) DEF Sane, Manager, DbStatus, Statuses
  <2>3. /\ mgr' = [mgr EXCEPT ![s] = x]
        /\ rows' = Applied(out, Updated(rows, Name[s], mgr[s].id, row))
    BY <1>6, <2>0 DEF UpdateLastaccess
  <2>4. row \in Node  BY TypeFacts DEF Node
  <2> HIDE DEF x, row
  <2>5. rows' \in Rows  BY <2>3, <2>4, AppliedType, UpdatedType, TypeFacts
  <2> QED  BY <1>1, <1>6, <2>2, <2>3, <2>5, TypeStep, TypeFacts DEF UpdateLastaccess
<1>7. ASSUME NEW out, Stopped(s, out) PROVE TypeInv'
  <2> DEFINE row == [rows[Name[s]] EXCEPT !.status = "stopped"]
             x == [NewManager("unknown") EXCEPT !.pc = "off"]
  <2>1. row \in Node  BY TypeFacts DEF Node, NodeStatuses
  <2>2. rows' = rows \/ rows' = Applied(out, Updated(rows, Name[s], mgr[s].id, row))
    BY <1>7 DEF Stopped
  <2>3. mgr' = [mgr EXCEPT ![s] = x] /\ main' = [main EXCEPT ![s] = Off]
    BY <1>7 DEF Stopped
  <2>4. x \in Sane  BY NewManagerType DEF Statuses
  <2> HIDE DEF x, row
  <2>5. rows' \in Rows  BY <2>1, <2>2, AppliedType, UpdatedType, TypeFacts
  <2>6. main' \in [Servers -> MainProcess]  BY <2>3, OffType, TypeFacts
  <2> QED  BY <1>1, <1>7, <2>3, <2>4, <2>5, <2>6, TypeStep, TypeFacts DEF Stopped
<1>8. ASSUME NEW n \in Names, RemoveSelect(s, n) PROVE TypeInv'
  <2> DEFINE x == [mgr[s] EXCEPT !.pc = "removing", !.target = rows[n].id]
  <2>1. mgr[s].pc = "run" /\ rows[n].id \in Nat
    BY <1>8, TypeFacts DEF RemoveSelect, Commanded, Rows, Node
  <2>2. x \in Sane  BY <2>1, TypeFacts, ZenonT(60) DEF Sane, Manager
  <2>3. mgr' = [mgr EXCEPT ![s] = x]  BY <1>8 DEF RemoveSelect
  <2> HIDE DEF x
  <2> QED  BY <1>1, <1>8, <2>2, <2>3, TypeStep, TypeFacts DEF RemoveSelect
<1>9. ASSUME NEW d \in Delays, SetFailoverDelay(s, d) PROVE TypeInv'
  <2> DEFINE x == [mgr[s] EXCEPT !.delay = d]
  <2>1. x \in Sane  BY TypeFacts DEF Sane, Manager
  <2>2. mgr' = [mgr EXCEPT ![s] = x]  BY <1>9 DEF SetFailoverDelay
  <2> HIDE DEF x
  <2>3. mgr' \in [Servers -> Sane] /\ mgr'[s] \in Manager
    BY <1>1, <2>1, <2>2, TypeFacts DEF Sane
  <2>4. main' \in [Servers -> MainProcess]
    <3>1. Send(s, <<StatusUpdate(mgr'[s])>>)  BY <1>9 DEF SetFailoverDelay
    <3>2. StatusUpdate(mgr'[s]) \in Message  BY <2>3, MessageTypes
    <3>3. <<StatusUpdate(mgr'[s])>> \in Seq(Message)  BY <3>2
    <3> QED  BY <3>1, <3>3, SendType, TypeFacts
  <2> QED  BY <1>9, <2>3, <2>4, TypeStep, TypeFacts DEF SetFailoverDelay
<1> QED
  BY <1>2, <1>3, <1>4, <1>5, <1>6, <1>7, <1>8, <1>9, CreateNodeType, RegisterNodeType,
     CheckNodesType DEF Manage

\* What the main loop makes of the state p.
LEMMA LoopType ==
    ASSUME TypeInv, NEW s \in Servers, NEW p \in MainProcess, Loop(s, p)
    PROVE  mgr' \in [Servers -> Sane] /\ main' \in [Servers -> MainProcess]
<1>1. NewManager("standby") \in Sane  BY NewManagerType DEF Statuses
<1>2. \A x \in MainProcess : [main EXCEPT ![s] = x] \in [Servers -> MainProcess]
  BY TypeFacts
<1>3. [mgr EXCEPT ![s] = NewManager("standby")] \in [Servers -> Sane]
  BY <1>1, TypeFacts
<1>4. ASSUME NEW q \in MainProcess, NEW old \in Statuses, Restart(s, q, old)
      PROVE  mgr' \in [Servers -> Sane] /\ main' \in [Servers -> MainProcess]
  <2> DEFINE x == [q EXCEPT !.pc = "run", !.status = "standby", !.old = old, !.inbox = <<>>]
  <2>1. <<>> \in Seq(Message)  BY EmptySeq
  <2>2. x \in MainProcess  BY <2>1 DEF MainProcess, Statuses
  <2>3. main' = [main EXCEPT ![s] = x] /\ mgr' = [mgr EXCEPT ![s] = NewManager("standby")]
    BY <1>4 DEF Restart
  <2> HIDE DEF x
  <2> QED  BY <1>2, <1>3, <2>2, <2>3
<1>5. CASE Restart(s, [p EXCEPT !.hb = 0], IF p.status = "active" THEN "standby" ELSE p.old)
  <2>1. [p EXCEPT !.hb = 0] \in MainProcess  BY DEF MainProcess
  <2>2. (IF p.status = "active" THEN "standby" ELSE p.old) \in Statuses
    BY DEF MainProcess, Statuses
  <2> QED  BY <1>4, <1>5, <2>1, <2>2
<1>6. CASE Restart(s, p, "standby")
  BY <1>4, <1>6 DEF Statuses
<1>7. CASE main' = [main EXCEPT ![s] = [p EXCEPT !.pc = "starting", !.old = "active"]]
           /\ UNCHANGED mgr
  <2> DEFINE x == [p EXCEPT !.pc = "starting", !.old = "active"]
  <2>1. x \in MainProcess  BY DEF MainProcess, Statuses
  <2> HIDE DEF x
  <2> QED  BY <1>2, <1>7, <2>1, TypeFacts DEF x
<1>8. CASE main' = [main EXCEPT ![s] = p] /\ UNCHANGED mgr
  BY <1>2, <1>8, TypeFacts
<1> QED  BY <1>5, <1>6, <1>7, <1>8 DEF Loop

LEMMA StoppingType ==
    ASSUME TypeInv, NEW s \in Servers, Stopping(s)
    PROVE  mgr' \in [Servers -> Sane] /\ main' \in [Servers -> MainProcess]
<1> DEFINE x == [main[s] EXCEPT !.pc = "stopping", !.inbox = <<>>]
<1>1. <<>> \in Seq(Message)  BY EmptySeq
<1>2. x \in MainProcess  BY <1>1, TypeFacts DEF MainProcess
<1>3. main' = [main EXCEPT ![s] = x] /\ mgr' = mgr  BY DEF Stopping
<1> HIDE DEF x
<1> QED  BY <1>2, <1>3, TypeFacts

LEMMA LeadType ==
    ASSUME TypeInv, UNCHANGED setup, NEW s \in Servers, Lead(s)
    PROVE  TypeInv'
<1>1. /\ \A x \in MainProcess : [main EXCEPT ![s] = x] \in [Servers -> MainProcess]
      /\ \A x \in Sane : [mgr EXCEPT ![s] = x] \in [Servers -> Sane]
  BY TypeFacts
<1>2. CASE Start(s)
  <2> DEFINE x == [Off EXCEPT !.pc = "boot", !.session = sessions + 1]
  <2>1. x \in MainProcess
    <3>1. sessions + 1 \in Nat  BY TypeFacts
    <3> QED  BY <3>1, OffType DEF MainProcess
  <2>2. /\ mgr' = [mgr EXCEPT ![s] = NewManager("unknown")] /\ main' = [main EXCEPT ![s] = x]
        /\ sessions' = sessions + 1 /\ quiet' = [quiet EXCEPT ![s] = 0]
        /\ UNCHANGED <<now, settings, rows>>
    BY <1>2 DEF Start
  <2>3. NewManager("unknown") \in Sane  BY NewManagerType DEF Statuses
  <2> HIDE DEF x
  <2>4. quiet' \in [Servers -> Nat] /\ sessions' \in Nat  BY <2>2, TypeFacts
  <2> QED  BY <1>1, <2>1, <2>2, <2>3, <2>4, TypeStep, TypeFacts
<1>3. CASE Receive(s)
  <2> DEFINE msg == Head(main[s].inbox)
             p == [main[s] EXCEPT !.inbox = Tail(@)]
             hb == IF msg = Heartbeat \/ msg.status # p.status THEN now ELSE p.hb
  <2>1. /\ main[s].inbox # <<>> /\ UNCHANGED <<now, settings, rows, sessions, quiet>>
        /\ \/ Stopping(s)
           \/ Loop(s, [p EXCEPT !.hb = hb])
           \/ /\ msg # Heartbeat
              /\ Loop(s, [p EXCEPT !.status = msg.status, !.delay = msg.delay, !.hb = hb])
    BY <1>3 DEF Receive
  <2>2. main[s].inbox \in Seq(Message)  BY TypeFacts DEF MainProcess
  <2>3. msg \in Message /\ Tail(main[s].inbox) \in Seq(Message)
    BY <2>1, <2>2, HeadTailProperties
  <2>4. p \in MainProcess  BY <2>3, TypeFacts DEF MainProcess
  <2> HIDE DEF msg, p
  <2>5. hb \in Nat  BY <2>4, TypeFacts DEF MainProcess
  <2> HIDE DEF hb
  <2>6. [p EXCEPT !.hb = hb] \in MainProcess  BY <2>4, <2>5 DEF MainProcess
  <2>7. msg # Heartbeat
          => [p EXCEPT !.status = msg.status, !.delay = msg.delay, !.hb = hb] \in MainProcess
    <3>1. msg # Heartbeat => msg.status \in Statuses /\ msg.delay \in Delays
      BY <2>3 DEF Message
    <3> QED  BY <2>4, <2>5, <3>1 DEF MainProcess
  <2>8. mgr' \in [Servers -> Sane] /\ main' \in [Servers -> MainProcess]
    BY <2>1, <2>6, <2>7, LoopType, StoppingType
  <2> QED  BY <2>1, <2>8, TypeStep, TypeFacts
<1>4. CASE Timeout(s)
  BY <1>4, LoopType, TypeStep, TypeFacts DEF Timeout
<1>5. CASE Stop(s)
  BY <1>5, StoppingType, TypeStep, TypeFacts DEF Stop
<1>6. CASE Crash(s)
  <2> DEFINE x == [NewManager("unknown") EXCEPT !.pc = "off"]
  <2>1. mgr' = [mgr EXCEPT ![s] = x] /\ main' = [main EXCEPT ![s] = Off]
    BY <1>6 DEF Crash
  <2>2. x \in Sane  BY NewManagerType DEF Statuses
  <2> HIDE DEF x
  <2> QED  BY <1>1, <1>6, <2>1, <2>2, OffType, TypeStep, TypeFacts DEF Crash
<1>7. ASSUME NEW a \in {StatusAnswer(s), NoAnswer(s)}
      PROVE  a.status \in Statuses /\ a.delay \in Delays
  BY TypeFacts DEF StatusAnswer, NoAnswer, Manager, MainProcess, Statuses
<1>8. ASSUME NEW a \in {StatusAnswer(s), NoAnswer(s)}, Boot(s, a) PROVE TypeInv'
  <2> DEFINE x == [main[s] EXCEPT !.pc = IF a.status = "active" THEN "starting" ELSE "run",
                                  !.status = a.status, !.old = a.status, !.delay = a.delay]
  <2>1. x \in MainProcess  BY <1>7, TypeFacts DEF MainProcess
  <2>2. \/ Stopping(s)
        \/ main' = [main EXCEPT ![s] = x] /\ mgr' = mgr
    BY <1>8 DEF Boot
  <2> HIDE DEF x
  <2>3. mgr' \in [Servers -> Sane] /\ main' \in [Servers -> MainProcess]
    BY <1>1, <2>1, <2>2, StoppingType, TypeFacts
  <2> QED  BY <1>8, <2>3, TypeStep, TypeFacts DEF Boot
<1>9. ASSUME NEW a \in {StatusAnswer(s), NoAnswer(s)}, Started(s, a) PROVE TypeInv'
  <2> DEFINE p == [main[s] EXCEPT !.delay = a.delay]
             x == [p EXCEPT !.pc = "run", !.hb = now, !.status = "active", !.old = "active"]
             y == [p EXCEPT !.pc = "run", !.status = "standby", !.old = "standby", !.inbox = <<>>]
  <2>1. \/ Stopping(s)
        \/ main' = [main EXCEPT ![s] = y] /\ mgr' = [mgr EXCEPT ![s] = NewManager("standby")]
        \/ main' = [main EXCEPT ![s] = x] /\ mgr' = mgr
    BY <1>9 DEF Started, Restart
  <2>2. p \in MainProcess  BY <1>7, TypeFacts DEF MainProcess
  <2> HIDE DEF p
  <2>3. <<>> \in Seq(Message)  BY EmptySeq
  <2>4. x \in MainProcess /\ y \in MainProcess
    BY <2>2, <2>3, TypeFacts DEF MainProcess, Statuses
  <2>5. NewManager("standby") \in Sane  BY NewManagerType DEF Statuses
  <2> HIDE DEF x, y
  <2>6. mgr' \in [Servers -> Sane] /\ main' \in [Servers -> MainProcess]
    BY <1>1, <2>1, <2>4, <2>5, StoppingType, TypeFacts
  <2> QED  BY <1>9, <2>6, TypeStep, TypeFacts DEF Started
<1> QED  BY <1>2, <1>3, <1>4, <1>5, <1>6, <1>8, <1>9 DEF Lead

\* the manager after a second
After(s) == [mgr[s] EXCEPT !.ticked = FALSE, !.wait = IF Keeping(s) THEN @ - 1 ELSE @]

LEMMA TypeNext == TypeInv /\ [Next]_vars => TypeInv'
<1> SUFFICES ASSUME TypeInv, [Next]_vars PROVE TypeInv'
  OBVIOUS
<1>1. CASE Advance /\ UNCHANGED setup
  <2>1. now' \in Nat
    <3>1. now \in Nat  BY DEF TypeInv, TypeOK
    <3>2. now' = now + 1  BY <1>1 DEF Advance
    <3> QED  BY <3>1, <3>2
  <2>2. quiet' \in [Servers -> Nat]
    <3>1. \A s \in Servers : quiet[s] \in Nat  BY DEF TypeInv, TypeOK
    <3>2. quiet' = [s \in Servers |-> IF Idle(s) THEN quiet[s] + 1 ELSE 0]
      BY <1>1 DEF Advance
    <3> QED  BY <3>1, <3>2
  <2>3. ASSUME NEW s \in Servers PROVE After(s) \in Sane
    <3>1. mgr[s] \in Manager /\ mgr[s] \in Sane  BY TypeFacts
    <3>2. Keeping(s) => mgr[s].wait > 0  BY <1>1 DEF Advance, Timely
    <3>3. (IF Keeping(s) THEN mgr[s].wait - 1 ELSE mgr[s].wait) \in Nat
      BY <3>1, <3>2 DEF Manager
    <3> QED  BY <3>1, <3>3 DEF After, Sane, Manager
  <2>4. mgr' = [s \in Servers |-> After(s)]  BY <1>1 DEF Advance, After
  <2>5. mgr' \in [Servers -> Sane]  BY <2>3, <2>4
  <2> QED  BY <1>1, <2>1, <2>2, <2>5, TypeStep DEF Advance, TypeInv, TypeOK, Rows
<1>2. CASE Horizon /\ UNCHANGED setup
  BY <1>2 DEF Horizon, TypeInv, TypeOK, Names, Name
<1>3. CASE UNCHANGED vars
  BY <1>3 DEF vars, TypeInv, TypeOK, Names, Name
<1> QED  BY <1>1, <1>2, <1>3, ManageType, LeadType DEF Next

LEMMA TypeInit == Init => TypeInv
<1> SUFFICES ASSUME Init PROVE TypeInv
  OBVIOUS
<1>1. setup \in Setups /\ now \in Nat /\ sessions \in Nat  BY DEF Init
<1>2. settings \in Delays  BY <1>1, HAAssumption DEF Init, HAAssumption, IsSetup, Delay
<1>3. rows \in [Names -> Node]  BY NoRowType DEF Init
<1>4. mgr \in [Servers -> Sane]  BY NewManagerType DEF Init, Statuses
<1>5. main \in [Servers -> MainProcess]  BY OffType DEF Init
<1>6. quiet \in [Servers -> Nat]  BY DEF Init
<1> QED  BY <1>1, <1>2, <1>3, <1>4, <1>5, <1>6 DEF TypeInv, TypeOK, Sane

\* Every variable of the cluster keeps its type, in every setup: in particular
\* no row, status or message is ever out of the sets that the code's constants
\* allow, and the seconds to the next check never run below zero.
THEOREM Types == Spec => []TypeOK
<1>1. TypeInv => TypeOK
  BY DEF TypeInv
<1> QED  BY <1>1, TypeInit, TypeNext, PTL DEF Spec

----------------------------------------------------------------------------
(* When a node is marked unavailable.  A manager counts the checks in which  *)
(* the active node's row was unchanged; checks are a poll period apart, so   *)
(* that the count bounds the age of the row, as long as a check that fails   *)
(* does not count (see TakeoverAfterDelay and "late").                       *)

\* no check fails after it has read the registry, no commit is in doubt, and the
\* failover delay is never raised: a raised one is not known to a node at once
Prompt ==
    /\ Faults \cap {"late", "lost"} = {}
    /\ "delay" \in Faults => \A d \in Delays : d <= Delay

\* the earliest time of the check that follows those counted
Due(m) == m.seen + (m.ticks + 1) * Poll

\* the checks of manager m, at time t, are no closer than the poll period
Counts(m, t) ==
    /\ m.pc \in {"run", "removing"} =>
          /\ ~m.init /\ m.wait >= 1
          /\ Due(m) <= t + m.wait - (IF m.ticked THEN 0 ELSE 1)
    /\ m.pc \in {"create", "register"} /\ ~m.init => Due(m) <= t
    /\ m.init => m.seen = 0 /\ m.ticks = 0
    /\ m.pc = "paused" => ~m.init

\* a manager that knows its row knows a delay no less than the one set, d
Knows(m, d) ==
    /\ m.id # 0 => d <= m.delay
    /\ m.pc = "register" => m.id # 0

\* the rows r have an id and were updated in the past
Past(r) == \A n \in Names : r[n].status # "none" => r[n].lastaccess <= now /\ r[n].id # 0

Running(s) ==
    /\ main[s].pc # "off" => main[s].session # 0
    /\ mgr[s].pc # "off" => main[s].pc # "off"

TimeInv ==
    /\ TypeInv /\ Prompt
    /\ now >= 1 /\ settings <= Delay
    /\ Past(rows)
    /\ \A s \in Servers : Counts(mgr[s], now) /\ Knows(mgr[s], settings) /\ Running(s)

LEMMA DueType == ASSUME NEW m \in Manager PROVE Due(m) \in Nat
<1>1. m.seen \in Nat /\ m.ticks + 1 \in Nat  BY DEF Manager
<1>2. (m.ticks + 1) * Poll \in Nat  BY <1>1, Periods
<1> QED  BY <1>1, <1>2 DEF Due

LEMMA DueFirst == ASSUME NEW m \in Manager, m.seen = 0, m.ticks = 0 PROVE Due(m) = Poll
<1>1. (m.ticks + 1) * Poll = Poll  BY Periods
<1> QED  BY <1>1, Periods DEF Due

\* Another check of an unchanged row is due a poll period later, and the first
\* check of a changed one a poll period after the change.
LEMMA DueObserved ==
    ASSUME NEW m \in Manager, NEW last \in Nat
    PROVE  Due(Observed(m, last)) = (IF last # m.seen THEN last ELSE Due(m)) + Poll
<1>1. CASE last # m.seen
  <2> DEFINE o == [m EXCEPT !.seen = last, !.ticks = 0]
  <2>1. o.seen = last /\ o.ticks = 0  BY DEF Manager
  <2>2. Observed(m, last) = o  BY <1>1 DEF Observed
  <2> HIDE DEF o
  <2>3. (o.ticks + 1) * Poll = Poll  BY <2>1, Periods
  <2> QED  BY <1>1, <2>1, <2>2, <2>3 DEF Due
<1>2. CASE last = m.seen
  <2> DEFINE o == [m EXCEPT !.ticks = @ + 1]
  <2>1. o.seen = m.seen /\ o.ticks = m.ticks + 1 /\ m.ticks \in Nat /\ m.seen \in Nat
    BY DEF Manager
  <2>2. Observed(m, last) = o  BY <1>2 DEF Observed
  <2> HIDE DEF o
  <2>3. \A k \in Nat : (k + 1 + 1) * Poll = (k + 1) * Poll + Poll  BY Periods
  <2>4. (o.ticks + 1) * Poll = (m.ticks + 1) * Poll + Poll  BY <2>1, <2>3
  <2>5. (m.ticks + 1) * Poll \in Nat  BY <2>1, Periods
  <2> QED  BY <1>2, <2>1, <2>2, <2>4, <2>5, Periods DEF Due
<1> QED  BY <1>1, <1>2

\* What the tick count of a takeover says of the time.
LEMMA TakeoverTime ==
    ASSUME NEW m \in Manager, TakeoverDue(m)
    PROVE  m.ticks > 0 /\ m.seen + m.delay < m.seen + m.ticks * Poll
<1>1. m.delay \in Nat /\ m.ticks \in Nat /\ m.seen \in Nat  BY Periods DEF Manager
<1>2. \A d, k, p \in Nat : p >= 1 /\ d \div p < k => d < k * p
  BY SMTT(20)
<1>3. m.delay < m.ticks * Poll  BY <1>1, <1>2, Periods DEF TakeoverDue
<1>4. m.delay \div Poll >= 0  BY <1>1, Periods
<1>5. m.ticks > 0  BY <1>1, <1>4, Periods DEF TakeoverDue
<1> QED  BY <1>1, <1>3, <1>5, Periods

LEMMA TimeFacts ==
    ASSUME TimeInv, NEW s \in Servers
    PROVE  /\ Counts(mgr[s], now) /\ Knows(mgr[s], settings) /\ Running(s)
           /\ mgr[s] \in Manager /\ main[s] \in MainProcess /\ mgr[s] \in Sane
           /\ now \in Nat /\ settings \in Nat /\ settings \in Delays /\ now >= 1
           /\ Outcomes \subseteq {"ok", "down", "fail"}
<1>1. TypeInv  BY DEF TimeInv
<1>2. Outcomes \subseteq {"ok", "down", "fail"}
  BY DEF TimeInv, Prompt, Outcomes
<1> QED  BY <1>1, <1>2, TypeFacts, Periods DEF TimeInv

\* What a step of server s must show: the rest follows from the types.
LEMMA TimeStep ==
    ASSUME TimeInv, TypeInv', UNCHANGED setup, NEW s \in Servers,
           now' = now, settings' = settings, Past(rows)',
           Counts(mgr'[s], now), Knows(mgr'[s], settings), Running(s)',
           \A t \in Servers \ {s} : mgr'[t] = mgr[t] /\ main'[t] = main[t]
    PROVE  TimeInv'
<1>1. Prompt'  BY DEF TimeInv, Prompt, Faults, Delay
<1>2. now' >= 1 /\ settings' <= Delay'  BY DEF TimeInv, Delay
<1>3. ASSUME NEW t \in Servers
      PROVE  Counts(mgr'[t], now) /\ Knows(mgr'[t], settings) /\ Running(t)'
  <2>1. CASE t = s  BY <2>1
  <2>2. CASE t # s
    <3>1. mgr'[t] = mgr[t] /\ main'[t] = main[t]  BY <2>2
    <3>2. Counts(mgr[t], now) /\ Knows(mgr[t], settings) /\ Running(t)  BY DEF TimeInv
    <3> QED  BY <3>1, <3>2 DEF Running
  <2> QED  BY <2>1, <2>2
<1> QED  BY <1>1, <1>2, <1>3 DEF TimeInv

LEMMA SendKeeps ==
    ASSUME main \in [Servers -> MainProcess], NEW s \in Servers, NEW msgs, Send(s, msgs)
    PROVE  /\ \A t \in Servers \ {s} : main'[t] = main[t]
           /\ main'[s].pc = main[s].pc /\ main'[s].session = main[s].session
           /\ main'[s].status = main[s].status /\ main'[s].old = main[s].old
           /\ main'[s].hb = main[s].hb /\ main'[s].delay = main[s].delay
           /\ main'[s].inbox = IF main[s].pc = "stopping" THEN main[s].inbox
                               ELSE Queued(main[s].inbox, msgs)
<1>1. main[s] \in MainProcess  OBVIOUS
<1>2. CASE main' = main /\ main[s].pc = "stopping"  BY <1>2
<1>3. CASE main' = [main EXCEPT ![s].inbox = Queued(@, msgs)] /\ main[s].pc # "stopping"
  BY <1>1, <1>3 DEF MainProcess
<1> QED  BY <1>2, <1>3 DEF Send

\* What a registration or a check that leaves the manager as m has changed.
LEMMA ConcludedKeeps ==
    ASSUME mgr \in [Servers -> Sane], main \in [Servers -> MainProcess],
           NEW s \in Servers, NEW m \in Manager, Concluded(s, m)
    PROVE  /\ \A t \in Servers \ {s} : mgr'[t] = mgr[t] /\ main'[t] = main[t]
           /\ main'[s].pc = main[s].pc /\ main'[s].session = main[s].session
           /\ main'[s].status = main[s].status /\ main'[s].old = main[s].old
           /\ main'[s].hb = main[s].hb /\ main'[s].delay = main[s].delay
           /\ mgr'[s] \in Manager
           /\ mgr'[s].pc = IF m.status = "error" THEN "paused" ELSE "run"
           /\ mgr'[s].init = FALSE /\ mgr'[s].ticked = ~m.init
           /\ mgr'[s].wait = IF m.init THEN FirstCheck(m.status)
                             ELSE IF m.db = "ok" THEN Poll ELSE 1
           /\ mgr'[s].status = m.status /\ mgr'[s].db = m.db /\ mgr'[s].id = m.id
           /\ mgr'[s].delay = m.delay /\ mgr'[s].seen = m.seen /\ mgr'[s].ticks = m.ticks
<1> DEFINE wait == IF m.init THEN FirstCheck(m.status) ELSE IF m.db = "ok" THEN Poll ELSE 1
           x == [m EXCEPT !.pc = IF m.status = "error" THEN "paused" ELSE "run",
                          !.init = FALSE, !.wait = wait, !.ticked = ~m.init]
<1>1. mgr' = [mgr EXCEPT ![s] = x]  BY DEF Concluded
<1>2. mgr' \in [Servers -> Sane]  BY ConcludedType
<1>3. mgr'[s] \in Manager  BY <1>2 DEF Sane
<1>4. mgr'[s] = x /\ \A t \in Servers \ {s} : mgr'[t] = mgr[t]
  <2> HIDE DEF x
  <2> QED  BY <1>1
<1>5. main' = main \/ \E msgs : Send(s, msgs)  BY DEF Concluded
<1>6. /\ \A t \in Servers \ {s} : main'[t] = main[t]
      /\ main'[s].pc = main[s].pc /\ main'[s].session = main[s].session
      /\ main'[s].status = main[s].status /\ main'[s].old = main[s].old
      /\ main'[s].hb = main[s].hb /\ main'[s].delay = main[s].delay
  BY <1>5, SendKeeps
<1>7. /\ x.pc = IF m.status = "error" THEN "paused" ELSE "run"
      /\ x.init = FALSE /\ x.ticked = ~m.init /\ x.wait = wait
      /\ x.status = m.status /\ x.db = m.db /\ x.id = m.id
      /\ x.delay = m.delay /\ x.seen = m.seen /\ x.ticks = m.ticks
  <2> HIDE DEF wait
  <2> QED  BY DEF Manager
<1> HIDE DEF x
<1> QED  BY <1>3, <1>4, <1>6, <1>7

\* A registration or check leaves the manager with the next check far enough.
LEMMA ConcludedTime ==
    ASSUME TimeInv, TypeInv', UNCHANGED setup, NEW s \in Servers, NEW m \in Manager,
           Concluded(s, m), now' = now, settings' = settings, Past(rows)',
           mgr[s].pc # "off",
           m.init => m.seen = 0 /\ m.ticks = 0,
           ~m.init => Due(m) <= now + (IF m.db = "ok" THEN Poll ELSE 1),
           m.id # 0 => settings <= m.delay
    PROVE  TimeInv'
<1> DEFINE x == mgr'[s]
<1>1. /\ mgr \in [Servers -> Sane] /\ main \in [Servers -> MainProcess]
      /\ m.init \in BOOLEAN /\ now \in Nat /\ now >= 1
  BY TypeFacts DEF TimeInv, Manager
<1>2. /\ \A t \in Servers \ {s} : mgr'[t] = mgr[t] /\ main'[t] = main[t]
      /\ main'[s].pc = main[s].pc /\ main'[s].session = main[s].session
      /\ x \in Manager /\ x.pc = (IF m.status = "error" THEN "paused" ELSE "run")
      /\ x.init = FALSE /\ x.ticked = ~m.init
      /\ x.wait = (IF m.init THEN FirstCheck(m.status) ELSE IF m.db = "ok" THEN Poll ELSE 1)
      /\ x.id = m.id /\ x.delay = m.delay /\ x.seen = m.seen /\ x.ticks = m.ticks
  BY <1>1, ConcludedKeeps
<1>3. Due(x) = Due(m) /\ Due(m) \in Nat  BY <1>2, DueType DEF Due
<1>4. m.init => Due(m) = Poll  BY DueFirst
<1> HIDE DEF x
<1>5. x.wait >= 1 /\ Due(x) <= now + x.wait - (IF x.ticked THEN 0 ELSE 1)
  <2>1. CASE m.init
    BY <1>1, <1>2, <1>3, <1>4, <2>1, Periods
  <2>2. CASE ~m.init
    <3>1. x.ticked = TRUE /\ x.wait = (IF m.db = "ok" THEN Poll ELSE 1)
      BY <1>2, <2>2
    <3>2. Due(m) <= now + x.wait
      BY <2>2, <3>1
    <3>3. x.wait \in Nat /\ x.wait >= 1
      BY <3>1, Periods
    <3> QED  BY <1>1, <1>3, <3>1, <3>2, <3>3
  <2> QED  BY <2>1, <2>2
<1>6. Counts(x, now) /\ Knows(x, settings)
  BY <1>2, <1>5 DEF Counts, Knows
<1>7. Running(s)'  BY <1>2, TimeFacts DEF Running
<1> QED  BY <1>2, <1>6, <1>7, TimeStep DEF x

\* r marks as unavailable only nodes not updated for the failover delay
Waited(r) ==
    \A n \in Names :
        rows[n].status \in {"active", "standby"} /\ r[n].status = "unavailable"
        => rows[n].lastaccess + settings <= now

LEMMA SameRows == ASSUME TimeInv PROVE Past(rows) /\ Waited(rows)
BY DEF TimeInv, Waited

LEMMA UpdatedTime ==
    ASSUME TimeInv, NEW r \in Rows, Past(r), Waited(r), NEW n \in Names, NEW id,
           NEW row \in Node, row.status # "unavailable",
           r[n].status # "none" => row.id = r[n].id /\ row.lastaccess <= now
    PROVE  Past(Updated(r, n, id, row)) /\ Waited(Updated(r, n, id, row))
<1>1. CASE r[n].status # "none" /\ r[n].id = id
  <2> DEFINE x == [r EXCEPT ![n] = row]
  <2>1. Updated(r, n, id, row) = x  BY <1>1 DEF Updated
  <2>2. x[n] = row /\ \A k \in Names \ {n} : x[k] = r[k]  BY DEF Rows
  <2> HIDE DEF x
  <2> QED  BY <1>1, <2>1, <2>2 DEF Past, Waited
<1>2. CASE ~(r[n].status # "none" /\ r[n].id = id)
  BY <1>2 DEF Updated
<1> QED  BY <1>1, <1>2

LEMMA UnavailableTime ==
    ASSUME TimeInv, NEW r \in Rows, Past(r), Waited(r), NEW id, NEW delay \in Nat,
           settings <= delay
    PROVE  Past(Unavailable(r, id, delay)) /\ Waited(Unavailable(r, id, delay))
<1> DEFINE new == Unavailable(r, id, delay)
<1>1. rows \in Rows /\ now \in Nat /\ settings \in Nat
  BY Periods DEF TimeInv, TypeInv, TypeOK, Rows
<1>2. ASSUME NEW n \in Names
      PROVE  /\ new[n].id = r[n].id /\ new[n].lastaccess = r[n].lastaccess
             /\ new[n].status # "none" => r[n].status # "none"
             /\ \/ new[n] = r[n]
                \/ now >= rows[n].lastaccess + delay
  BY DEF Unavailable, Rows, Node
<1>3. ASSUME NEW n \in Names PROVE rows[n].lastaccess \in Nat
  BY <1>1 DEF Rows, Node
<1> HIDE DEF new
<1>4. Past(new)  BY <1>2 DEF Past
<1>5. Waited(new)  BY <1>1, <1>2, <1>3 DEF Waited
<1> QED  BY <1>4, <1>5 DEF new

LEMMA KeptTime ==
    ASSUME TimeInv, NEW s \in Servers, NEW m, NEW st \in NodeStatuses \ {"unavailable"}
    PROVE  /\ Kept(s, m, st) \in Rows
           /\ Past(Kept(s, m, st)) /\ Waited(Kept(s, m, st))
<1> DEFINE row == [rows[Name[s]] EXCEPT !.status = st, !.lastaccess = now]
<1>1. TypeInv  BY DEF TimeInv
<1>2. row \in Node /\ row.status = st /\ row.id = rows[Name[s]].id /\ row.lastaccess = now
  BY <1>1, TypeFacts DEF Node
<1>3. Kept(s, m, st) = Updated(rows, Name[s], m.id, row)  BY DEF Kept
<1>4. Kept(s, m, st) \in Rows  BY <1>1, KeptType, TypeFacts
<1>5. now <= now  BY <1>1, TypeFacts
<1> HIDE DEF row
<1> QED  BY <1>1, <1>2, <1>3, <1>4, <1>5, SameRows, UpdatedTime, TypeFacts

LEMMA RegisteredTime ==
    ASSUME TimeInv, NEW s \in Servers, NEW id, NEW st \in {"active", "standby"},
           NEW delay \in Nat, settings <= delay
    PROVE  /\ Past(Registered(s, id, st, delay))
           /\ Waited(Registered(s, id, st, delay))
<1> DEFINE row == [rows[Name[s]] EXCEPT !.status = st, !.lastaccess = now,
                                        !.session = main[s].session]
           u == Updated(rows, Name[s], id, row)
           r == OwnKind(s, u)
<1>1. TypeInv  BY DEF TimeInv
<1>2. main[s].session \in Nat  BY <1>1, TypeFacts DEF MainProcess
<1>3. row \in Node /\ row.status = st /\ row.id = rows[Name[s]].id /\ row.lastaccess = now
  BY <1>1, <1>2, TypeFacts DEF Node, NodeStatuses
<1>4. now <= now  BY <1>1, TypeFacts
<1> HIDE DEF row
<1>5. u \in Rows /\ Past(u) /\ Waited(u)
  BY <1>1, <1>3, <1>4, SameRows, UpdatedTime, UpdatedType, TypeFacts
<1> HIDE DEF u
<1>6. \A n \in Names : r[n] = u[n] \/ r[n] = NoRow
  BY DEF OwnKind
<1>7. r \in Rows  BY <1>5, NoRowType DEF OwnKind, Rows
<1> HIDE DEF r
<1>8. Past(r) /\ Waited(r)
  <2>1. NoRow.status = "none"  BY DEF NoRow
  <2> QED  BY <1>5, <1>6, <2>1 DEF Past, Waited
<1>9. Registered(s, id, st, delay) \in {r, Unavailable(r, id, delay)}
  BY DEF Registered, r, u, row
<1> QED  BY <1>7, <1>8, <1>9, UnavailableTime

LEMMA CreateNodeTime ==
    ASSUME TimeInv, TypeInv', UNCHANGED setup, NEW s \in Servers, NEW out \in Outcomes,
           CreateNode(s, out)
    PROVE  TimeInv' /\ Waited(rows')
<1> DEFINE m == [mgr[s] EXCEPT !.db = DbStatus(out),
                               !.delay = IF out = "down" THEN @ ELSE settings]
           new == [status |-> "stopped", id |-> main[s].session, session |-> 0,
                   lastaccess |-> now]
           next == [rows EXCEPT ![Name[s]] = new]
           x == [m EXCEPT !.pc = "register",
                          !.id = IF out = "ok" THEN rows'[Name[s]].id ELSE @]
<1>1. TypeInv /\ out \in {"ok", "down", "fail"}  BY TimeFacts DEF TimeInv
<1>2. /\ mgr[s].pc = "create" /\ now' = now /\ settings' = settings
      /\ rows' = rows \/ (Name[s] \notin Present /\ rows' = next)
  BY <1>1 DEF CreateNode, Applied
<1>3. main[s].session # 0 /\ now \in Nat  BY <1>2, TimeFacts DEF Running
<1>4. Past(rows') /\ Waited(rows')
  <2>1. CASE rows' = rows  BY <2>1, SameRows
  <2>2. CASE rows' = next
    <3>1. new.status = "stopped" /\ new.id # 0 /\ new.lastaccess <= now
      BY <1>3
    <3> HIDE DEF new
    <3>2. next[Name[s]] = new /\ \A k \in Names \ {Name[s]} : next[k] = rows[k]
      BY <1>1, TypeFacts DEF Rows
    <3> HIDE DEF next
    <3> QED  BY <2>2, <3>1, <3>2, SameRows DEF Past, Waited
  <2> QED  BY <1>2, <2>1, <2>2
<1>5. Past(rows)'  BY <1>2, <1>4 DEF Past, Names, Name
<1>6. /\ m \in Manager /\ m.init = mgr[s].init /\ m.seen = mgr[s].seen
      /\ m.ticks = mgr[s].ticks /\ m.id = mgr[s].id /\ Due(m) = Due(mgr[s])
      /\ m.delay = (IF out = "down" THEN mgr[s].delay ELSE settings)
  <2>1. m \in Manager  BY <1>1, TypeFacts DEF Manager, DbStatus
  <2>2. /\ m.init = mgr[s].init /\ m.seen = mgr[s].seen
        /\ m.ticks = mgr[s].ticks /\ m.id = mgr[s].id
        /\ m.delay = (IF out = "down" THEN mgr[s].delay ELSE settings)
    BY <1>1, TypeFacts DEF Manager
  <2> HIDE DEF m
  <2> QED  BY <2>1, <2>2 DEF Due
<1> HIDE DEF m
<1>7. /\ m.init => m.seen = 0 /\ m.ticks = 0
      /\ ~m.init => Due(m) <= now
      /\ m.id # 0 => settings <= m.delay
      /\ Due(m) \in Nat
  BY <1>2, <1>6, TimeFacts, DueType DEF Counts, Knows
<1>8. ASSUME NEW y \in {m, [m EXCEPT !.status = "error"]}, Concluded(s, y)
      PROVE  TimeInv'
  <2>1. /\ y \in Manager /\ y.init = m.init /\ y.seen = m.seen /\ y.ticks = m.ticks
        /\ y.id = m.id /\ y.delay = m.delay /\ y.db = m.db
    BY <1>6 DEF Manager, Statuses
  <2>2. Due(y) = Due(m)  BY <2>1 DEF Due
  <2>3. ~y.init => Due(y) <= now + (IF y.db = "ok" THEN Poll ELSE 1)
    BY <1>3, <1>7, <2>1, <2>2, Periods
  <2> QED  BY <1>2, <1>5, <1>7, <1>8, <2>1, <2>3, ConcludedTime
<1>9. CASE /\ mgr' = [mgr EXCEPT ![s] = x] /\ UNCHANGED main
           /\ out = "ok" \/ m.id # 0
           /\ out = "ok" => Name[s] \in Present \/ rows' = next
  <2>1. rows'[Name[s]].id \in Nat
    BY <1>1, TypeFacts DEF TypeInv, TypeOK, Names, Name, Node
  <2>2. /\ x.pc = "register" /\ x.init = m.init /\ x.seen = m.seen /\ x.ticks = m.ticks
        /\ x.delay = m.delay /\ x.id = (IF out = "ok" THEN rows'[Name[s]].id ELSE m.id)
    BY <1>6 DEF Manager
  <2>3. out = "ok" => rows'[Name[s]].id # 0
    <3>1. CASE Name[s] \in Present
      BY <1>2, <1>4, <3>1 DEF Past, Present
    <3>2. CASE rows' = next
      <4>1. next[Name[s]] = new  BY <1>1, TypeFacts DEF Rows
      <4> QED  BY <1>3, <3>2, <4>1
    <3> QED  BY <1>9, <3>1, <3>2
  <2>4. \A t \in Servers \ {s} : mgr'[t] = mgr[t] /\ main'[t] = main[t]
    <3> HIDE DEF x
    <3> QED  BY <1>1, <1>9, TypeFacts
  <2>5. mgr'[s] = x
    <3> HIDE DEF x
    <3> QED  BY <1>1, <1>9, TypeFacts
  <2> HIDE DEF x
  <2>6. Due(x) = Due(m)  BY <2>2 DEF Due
  <2>7. Counts(x, now)  BY <1>7, <2>2, <2>6 DEF Counts
  <2>8. Knows(x, settings)
    <3>1. x.id # 0  BY <1>9, <2>2, <2>3
    <3>2. settings <= x.delay
      BY <1>1, <1>6, <1>7, <1>9, <2>2, TimeFacts
    <3> QED  BY <3>1, <3>2 DEF Knows
  <2>9. Running(s)'  BY <1>2, <1>9, TimeFacts DEF Running
  <2>10. Counts(mgr'[s], now) /\ Knows(mgr'[s], settings)  BY <2>5, <2>7, <2>8
  <2>11. now' = now /\ settings' = settings  BY <1>2
  <2> QED  BY <1>4, <1>5, <2>4, <2>9, <2>10, <2>11, TimeStep
<1>10. \/ Concluded(s, [m EXCEPT !.status = "error"])
       \/ Concluded(s, m)
       \/ /\ mgr' = [mgr EXCEPT ![s] = x] /\ UNCHANGED main
          /\ out = "ok" \/ m.id # 0
          /\ out = "ok" => Name[s] \in Present \/ rows' = next
  BY DEF CreateNode, Applied, m
<1> QED  BY <1>4, <1>8, <1>9, <1>10

LEMMA RegisterNodeTime ==
    ASSUME TimeInv, TypeInv', UNCHANGED setup, NEW s \in Servers, NEW out \in Outcomes,
           RegisterNode(s, out)
    PROVE  TimeInv' /\ Waited(rows')
<1> DEFINE m == [mgr[s] EXCEPT !.db = DbStatus(out)]
           status == IF Activate(s, m.delay) THEN "active" ELSE "standby"
           new == Registered(s, m.id, status, m.delay)
<1>1. TypeInv  BY DEF TimeInv
<1>2. /\ m \in Manager /\ m.init = mgr[s].init /\ m.seen = mgr[s].seen
      /\ m.ticks = mgr[s].ticks /\ m.id = mgr[s].id /\ m.delay = mgr[s].delay
  BY <1>1, TypeFacts DEF Manager, DbStatus
<1>3. /\ mgr[s].pc = "register" /\ now' = now /\ settings' = settings
      /\ rows' = rows \/ rows' = new
      /\ \E st \in Statuses : Concluded(s, [m EXCEPT !.status = st])
  <2>1. mgr[s].pc = "register" /\ now' = now /\ settings' = settings
    BY DEF RegisterNode
  <2>2. rows' = rows \/ rows' = new
    BY DEF RegisterNode, Applied
  <2> DEFINE error == \/ out = "fail"
                      \/ out # "down" /\ (Conflict(s, m.delay) \/ Name[s] \notin Present)
             st == IF error THEN "error" ELSE IF out = "ok" THEN status ELSE m.status
  <2>3. Concluded(s, [m EXCEPT !.status = st])
    BY DEF RegisterNode
  <2>4. st \in Statuses
    <3>1. m.status \in Statuses  BY <1>2 DEF Manager
    <3>2. status \in Statuses  BY DEF Statuses
    <3>3. "error" \in Statuses  BY DEF Statuses
    <3> HIDE DEF m, status, error
    <3> QED  BY <3>1, <3>2, <3>3
  <2> HIDE DEF st
  <2> QED  BY <2>1, <2>2, <2>3, <2>4
<1>4. status \in {"active", "standby"}  OBVIOUS
<1> HIDE DEF m, status
<1>5. /\ m.init => m.seen = 0 /\ m.ticks = 0
      /\ ~m.init => Due(m) <= now
      /\ m.id # 0 /\ settings <= m.delay /\ m.delay \in Nat
      /\ Due(m) \in Nat
  <2>1. Due(m) = Due(mgr[s])  BY <1>2 DEF Due
  <2> QED  BY <1>2, <1>3, <2>1, TimeFacts, DueType, Periods DEF Counts, Knows, Manager
<1>6. Past(rows') /\ Waited(rows')
  BY <1>3, <1>4, <1>5, RegisteredTime, SameRows
<1>7. Past(rows)'  BY <1>3, <1>6 DEF Past, Names, Name
<1>8. PICK st \in Statuses : Concluded(s, [m EXCEPT !.status = st])
  BY <1>3
<1> DEFINE y == [m EXCEPT !.status = st]
<1>9. /\ y \in Manager /\ y.init = m.init /\ y.seen = m.seen /\ y.ticks = m.ticks
      /\ y.id = m.id /\ y.delay = m.delay /\ y.db = m.db
  BY <1>2 DEF Manager
<1>10. Concluded(s, y)  BY <1>8
<1> HIDE DEF y
<1>11. Due(y) = Due(m)  BY <1>9 DEF Due
<1>12. ~y.init => Due(y) <= now + (IF y.db = "ok" THEN Poll ELSE 1)
  BY <1>5, <1>9, <1>11, Periods, TimeFacts
<1> QED  BY <1>3, <1>5, <1>6, <1>7, <1>9, <1>10, <1>12, ConcludedTime

\* A check of s that finds another active node.
LEMMA WatchesTime ==
    ASSUME TimeInv, TypeInv', UNCHANGED setup, NEW s \in Servers, NEW out \in Outcomes,
           CheckDue(s), mgr[s].status = "standby", out = "ok", now' = now, settings' = settings,
           NEW a \in Actives, Watches(s, out, a)
    PROVE  TimeInv' /\ Waited(rows')
<1> DEFINE m == ReadBy(s, out)
           o == Observed(m, rows[a].lastaccess)
           k == Kept(s, m, "active")
           new == [k EXCEPT ![a].status = "unavailable"]
<1>1. TypeInv  BY DEF TimeInv
<1>2. a \in Names /\ rows[a].status # "none"  BY DEF Actives, Present
<1>3. rows[a].lastaccess \in Nat /\ rows[a].lastaccess <= now
  <2>1. rows[a] \in Node  BY <1>1, <1>2, TypeFacts DEF Rows
  <2> QED  BY <1>2, <2>1 DEF Node, TimeInv, Past
<1>4. /\ m \in Manager /\ m.status = "standby" /\ m.delay = settings
      /\ m.seen = mgr[s].seen /\ m.ticks = mgr[s].ticks /\ m.init = FALSE /\ m.db = "ok"
  <2>1. ~mgr[s].init /\ mgr[s].init \in BOOLEAN
    BY TimeFacts DEF CheckDue, Counts, Manager
  <2> QED  BY <1>1, <2>1, ReadByType DEF DbStatus
<1>5. Due(m) <= now /\ Due(m) \in Nat
  <2>1. Due(m) = Due(mgr[s])  BY <1>4 DEF Due
  <2>2. Due(mgr[s]) \in Nat /\ mgr[s].wait \in Nat  BY TimeFacts, DueType DEF Manager
  <2>3. Due(mgr[s]) <= now + mgr[s].wait - 1 /\ mgr[s].wait <= 1
    BY TimeFacts DEF CheckDue, Counts
  <2> QED  BY <2>1, <2>2, <2>3, TimeFacts
<1> HIDE DEF m
<1>6. /\ o \in Manager /\ o.delay = settings /\ o.db = "ok" /\ o.init = FALSE
      /\ o.status = "standby"
      /\ o.ticks = (IF rows[a].lastaccess = m.seen THEN m.ticks + 1 ELSE 0)
  BY <1>3, <1>4, ObservedType DEF Observed, Manager
<1>7. Due(o) <= now + Poll
  BY <1>3, <1>4, <1>5, DueObserved, Periods, TimeFacts
<1>8. TakeoverDue(o) => rows[a].lastaccess + settings <= now
  <2> HAVE TakeoverDue(o)
  <2>1. o.ticks > 0 /\ o.seen + o.delay < o.seen + o.ticks * Poll
    BY <1>6, TakeoverTime
  <2>2. rows[a].lastaccess = m.seen /\ o.ticks = m.ticks + 1 /\ o.seen = m.seen
    BY <1>3, <1>4, <1>6, <2>1 DEF Observed, Manager
  <2>3. Due(m) = m.seen + o.ticks * Poll  BY <2>2 DEF Due
  <2> QED  BY <1>3, <1>5, <1>6, <2>1, <2>2, <2>3, TimeFacts
<1> HIDE DEF o
<1>9. k \in Rows /\ Past(k) /\ Waited(k)  BY KeptTime DEF NodeStatuses
<1> HIDE DEF k
<1>10. TakeoverDue(o) => Past(new) /\ Waited(new)
  <2> HAVE TakeoverDue(o)
  <2>1. /\ new[a].id = k[a].id /\ new[a].lastaccess = k[a].lastaccess
        /\ \A n \in Names \ {a} : new[n] = k[n]
    BY <1>2, <1>9 DEF Rows, Node
  <2>2. k[a].status # "none"
    BY <1>1, <1>2, TypeFacts DEF k, Kept, Updated, Rows, Node
  <2> HIDE DEF new
  <2> QED  BY <1>8, <1>9, <2>1, <2>2 DEF Past, Waited
<1>11. Kept(s, m, "standby") \in Rows /\ Past(Kept(s, m, "standby"))
       /\ Waited(Kept(s, m, "standby"))
  BY KeptTime DEF NodeStatuses
<1>12. \E st \in {"active", "standby"} :
          /\ Concluded(s, [o EXCEPT !.status = st])
          /\ Past(rows') /\ Waited(rows')
  <2>1. CASE TakeoverDue(o)
    <3>1. Checked(s, o, out, "active", new)
      BY <2>1 DEF Watches, o, m, k
    <3>2. rows' = new /\ Concluded(s, [o EXCEPT !.status = "active"])
      BY <3>1 DEF Checked, Applied
    <3> HIDE DEF new
    <3> QED  BY <1>10, <2>1, <3>2
  <2>2. CASE ~TakeoverDue(o)
    <3>1. Checked(s, o, out, m.status, Kept(s, m, m.status))
      BY <2>2 DEF Watches, o, m
    <3>2. rows' = Kept(s, m, "standby") /\ Concluded(s, [o EXCEPT !.status = "standby"])
      BY <1>4, <3>1 DEF Checked, Applied
    <3> QED  BY <1>11, <3>2
  <2> QED  BY <2>1, <2>2
<1>13. PICK st \in {"active", "standby"} :
          /\ Concluded(s, [o EXCEPT !.status = st])
          /\ Past(rows') /\ Waited(rows')
  BY <1>12
<1> DEFINE y == [o EXCEPT !.status = st]
<1>14. /\ y \in Manager /\ y.init = FALSE /\ y.seen = o.seen /\ y.ticks = o.ticks
       /\ y.delay = settings /\ y.db = "ok"
  BY <1>6 DEF Manager, Statuses
<1>15. Concluded(s, y)  BY <1>13
<1> HIDE DEF y
<1>16. Due(y) <= now + Poll
  <2>1. Due(y) = Due(o)  BY <1>14 DEF Due
  <2> QED  BY <1>7, <2>1
<1>17. mgr[s].pc # "off" /\ settings <= settings  BY TimeFacts DEF CheckDue
<1>18. Past(rows)'  BY <1>13 DEF Past, Names, Name
<1> QED  BY <1>13, <1>14, <1>15, <1>16, <1>17, <1>18, ConcludedTime

LEMMA CheckNodesTime ==
    ASSUME TimeInv, TypeInv', UNCHANGED setup, NEW s \in Servers, NEW out \in Outcomes,
           CheckNodes(s, out)
    PROVE  TimeInv' /\ Waited(rows')
<1> DEFINE m == ReadBy(s, out)
           k == Kept(s, m, "active")
<1>1. TypeInv /\ out \in {"ok", "down", "fail"}  BY TimeFacts DEF TimeInv
<1>2. /\ CheckDue(s) /\ mgr[s].status # "unknown" /\ now' = now /\ settings' = settings
      /\ mgr[s].pc = "run"
  BY CheckCases DEF CheckDue
<1>3. ~mgr[s].init /\ mgr[s].init = FALSE
  BY <1>2, TimeFacts DEF Counts, Manager
<1>4. Due(mgr[s]) <= now /\ Due(mgr[s]) \in Nat
  <2>1. Due(mgr[s]) \in Nat /\ mgr[s].wait \in Nat  BY TimeFacts, DueType DEF Manager
  <2>2. Due(mgr[s]) <= now + mgr[s].wait - 1 /\ mgr[s].wait <= 1
    BY <1>2, TimeFacts DEF CheckDue, Counts
  <2> QED  BY <2>1, <2>2, TimeFacts
<1>5. mgr[s].status \in {"active", "standby"}
  BY <1>2, TimeFacts DEF Sane, Manager, Statuses
<1>6. /\ m \in Manager /\ m.status = mgr[s].status /\ m.delay = settings
      /\ m.init = FALSE /\ m.seen = mgr[s].seen /\ m.ticks = mgr[s].ticks
  BY <1>1, <1>3, ReadByType
<1> HIDE DEF m
\* a check that leaves the count alone
<1>7. ASSUME NEW y \in Manager, y.init = FALSE, y.seen = mgr[s].seen, y.ticks = mgr[s].ticks,
             y.id # 0 => settings <= y.delay, Concluded(s, y), Past(rows')
      PROVE  TimeInv'
  <2>1. Due(y) = Due(mgr[s])  BY <1>7 DEF Due
  <2>2. Due(y) <= now + (IF y.db = "ok" THEN Poll ELSE 1)
    BY <1>4, <2>1, Periods, TimeFacts
  <2>3. Past(rows)'  BY <1>2, <1>7 DEF Past, Names, Name
  <2> QED  BY <1>2, <1>7, <2>2, <2>3, ConcludedTime
<1>8. ASSUME NEW st \in {"active", "standby"}, NEW new, Checked(s, m, out, st, new),
             out = "ok", Past(new), Waited(new)
      PROVE  TimeInv' /\ Waited(rows')
  <2> DEFINE y == [m EXCEPT !.status = st]
  <2>1. rows' = new /\ Concluded(s, y)  BY <1>8 DEF Checked, Applied
  <2>2. /\ y \in Manager /\ y.init = FALSE /\ y.seen = mgr[s].seen
        /\ y.ticks = mgr[s].ticks /\ y.delay = settings
    BY <1>6 DEF Manager, Statuses
  <2>3. settings <= settings  BY TimeFacts
  <2> HIDE DEF y
  <2> QED  BY <1>7, <1>8, <2>1, <2>2, <2>3
<1>9. CASE rows' = rows /\ Concluded(s, [mgr[s] EXCEPT !.db = "down"])
  <2> DEFINE y == [mgr[s] EXCEPT !.db = "down"]
  <2>1. /\ y \in Manager /\ y.init = FALSE /\ y.seen = mgr[s].seen
        /\ y.ticks = mgr[s].ticks /\ y.delay = mgr[s].delay /\ y.id = mgr[s].id
    BY <1>3, TimeFacts DEF Manager
  <2>2. y.id # 0 => settings <= y.delay  BY <2>1, TimeFacts DEF Knows
  <2> HIDE DEF y
  <2> QED  BY <1>7, <1>9, <2>1, <2>2, SameRows DEF y
<1>10. CASE rows' = rows /\ Concluded(s, [mgr[s] EXCEPT !.status = "error"])
  <2> DEFINE y == [mgr[s] EXCEPT !.status = "error"]
  <2>1. /\ y \in Manager /\ y.init = FALSE /\ y.seen = mgr[s].seen
        /\ y.ticks = mgr[s].ticks /\ y.delay = mgr[s].delay /\ y.id = mgr[s].id
    BY <1>3, TimeFacts DEF Manager, Statuses
  <2>2. y.id # 0 => settings <= y.delay  BY <2>1, TimeFacts DEF Knows
  <2> HIDE DEF y
  <2> QED  BY <1>7, <1>10, <2>1, <2>2, SameRows DEF y
<1>11. /\ k \in Rows /\ Past(k) /\ Waited(k)
       /\ Past(Kept(s, m, m.status)) /\ Waited(Kept(s, m, m.status))
  BY <1>5, <1>6, KeptTime DEF NodeStatuses
<1>12. Past(Unavailable(k, m.id, m.delay)) /\ Waited(Unavailable(k, m.id, m.delay))
  <2>1. settings <= settings /\ settings \in Nat  BY TimeFacts
  <2> HIDE DEF k
  <2> QED  BY <1>6, <1>11, <2>1, UnavailableTime
<1>13. \/ rows' = rows /\ Concluded(s, [mgr[s] EXCEPT !.db = "down"])
       \/ rows' = rows /\ Concluded(s, [mgr[s] EXCEPT !.status = "error"])
       \/ /\ out = "ok"
          /\ \/ Checked(s, m, out, m.status, Kept(s, m, m.status))
             \/ Checked(s, m, out, "active", Unavailable(k, m.id, m.delay))
             \/ Checked(s, m, out, "active", k)
             \/ m.status # "active" /\ \E a \in Actives : Watches(s, out, a)
  BY <1>1, CheckCases DEF m
<1>14. CASE /\ out = "ok"
            /\ m.status # "active" /\ \E a \in Actives : Watches(s, out, a)
  <2>1. mgr[s].status = "standby"  BY <1>5, <1>6, <1>14
  <2> QED  BY <1>2, <1>14, <2>1, WatchesTime
<1> HIDE DEF k
<1> QED  BY <1>5, <1>6, <1>8, <1>9, <1>10, <1>11, <1>12, <1>13, <1>14

\* The other steps of a manager and the steps of a main process, which mark no
\* row as unavailable.
LEMMA StepTime ==
    ASSUME TimeInv, TypeInv', UNCHANGED setup, NEW s \in Servers,
           now' = now, settings' = settings, Past(rows)', NEW x \in Manager,
           mgr' = [mgr EXCEPT ![s] = x],
           \A t \in Servers \ {s} : main'[t] = main[t],
           Counts(x, now), Knows(x, settings), Running(s)'
    PROVE  TimeInv'
<1>1. mgr \in [Servers -> Sane]  BY DEF TimeInv, TypeInv
<1>2. mgr'[s] = x /\ \A t \in Servers \ {s} : mgr'[t] = mgr[t]  BY <1>1
<1> QED  BY <1>2, TimeStep

LEMMA NewManagerTime ==
    ASSUME TimeInv, NEW st \in {"unknown", "standby"}
    PROVE  /\ NewManager(st) \in Manager
           /\ Counts(NewManager(st), now) /\ Knows(NewManager(st), settings)
           /\ Counts([NewManager("unknown") EXCEPT !.pc = "off"], now)
           /\ Knows([NewManager("unknown") EXCEPT !.pc = "off"], settings)
           /\ [NewManager("unknown") EXCEPT !.pc = "off"] \in Manager
<1> DEFINE x == NewManager(st)
           y == [NewManager("unknown") EXCEPT !.pc = "off"]
<1>1. x \in Manager /\ y \in Manager  BY NewManagerType DEF Statuses, Sane
<1>2. /\ x.seen = 0 /\ x.ticks = 0 /\ x.id = 0 /\ x.wait >= Poll /\ x.wait \in Nat
      /\ x.pc = (IF st = "unknown" THEN "create" ELSE "run")
      /\ x.init = (st = "unknown") /\ x.ticked = FALSE
  BY Periods DEF NewManager
<1>3. y.seen = 0 /\ y.ticks = 0 /\ y.id = 0 /\ y.pc = "off"
  BY DEF NewManager
<1>4. now \in Nat /\ now >= 1  BY DEF TimeInv, TypeInv, TypeOK
<1> HIDE DEF x, y
<1>5. Due(x) = Poll  BY <1>1, <1>2, DueFirst
<1>6. Counts(x, now) /\ Knows(x, settings)
  <2>1. CASE st = "unknown"
    <3>1. x.pc = "create" /\ x.init = TRUE  BY <1>2, <2>1
    <3> QED  BY <1>2, <3>1 DEF Counts, Knows
  <2>2. CASE st = "standby"
    <3>1. x.pc = "run" /\ x.init = FALSE  BY <1>2, <2>2
    <3>2. Due(x) <= now + x.wait - 1 /\ x.wait >= 1  BY <1>2, <1>4, <1>5, Periods
    <3> QED  BY <1>2, <3>1, <3>2 DEF Counts, Knows
  <2> QED  BY <2>1, <2>2
<1>7. Counts(y, now) /\ Knows(y, settings)
  BY <1>3 DEF Counts, Knows
<1> QED  BY <1>1, <1>6, <1>7 DEF x, y

LEMMA ManageTime ==
    ASSUME TimeInv, TypeInv', UNCHANGED setup, NEW s \in Servers, Manage(s)
    PROVE  TimeInv' /\ Waited(rows')
<1>1. TypeInv /\ mgr[s] \in Manager /\ now \in Nat /\ mgr[s].init \in BOOLEAN
  BY TimeFacts DEF TimeInv, Manager
<1>2. rows' = rows /\ now' = now => Past(rows)' /\ Waited(rows')
  BY SameRows DEF Past, Names, Name
<1>3. UNCHANGED main => /\ \A t \in Servers \ {s} : main'[t] = main[t]
                        /\ main'[s].pc = main[s].pc /\ main'[s].session = main[s].session
  OBVIOUS
<1>4. CASE Tick(s)
  <2> DEFINE x == [mgr[s] EXCEPT !.wait = @ - 1, !.ticked = TRUE]
  <2>1. /\ mgr[s].pc = "run" /\ ~mgr[s].ticked /\ mgr[s].wait > 1
        /\ mgr' = [mgr EXCEPT ![s] = x] /\ Send(s, Heartbeats(mgr[s]))
        /\ now' = now /\ settings' = settings /\ rows' = rows
    BY <1>4 DEF Tick
  <2>2. /\ x.pc = "run" /\ x.ticked = TRUE /\ x.wait = mgr[s].wait - 1 /\ mgr[s].wait \in Nat
        /\ x.init = mgr[s].init /\ x.seen = mgr[s].seen /\ x.ticks = mgr[s].ticks
        /\ x.id = mgr[s].id /\ x.delay = mgr[s].delay /\ x \in Manager
    <3>1. mgr[s].wait \in Nat  BY <1>1 DEF Manager
    <3>2. mgr[s].wait - 1 \in Nat  BY <2>1, <3>1
    <3> QED  BY <1>1, <2>1, <3>1, <3>2 DEF Manager
  <2> HIDE DEF x
  <2>3. Due(x) = Due(mgr[s]) /\ Due(mgr[s]) \in Nat  BY <1>1, <2>2, DueType DEF Due
  <2>4. /\ ~mgr[s].init /\ Due(mgr[s]) <= now + mgr[s].wait - 1
        /\ mgr[s].id # 0 => settings <= mgr[s].delay
    BY <2>1, TimeFacts DEF Counts, Knows
  <2>5. Counts(x, now)  BY <1>1, <2>1, <2>2, <2>3, <2>4 DEF Counts
  <2>6. Knows(x, settings)  BY <2>2, <2>4 DEF Knows
  <2>7. /\ \A t \in Servers \ {s} : main'[t] = main[t]
        /\ main'[s].pc = main[s].pc /\ main'[s].session = main[s].session
    BY <1>1, <2>1, SendKeeps, TypeFacts
  <2>8. Running(s)'  BY <2>1, <2>7, TimeFacts DEF Running
  <2> QED  BY <1>2, <2>1, <2>2, <2>5, <2>6, <2>7, <2>8, StepTime
<1>5. CASE RetryRegister(s)
  <2> DEFINE x == [mgr[s] EXCEPT !.pc = "create", !.ticked = TRUE]
  <2>1. /\ mgr[s].pc = "run" /\ ~mgr[s].ticked /\ mgr[s].wait <= 1
        /\ mgr' = [mgr EXCEPT ![s] = x]
        /\ now' = now /\ settings' = settings /\ rows' = rows /\ UNCHANGED main
    BY <1>5 DEF RetryRegister, CheckDue
  <2>2. /\ x.pc = "create" /\ mgr[s].wait \in Nat
        /\ x.init = mgr[s].init /\ x.seen = mgr[s].seen /\ x.ticks = mgr[s].ticks
        /\ x.id = mgr[s].id /\ x.delay = mgr[s].delay /\ x \in Manager
    BY <1>1 DEF Manager
  <2> HIDE DEF x
  <2>3. Due(x) = Due(mgr[s]) /\ Due(mgr[s]) \in Nat  BY <1>1, <2>2, DueType DEF Due
  <2>4. /\ ~mgr[s].init /\ Due(mgr[s]) <= now + mgr[s].wait - 1
        /\ mgr[s].id # 0 => settings <= mgr[s].delay
    BY <2>1, TimeFacts DEF Counts, Knows
  <2>5. Counts(x, now)  BY <1>1, <2>1, <2>2, <2>3, <2>4 DEF Counts
  <2>6. Knows(x, settings)  BY <2>2, <2>4 DEF Knows
  <2>7. Running(s)'  BY <1>3, <2>1, TimeFacts DEF Running
  <2> QED  BY <1>2, <1>3, <2>1, <2>2, <2>5, <2>6, <2>7, StepTime
<1>6. CASE Pause(s)
  <2> DEFINE x == [mgr[s] EXCEPT !.pc = "paused", !.wait = Poll]
  <2>1. /\ mgr[s].pc = "run" /\ mgr' = [mgr EXCEPT ![s] = x]
        /\ now' = now /\ settings' = settings /\ rows' = rows /\ UNCHANGED main
    BY <1>6 DEF Pause
  <2>2. /\ x.pc = "paused" /\ x.init = mgr[s].init /\ x.seen = mgr[s].seen
        /\ x.ticks = mgr[s].ticks /\ x.id = mgr[s].id /\ x.delay = mgr[s].delay
        /\ x \in Manager
    BY <1>1, Periods DEF Manager
  <2> HIDE DEF x
  <2>3. Counts(x, now) /\ Knows(x, settings)
    BY <2>1, <2>2, TimeFacts DEF Counts, Knows
  <2>4. Running(s)'  BY <1>3, <2>1, TimeFacts DEF Running
  <2> QED  BY <1>2, <1>3, <2>1, <2>2, <2>3, <2>4, StepTime
<1>7. ASSUME NEW out \in Outcomes, RemoveDelete(s, out) PROVE TimeInv' /\ Waited(rows')
  <2> DEFINE x == [mgr[s] EXCEPT !.pc = "run", !.target = 0, !.db = DbStatus(out)]
             new == [n \in Names |-> IF rows[n].id = mgr[s].target THEN NoRow ELSE rows[n]]
  <2>1. /\ mgr[s].pc = "removing" /\ mgr' = [mgr EXCEPT ![s] = x]
        /\ now' = now /\ settings' = settings /\ UNCHANGED main
        /\ rows' = rows \/ rows' = new
    BY <1>7 DEF RemoveDelete, Applied
  <2>2. /\ x.pc = "run" /\ x.init = mgr[s].init /\ x.seen = mgr[s].seen
        /\ x.ticks = mgr[s].ticks /\ x.id = mgr[s].id /\ x.delay = mgr[s].delay
        /\ x.wait = mgr[s].wait /\ x.ticked = mgr[s].ticked /\ x \in Manager
    BY <1>1 DEF Manager, DbStatus
  <2> HIDE DEF x
  <2>3. Due(x) = Due(mgr[s])  BY <2>2 DEF Due
  <2>4. Counts(x, now) /\ Knows(x, settings)
    BY <2>1, <2>2, <2>3, TimeFacts DEF Counts, Knows
  <2>5. Running(s)'  BY <1>3, <2>1, TimeFacts DEF Running
  <2>6. Past(new) /\ Waited(new)
    <3>1. \A n \in Names : new[n] = rows[n] \/ new[n].status = "none"
      BY DEF NoRow
    <3> HIDE DEF new
    <3> QED  BY <3>1, SameRows DEF Past, Waited
  <2> HIDE DEF new
  <2>7. Past(rows)' /\ Waited(rows')
    BY <1>2, <2>1, <2>6 DEF Past, Names, Name
  <2> QED  BY <1>3, <2>1, <2>2, <2>4, <2>5, <2>7, StepTime
<1>8. ASSUME NEW out \in Outcomes, UpdateLastaccess(s, out) PROVE TimeInv' /\ Waited(rows')
  <2>0. PICK error \in {FALSE, out = "fail"} :
           mgr' = [mgr EXCEPT
                     ![s].ticked = TRUE, ![s].wait = Poll,
                     ![s].db = IF out = "fail" /\ ~error THEN "ok" ELSE DbStatus(out),
                     ![s].status = IF error THEN "error" ELSE @]
    BY <1>8 DEF UpdateLastaccess
  <2> DEFINE x == [mgr[s] EXCEPT !.ticked = TRUE, !.wait = Poll,
                                 !.db = IF out = "fail" /\ ~error THEN "ok" ELSE DbStatus(out),
                                 !.status = IF error THEN "error" ELSE @]
             row == [rows[Name[s]] EXCEPT !.lastaccess = now]
             new == Updated(rows, Name[s], mgr[s].id, row)
  <2>1. /\ mgr[s].pc = "paused" /\ mgr' = [mgr EXCEPT ![s] = x]
        /\ now' = now /\ settings' = settings /\ UNCHANGED main
        /\ rows' = rows \/ rows' = new
    BY <1>8, <2>0 DEF UpdateLastaccess, Applied, Keeping
  <2>2. /\ x.pc = "paused" /\ x.init = mgr[s].init /\ x.seen = mgr[s].seen
        /\ x.ticks = mgr[s].ticks /\ x.id = mgr[s].id /\ x.delay = mgr[s].delay
        /\ x \in Manager
    BY <1>1, <2>1, Periods DEF Manager, DbStatus, Statuses
  <2> HIDE DEF x
  <2>3. Counts(x, now) /\ Knows(x, settings)
    BY <2>1, <2>2, TimeFacts DEF Counts, Knows
  <2>4. Running(s)'  BY <1>3, <2>1, TimeFacts DEF Running
  <2>5. Past(new) /\ Waited(new)
    <3>1. /\ row \in Node /\ row.id = rows[Name[s]].id /\ row.lastaccess = now
          /\ row.status = rows[Name[s]].status /\ rows \in Rows /\ Name[s] \in Names
      BY <1>1, TypeFacts DEF Node
    <3>2. new[Name[s]] \in {row, rows[Name[s]]} /\ \A n \in Names \ {Name[s]} : new[n] = rows[n]
      <4> HIDE DEF row
      <4> QED  BY <3>1 DEF Updated, Rows
    <3> HIDE DEF new, row
    <3> QED  BY <1>1, <3>1, <3>2, SameRows DEF Past, Waited
  <2> HIDE DEF new
  <2>6. Past(rows)' /\ Waited(rows')
    BY <1>2, <2>1, <2>5 DEF Past, Names, Name
  <2> QED  BY <1>3, <2>1, <2>2, <2>3, <2>4, <2>6, StepTime
<1>9. ASSUME NEW out \in Outcomes, Stopped(s, out) PROVE TimeInv' /\ Waited(rows')
  <2> DEFINE x == [NewManager("unknown") EXCEPT !.pc = "off"]
             row == [rows[Name[s]] EXCEPT !.status = "stopped"]
             new == Updated(rows, Name[s], mgr[s].id, row)
  <2>1. /\ mgr' = [mgr EXCEPT ![s] = x] /\ main' = [main EXCEPT ![s] = Off]
        /\ now' = now /\ settings' = settings
        /\ rows' = rows \/ rows' = new
    BY <1>9 DEF Stopped, Applied
  <2>2. x \in Manager /\ Counts(x, now) /\ Knows(x, settings) /\ x.pc = "off"
    BY NewManagerTime DEF NewManager
  <2> HIDE DEF x
  <2>3. /\ main'[s].pc = "off" /\ \A t \in Servers \ {s} : main'[t] = main[t]
        /\ mgr'[s].pc = "off"
    <3>1. Off.pc = "off"  BY DEF Off
    <3>2. mgr'[s] = x /\ main'[s] = Off /\ \A t \in Servers \ {s} : main'[t] = main[t]
      BY <1>1, <2>1, TypeFacts
    <3> QED  BY <2>2, <3>1, <3>2
  <2>4. Running(s)'  BY <2>3 DEF Running
  <2>5. Past(new) /\ Waited(new)
    <3>1. /\ row \in Node /\ row.id = rows[Name[s]].id
          /\ row.lastaccess = rows[Name[s]].lastaccess
          /\ row.status = "stopped" /\ rows \in Rows /\ Name[s] \in Names
      BY <1>1, TypeFacts DEF Node, NodeStatuses
    <3>2. rows[Name[s]].status # "none" => rows[Name[s]].lastaccess <= now
      BY <3>1, SameRows DEF Past
    <3> HIDE DEF row
    <3> QED  BY <3>1, <3>2, SameRows, UpdatedTime
  <2> HIDE DEF new
  <2>6. Past(rows)' /\ Waited(rows')
    BY <1>2, <2>1, <2>5 DEF Past, Names, Name
  <2> QED  BY <2>1, <2>2, <2>3, <2>4, <2>6, StepTime
<1>10. ASSUME NEW n \in Names, RemoveSelect(s, n) PROVE TimeInv' /\ Waited(rows')
  <2> DEFINE x == [mgr[s] EXCEPT !.pc = "removing", !.target = rows[n].id]
  <2>1. /\ mgr[s].pc = "run" /\ mgr' = [mgr EXCEPT ![s] = x]
        /\ now' = now /\ settings' = settings /\ rows' = rows /\ UNCHANGED main
    BY <1>10 DEF RemoveSelect, Commanded
  <2>2. /\ x.pc = "removing" /\ x.init = mgr[s].init /\ x.seen = mgr[s].seen
        /\ x.ticks = mgr[s].ticks /\ x.id = mgr[s].id /\ x.delay = mgr[s].delay
        /\ x.wait = mgr[s].wait /\ x.ticked = mgr[s].ticked /\ x \in Manager
    <3>1. rows[n].id \in Nat  BY <1>1, TypeFacts DEF Rows, Node
    <3> QED  BY <1>1, <3>1 DEF Manager
  <2> HIDE DEF x
  <2>3. Due(x) = Due(mgr[s])  BY <2>2 DEF Due
  <2>4. Counts(x, now) /\ Knows(x, settings)
    BY <2>1, <2>2, <2>3, TimeFacts DEF Counts, Knows
  <2>5. Running(s)'  BY <1>3, <2>1, TimeFacts DEF Running
  <2> QED  BY <1>2, <1>3, <2>1, <2>2, <2>4, <2>5, StepTime
<1>11. ASSUME NEW d \in Delays, SetFailoverDelay(s, d) PROVE TimeInv' /\ Waited(rows')
  <2> DEFINE x == [mgr[s] EXCEPT !.delay = d]
  <2>1. /\ "delay" \in Faults /\ mgr[s].pc = "run" /\ settings = Delay
        /\ mgr' = [mgr EXCEPT ![s] = x] /\ now' = now /\ settings' = d /\ rows' = rows
        /\ \E msgs : Send(s, msgs)
    BY <1>11 DEF SetFailoverDelay, Commanded
  <2>2. d \in Nat /\ d <= settings /\ settings \in Nat
    BY <2>1, Periods, TimeFacts DEF TimeInv, Prompt
  <2>3. /\ x.pc = "run" /\ x.init = mgr[s].init /\ x.seen = mgr[s].seen
        /\ x.ticks = mgr[s].ticks /\ x.id = mgr[s].id /\ x.delay = d
        /\ x.wait = mgr[s].wait /\ x.ticked = mgr[s].ticked /\ x \in Manager
    BY <1>1, <2>1 DEF Manager
  <2> HIDE DEF x
  <2>4. Due(x) = Due(mgr[s])  BY <2>3 DEF Due
  <2>5. Counts(x, now) /\ Knows(x, d)
    BY <2>1, <2>2, <2>3, <2>4, TimeFacts DEF Counts, Knows
  <2>6. /\ \A t \in Servers \ {s} : main'[t] = main[t]
        /\ main'[s].pc = main[s].pc /\ main'[s].session = main[s].session
    BY <1>1, <2>1, SendKeeps, TypeFacts
  <2>7. mgr'[s] = x /\ \A t \in Servers \ {s} : mgr'[t] = mgr[t]
    BY <1>1, <2>1, TypeFacts
  <2>8. ASSUME NEW t \in Servers
        PROVE  Counts(mgr'[t], now) /\ Knows(mgr'[t], d) /\ Running(t)'
    <3>1. CASE t = s  BY <2>1, <2>5, <2>6, <2>7, <3>1, TimeFacts DEF Running
    <3>2. CASE t # s
      <4>1. mgr'[t] = mgr[t] /\ main'[t] = main[t]  BY <2>6, <2>7, <3>2
      <4>2. mgr[t].delay \in Nat  BY TimeFacts, Periods DEF Manager
      <4>3. Counts(mgr[t], now) /\ Knows(mgr[t], settings) /\ Running(t)  BY TimeFacts
      <4> QED  BY <2>2, <4>1, <4>2, <4>3 DEF Knows, Running
    <3> QED  BY <3>1, <3>2
  <2>9. Prompt' /\ settings' <= Delay'
    BY <2>1, <2>2 DEF TimeInv, Prompt, Faults, Delay
  <2> QED  BY <1>2, <2>1, <2>8, <2>9 DEF TimeInv
<1> QED
  BY <1>4, <1>5, <1>6, <1>7, <1>8, <1>9, <1>10, <1>11, CreateNodeTime, RegisterNodeTime,
     CheckNodesTime DEF Manage

\* The main process keeps its session, and the manager it restarts is new.
LEMMA LeadTime ==
    ASSUME TimeInv, TypeInv', UNCHANGED setup, NEW s \in Servers, Lead(s)
    PROVE  TimeInv' /\ Waited(rows')
<1>1. TypeInv /\ main[s] \in MainProcess /\ main \in [Servers -> MainProcess]
      /\ mgr \in [Servers -> Sane]
  BY TimeFacts, TypeFacts DEF TimeInv
<1>2. rows' = rows /\ now' = now => Past(rows)' /\ Waited(rows')
  BY SameRows DEF Past, Names, Name
\* what every step of the main process of s comes to
<1>3. ASSUME NEW x \in MainProcess, main' = [main EXCEPT ![s] = x],
             rows' = rows, now' = now, settings' = settings,
             x.pc # "off" => x.session # 0,
             \/ mgr' = mgr /\ (main[s].pc # "off" => x.pc # "off")
             \/ /\ x.pc # "off"
                /\ mgr' = [mgr EXCEPT ![s] = NewManager("standby")]
             \/ /\ x.pc # "off"
                /\ mgr' = [mgr EXCEPT ![s] = NewManager("unknown")]
             \/ mgr' = [mgr EXCEPT ![s] = [NewManager("unknown") EXCEPT !.pc = "off"]]
      PROVE  TimeInv' /\ Waited(rows')
  <2>1. main'[s] = x /\ \A t \in Servers \ {s} : main'[t] = main[t]
    BY <1>1, <1>3
  <2>2. CASE mgr' = mgr /\ (main[s].pc # "off" => x.pc # "off")
    <3>1. Running(s)'  BY <1>3, <2>1, <2>2, TimeFacts DEF Running
    <3> QED  BY <1>2, <1>3, <2>1, <2>2, <3>1, TimeStep, TimeFacts
  <2>3. ASSUME NEW y \in Manager, mgr' = [mgr EXCEPT ![s] = y],
               Counts(y, now), Knows(y, settings), y.pc # "off" => x.pc # "off"
        PROVE  TimeInv' /\ Waited(rows')
    <3>1. mgr'[s] = y  BY <1>1, <2>3
    <3>2. Running(s)'  BY <1>3, <2>1, <2>3, <3>1 DEF Running
    <3> QED  BY <1>2, <1>3, <2>1, <2>3, <3>2, StepTime
  <2>4. [NewManager("unknown") EXCEPT !.pc = "off"].pc = "off"  BY DEF NewManager
  <2> QED  BY <1>3, <2>2, <2>3, <2>4, NewManagerTime
<1>4. ASSUME Stopping(s), rows' = rows, now' = now, settings' = settings, main[s].pc # "off"
      PROVE  TimeInv' /\ Waited(rows')
  <2> DEFINE x == [main[s] EXCEPT !.pc = "stopping", !.inbox = <<>>]
  <2>1. x \in MainProcess /\ x.pc = "stopping" /\ x.session = main[s].session
    <3>1. <<>> \in Seq(Message)  BY EmptySeq
    <3> QED  BY <1>1, <3>1 DEF MainProcess
  <2>2. main' = [main EXCEPT ![s] = x] /\ mgr' = mgr  BY <1>4 DEF Stopping
  <2>3. main[s].session # 0  BY <1>4, TimeFacts DEF Running
  <2> HIDE DEF x
  <2> QED  BY <1>3, <1>4, <2>1, <2>2, <2>3
<1>5. ASSUME NEW p \in MainProcess, p.session = main[s].session, p.pc # "off", Loop(s, p),
             rows' = rows, now' = now, settings' = settings, main[s].pc # "off"
      PROVE  TimeInv' /\ Waited(rows')
  <2>1. main[s].session # 0  BY <1>5, TimeFacts DEF Running
  <2>2. PICK x \in MainProcess :
              /\ main' = [main EXCEPT ![s] = x] /\ x.pc # "off" /\ x.session = p.session
              /\ mgr' = mgr \/ mgr' = [mgr EXCEPT ![s] = NewManager("standby")]
    <3>1. <<>> \in Seq(Message)  BY EmptySeq
    <3>2. ASSUME NEW q \in MainProcess, NEW old \in Statuses, q.session = p.session,
                 Restart(s, q, old)
          PROVE  \E x \in MainProcess :
                   /\ main' = [main EXCEPT ![s] = x] /\ x.pc # "off" /\ x.session = p.session
                   /\ mgr' = [mgr EXCEPT ![s] = NewManager("standby")]
      <4> DEFINE x == [q EXCEPT !.pc = "run", !.status = "standby", !.old = old, !.inbox = <<>>]
      <4>1. x \in MainProcess /\ x.pc = "run" /\ x.session = p.session
        BY <3>1, <3>2 DEF MainProcess, Statuses
      <4>2. main' = [main EXCEPT ![s] = x] /\ mgr' = [mgr EXCEPT ![s] = NewManager("standby")]
        BY <3>2 DEF Restart
      <4> HIDE DEF x
      <4> QED  BY <4>1, <4>2
    <3>3. CASE Restart(s, [p EXCEPT !.hb = 0], IF p.status = "active" THEN "standby" ELSE p.old)
      <4>1. [p EXCEPT !.hb = 0] \in MainProcess /\ [p EXCEPT !.hb = 0].session = p.session
        BY DEF MainProcess
      <4>2. (IF p.status = "active" THEN "standby" ELSE p.old) \in Statuses
        BY DEF MainProcess, Statuses
      <4> QED  BY <3>2, <3>3, <4>1, <4>2
    <3>4. CASE Restart(s, p, "standby")  BY <3>2, <3>4 DEF Statuses
    <3>5. CASE /\ main' = [main EXCEPT ![s] = [p EXCEPT !.pc = "starting", !.old = "active"]]
               /\ UNCHANGED mgr
      <4> DEFINE x == [p EXCEPT !.pc = "starting", !.old = "active"]
      <4>1. x \in MainProcess /\ x.pc = "starting" /\ x.session = p.session
        BY DEF MainProcess, Statuses
      <4>2. main' = [main EXCEPT ![s] = x] /\ mgr' = mgr  BY <3>5
      <4> HIDE DEF x
      <4> QED  BY <4>1, <4>2
    <3>6. CASE main' = [main EXCEPT ![s] = p] /\ UNCHANGED mgr
      BY <1>5, <3>6
    <3> QED  BY <1>5, <3>3, <3>4, <3>5, <3>6 DEF Loop
  <2> QED  BY <1>3, <1>5, <2>1, <2>2
<1>6. CASE Start(s)
  <2> DEFINE x == [Off EXCEPT !.pc = "boot", !.session = sessions + 1]
  <2>1. sessions + 1 \in Nat /\ sessions + 1 # 0  BY <1>1, TypeFacts
  <2>2. x \in MainProcess /\ x.pc = "boot" /\ x.session = sessions + 1
    BY <2>1, OffType DEF MainProcess
  <2>3. /\ mgr' = [mgr EXCEPT ![s] = NewManager("unknown")] /\ main' = [main EXCEPT ![s] = x]
        /\ now' = now /\ settings' = settings /\ rows' = rows
    BY <1>6 DEF Start
  <2> HIDE DEF x
  <2> QED  BY <1>3, <2>1, <2>2, <2>3
<1>7. CASE Receive(s)
  <2> DEFINE msg == Head(main[s].inbox)
             p == [main[s] EXCEPT !.inbox = Tail(@)]
             hb == IF msg = Heartbeat \/ msg.status # p.status THEN now ELSE p.hb
  <2>1. /\ main[s].pc = "run" /\ main[s].inbox # <<>>
        /\ now' = now /\ settings' = settings /\ rows' = rows
        /\ \/ Stopping(s)
           \/ Loop(s, [p EXCEPT !.hb = hb])
           \/ /\ msg # Heartbeat
              /\ Loop(s, [p EXCEPT !.status = msg.status, !.delay = msg.delay, !.hb = hb])
    BY <1>7 DEF Receive
  <2>2. main[s].inbox \in Seq(Message)  BY <1>1 DEF MainProcess
  <2>3. msg \in Message /\ Tail(main[s].inbox) \in Seq(Message)
    BY <2>1, <2>2, HeadTailProperties
  <2>4. p \in MainProcess /\ p.session = main[s].session /\ p.pc = "run"
    BY <1>1, <2>1, <2>3 DEF MainProcess
  <2> HIDE DEF msg, p
  <2>5. hb \in Nat  BY <1>1, <2>4, TypeFacts DEF MainProcess
  <2> HIDE DEF hb
  <2>6. /\ [p EXCEPT !.hb = hb] \in MainProcess
        /\ [p EXCEPT !.hb = hb].session = main[s].session
        /\ [p EXCEPT !.hb = hb].pc = "run"
    BY <2>4, <2>5 DEF MainProcess
  <2>7. msg # Heartbeat
          => LET q == [p EXCEPT !.status = msg.status, !.delay = msg.delay, !.hb = hb]
             IN  q \in MainProcess /\ q.session = main[s].session /\ q.pc = "run"
    <3>1. msg # Heartbeat => msg.status \in Statuses /\ msg.delay \in Delays
      BY <2>3 DEF Message
    <3> QED  BY <2>4, <2>5, <3>1 DEF MainProcess
  <2> QED  BY <1>4, <1>5, <2>1, <2>6, <2>7
<1>8. CASE Timeout(s)
  <2>1. /\ Loop(s, main[s]) /\ main[s].pc = "run"
        /\ now' = now /\ settings' = settings /\ rows' = rows
    BY <1>8 DEF Timeout
  <2> QED  BY <1>1, <1>5, <2>1
<1>9. CASE Stop(s)
  <2>1. /\ Stopping(s) /\ main[s].pc # "off"
        /\ now' = now /\ settings' = settings /\ rows' = rows
    BY <1>9 DEF Stop
  <2> QED  BY <1>4, <2>1
<1>10. CASE Crash(s)
  <2>1. /\ mgr' = [mgr EXCEPT ![s] = [NewManager("unknown") EXCEPT !.pc = "off"]]
        /\ main' = [main EXCEPT ![s] = Off]
        /\ now' = now /\ settings' = settings /\ rows' = rows
    BY <1>10 DEF Crash
  <2>2. Off.pc = "off" /\ Off \in MainProcess  BY OffType DEF Off
  <2> QED  BY <1>3, <2>1, <2>2
<1>11. ASSUME NEW a \in {StatusAnswer(s), NoAnswer(s)}
       PROVE  a.status \in Statuses /\ a.delay \in Delays
  BY <1>1, TypeFacts DEF StatusAnswer, NoAnswer, Manager, MainProcess, Statuses
<1>12. ASSUME NEW a \in {StatusAnswer(s), NoAnswer(s)}, Boot(s, a)
       PROVE  TimeInv' /\ Waited(rows')
  <2> DEFINE x == [main[s] EXCEPT !.pc = IF a.status = "active" THEN "starting" ELSE "run",
                                  !.status = a.status, !.old = a.status, !.delay = a.delay]
  <2>1. x \in MainProcess /\ x.pc # "off" /\ x.session = main[s].session
    BY <1>1, <1>11 DEF MainProcess
  <2>2. /\ main[s].pc = "boot" /\ now' = now /\ settings' = settings /\ rows' = rows
        /\ \/ Stopping(s)
           \/ main' = [main EXCEPT ![s] = x] /\ mgr' = mgr
    BY <1>12 DEF Boot
  <2>3. main[s].session # 0  BY <2>2, TimeFacts DEF Running
  <2> HIDE DEF x
  <2> QED  BY <1>3, <1>4, <2>1, <2>2, <2>3
<1>13. ASSUME NEW a \in {StatusAnswer(s), NoAnswer(s)}, Started(s, a)
       PROVE  TimeInv' /\ Waited(rows')
  <2> DEFINE p == [main[s] EXCEPT !.delay = a.delay]
             x == [p EXCEPT !.pc = "run", !.hb = now, !.status = "active", !.old = "active"]
             y == [p EXCEPT !.pc = "run", !.status = "standby", !.old = "standby", !.inbox = <<>>]
  <2>1. /\ main[s].pc = "starting" /\ now' = now /\ settings' = settings /\ rows' = rows
        /\ \/ Stopping(s)
           \/ main' = [main EXCEPT ![s] = y] /\ mgr' = [mgr EXCEPT ![s] = NewManager("standby")]
           \/ main' = [main EXCEPT ![s] = x] /\ mgr' = mgr
    BY <1>13 DEF Started, Restart
  <2>2. p \in MainProcess /\ p.session = main[s].session  BY <1>1, <1>11 DEF MainProcess
  <2> HIDE DEF p
  <2>3. <<>> \in Seq(Message)  BY EmptySeq
  <2>4. /\ x \in MainProcess /\ y \in MainProcess /\ x.pc = "run" /\ y.pc = "run"
        /\ x.session = main[s].session /\ y.session = main[s].session
    BY <1>1, <2>2, <2>3, TypeFacts DEF MainProcess, Statuses
  <2>5. main[s].session # 0  BY <2>1, TimeFacts DEF Running
  <2> HIDE DEF x, y
  <2> QED  BY <1>3, <1>4, <2>1, <2>4, <2>5
<1> QED  BY <1>6, <1>7, <1>8, <1>9, <1>10, <1>12, <1>13 DEF Lead

LEMMA TimeNext == TimeInv /\ [Next]_vars => TimeInv' /\ Waited(rows')
<1> SUFFICES ASSUME TimeInv, [Next]_vars PROVE TimeInv' /\ Waited(rows')
  OBVIOUS
<1>1. TypeInv'  BY TypeNext DEF TimeInv
<1>2. CASE Advance /\ UNCHANGED setup
  <2>1. now' = now + 1 /\ now \in Nat /\ now >= 1 /\ rows' = rows /\ settings' = settings
    BY <1>2 DEF Advance, TimeInv, TypeInv, TypeOK
  <2>2. Prompt' /\ settings' <= Delay'
    BY <1>2, <2>1 DEF TimeInv, Prompt, Faults, Delay
  <2>3. \A n \in Names : rows[n].lastaccess \in Nat
    BY DEF TimeInv, TypeInv, TypeOK, Node
  <2>4. Past(rows)'  BY <1>2, <2>1, <2>3, SameRows DEF Past, Names, Name
  <2>5. Waited(rows')  BY <2>1, SameRows
  <2>6. ASSUME NEW s \in Servers
        PROVE  Counts(mgr'[s], now') /\ Knows(mgr'[s], settings') /\ Running(s)'
    <3>1. mgr[s] \in Manager /\ mgr[s].wait \in Nat /\ mgr[s].ticked \in BOOLEAN
      BY TimeFacts DEF Manager
    <3>2. mgr'[s] = After(s) /\ main'[s] = main[s]  BY <1>2 DEF Advance, After
    <3> DEFINE x == After(s)
    <3>3. /\ x.pc = mgr[s].pc /\ x.init = mgr[s].init /\ x.seen = mgr[s].seen
          /\ x.ticks = mgr[s].ticks /\ x.id = mgr[s].id /\ x.delay = mgr[s].delay
          /\ x.ticked = FALSE
          /\ x.pc # "paused" => x.wait = mgr[s].wait
      BY <3>1 DEF After, Keeping, Manager
    <3> HIDE DEF x
    <3>4. Due(x) = Due(mgr[s]) /\ Due(x) \in Nat  BY <3>1, <3>3, DueType DEF Due
    <3>5. Counts(mgr[s], now) /\ Knows(mgr[s], settings) /\ Running(s)  BY TimeFacts
    <3>6. /\ mgr[s].pc = "run" => mgr[s].ticked \/ mgr[s].wait <= 1
          /\ mgr[s].pc # "removing"
      BY <1>2 DEF Advance, Timely
    <3>7. Counts(x, now')
      <4>1. CASE x.pc = "run"
        <5>1. Due(x) <= now + mgr[s].wait - (IF mgr[s].ticked THEN 0 ELSE 1)
              /\ mgr[s].wait >= 1 /\ ~mgr[s].init
          BY <3>3, <3>4, <3>5, <4>1 DEF Counts
        <5>2. Due(x) <= now' + x.wait - 1
          BY <2>1, <3>1, <3>3, <3>4, <4>1, <5>1
        <5> QED  BY <3>3, <4>1, <5>1, <5>2 DEF Counts
      <4>2. CASE x.pc # "run"
        BY <2>1, <3>3, <3>4, <3>5, <3>6, <4>2 DEF Counts
      <4> QED  BY <4>1, <4>2
    <3>8. Knows(x, settings')  BY <2>1, <3>3, <3>5 DEF Knows
    <3>9. Running(s)'  BY <3>2, <3>3, <3>5 DEF Running, x
    <3> QED  BY <3>2, <3>7, <3>8, <3>9 DEF x
  <2>7. now' >= 1  BY <2>1
  <2> QED  BY <1>1, <2>2, <2>4, <2>5, <2>6, <2>7 DEF TimeInv
<1>3. CASE UNCHANGED <<setup, now, settings, rows, mgr, main>>
  <2>1. Waited(rows')  BY <1>3, SameRows
  <2>2. Past(rows)'  BY <1>3, SameRows DEF Past, Names, Name
  <2>3. Prompt' /\ settings' <= Delay'  BY <1>3 DEF TimeInv, Prompt, Faults, Delay
  <2>4. \A s \in Servers : Running(s)'  BY <1>3 DEF TimeInv, Running
  <2> QED  BY <1>1, <1>3, <2>1, <2>2, <2>3, <2>4 DEF TimeInv
<1> QED  BY <1>1, <1>2, <1>3, ManageTime, LeadTime DEF Next, Horizon, vars

LEMMA TimeInit == Init /\ Prompt => TimeInv
<1> SUFFICES ASSUME Init, Prompt PROVE TimeInv
  OBVIOUS
<1>1. TypeInv  BY TypeInit
<1>2. now >= 1 /\ settings <= Delay
  BY <1>1, Periods DEF Init, TypeInv, TypeOK
<1>3. Past(rows)  BY DEF Init, Past, NoRow
<1>4. ASSUME NEW s \in Servers
      PROVE  Counts(mgr[s], now) /\ Knows(mgr[s], settings) /\ Running(s)
  <2>1. mgr[s] = [NewManager("unknown") EXCEPT !.pc = "off"] /\ main[s] = Off
    BY DEF Init
  <2>2. /\ mgr[s].pc = "off" /\ mgr[s].seen = 0 /\ mgr[s].ticks = 0 /\ mgr[s].id = 0
        /\ main[s].pc = "off"
    BY <2>1 DEF NewManager, Off
  <2> QED  BY <2>2 DEF Counts, Knows, Running
<1> QED  BY <1>1, <1>2, <1>3, <1>4 DEF TimeInv

\* A node is marked unavailable only when it has not been updated for the
\* failover delay, whatever the number of nodes, the poll period and the delay,
\* if no check fails half-way and the delay is not raised.
THEOREM TakeoverWaits == Spec /\ Prompt => TakeoverAfterDelay
<1>1. Init /\ Prompt => TimeInv  BY TimeInit
<1>2. TimeInv /\ [Next]_vars => TimeInv'  BY TimeNext
<1>3. TimeInv /\ [Next]_vars
      => [\A n \in Names :
             rows[n].status \in {"active", "standby"} /\ rows'[n].status = "unavailable"
             => rows[n].lastaccess + settings <= now]_vars
  BY TimeNext DEF Waited
<1> QED  BY <1>1, <1>2, <1>3, PTL DEF Spec, TakeoverAfterDelay

----------------------------------------------------------------------------
(* What the main process knows of its manager's status: the last status      *)
(* update that waits in its queue, or its own status when none does.         *)

AllBeats(box) == \A i \in 1..Len(box) : box[i] = Heartbeat

Latest(box, st) ==
    \E i \in 1..Len(box) :
        /\ box[i] # Heartbeat /\ box[i].status = st
        /\ \A j \in 1..Len(box) : j > i => box[j] = Heartbeat

Follows(p, m) ==
    \/ AllBeats(p.inbox) /\ (p.pc # "boot" => p.status = m.status)
    \/ Latest(p.inbox, m.status)

Mail(p, m) ==
    /\ p.pc \in {"boot", "run", "starting"} => Follows(p, m)
    /\ m.init => \/ m.pc = "off"
                 \/ m.pc \in {"create", "register"} /\ p.pc = "boot" /\ p.inbox = <<>>
    /\ m.pc = "paused" => m.status = "error" \/ p.pc = "stopping"

MailInv ==
    /\ TypeInv /\ "hang" \notin Faults
    /\ \A s \in Servers : Mail(main[s], mgr[s])

LEMMA Pair == \A x, y : <<x>> \o <<>> = <<x>> /\ <<x>> \o <<y>> = <<x, y>>
<1> TAKE x, y
<1> DEFINE S == {x, y}  a == <<x>> \o <<y>>  b == <<x, y>>
<1>1. <<x>> \in Seq(S) /\ <<y>> \in Seq(S) /\ b \in Seq(S)
  OBVIOUS
<1>2. a \in Seq(S) /\ Len(a) = 2 /\ a[1] = x /\ a[2] = y
  BY <1>1
<1>3. Len(b) = 2 /\ b[1] = x /\ b[2] = y
  OBVIOUS
<1>4. \A i \in 1..Len(a) : i = 1 \/ i = 2
  <2> HIDE DEF a
  <2> QED  BY <1>2
<1> HIDE DEF a, b
<1>5. a = b  BY <1>1, <1>2, <1>3, <1>4, SeqEqual
<1>6. <<x>> \o <<>> = <<x>>  BY <1>1, ConcatEmptySeq
<1> QED  BY <1>5, <1>6 DEF a, b

LEMMA BeatsQueued ==
    ASSUME NEW box \in Seq(Message), NEW st, NEW msgs \in {<<>>, <<Heartbeat>>}
    PROVE  /\ AllBeats(box) => AllBeats(Queued(box, msgs))
           /\ Latest(box, st) => Latest(Queued(box, msgs), st)
<1>1. CASE Queued(box, msgs) = box  BY <1>1
<1>2. CASE msgs = <<Heartbeat>> /\ Queued(box, msgs) = box \o msgs
  <2> DEFINE new == box \o <<Heartbeat>>
  <2>1. /\ Len(new) = Len(box) + 1 /\ Len(box) \in Nat
        /\ \A i \in 1..Len(box) : new[i] = box[i]
        /\ new[Len(box) + 1] = Heartbeat
    OBVIOUS
  <2> HIDE DEF new
  <2>2. AllBeats(box) => AllBeats(new)  BY <2>1 DEF AllBeats
  <2>3. Latest(box, st) => Latest(new, st)
    <3> HAVE Latest(box, st)
    <3>1. PICK i \in 1..Len(box) : /\ box[i] # Heartbeat /\ box[i].status = st
                                   /\ \A j \in 1..Len(box) : j > i => box[j] = Heartbeat
      BY DEF Latest
    <3>2. i \in 1..Len(new) /\ new[i] = box[i]  BY <2>1
    <3>3. \A j \in 1..Len(new) : j > i => new[j] = Heartbeat
      <4> TAKE j \in 1..Len(new)
      <4>1. j = Len(box) + 1 \/ j \in 1..Len(box)  BY <2>1
      <4> QED  BY <2>1, <3>1, <4>1
    <3> QED  BY <3>1, <3>2, <3>3 DEF Latest
  <2> QED  BY <1>2, <2>2, <2>3 DEF new
<1>3. CASE msgs = <<>>
  <2>1. box \o <<>> = box  OBVIOUS
  <2> QED  BY <1>1, <1>3, <2>1 DEF Queued
<1> QED  BY <1>1, <1>2, <1>3 DEF Queued

LEMMA NewsQueued ==
    ASSUME NEW box \in Seq(Message), NEW u, u # Heartbeat,
           NEW msgs \in {<<u>>, <<u, Heartbeat>>}
    PROVE  Latest(Queued(box, msgs), u.status)
<1>1. Queued(box, msgs) = box \o msgs
  <2>1. msgs # <<Heartbeat>>  OBVIOUS
  <2> QED  BY <2>1 DEF Queued
<1> DEFINE new == box \o msgs
<1>2. Len(box) \in Nat  OBVIOUS
<1>3. Len(box) + 1 \in 1..Len(new) /\ new[Len(box) + 1] = u
  <2>1. CASE msgs = <<u>>  BY <1>2, <2>1
  <2>2. CASE msgs = <<u, Heartbeat>>  BY <1>2, <2>2
  <2> QED  BY <2>1, <2>2
<1>4. \A j \in 1..Len(new) : j > Len(box) + 1 => new[j] = Heartbeat
  <2>1. CASE msgs = <<u>>
    <3>1. Len(new) = Len(box) + 1  BY <2>1
    <3> HIDE DEF new
    <3> QED  BY <1>2, <3>1
  <2>2. CASE msgs = <<u, Heartbeat>>
    <3>1. Len(new) = Len(box) + 2 /\ new[Len(box) + 2] = Heartbeat  BY <2>2
    <3> HIDE DEF new
    <3>2. \A j \in 1..Len(new) : j > Len(box) + 1 => j = Len(box) + 2  BY <1>2, <3>1
    <3> QED  BY <3>1, <3>2
  <2> QED  BY <2>1, <2>2
<1> HIDE DEF new
<1> QED  BY <1>1, <1>3, <1>4 DEF Latest, new

LEMMA TailFollows ==
    ASSUME NEW box \in Seq(Message), box # <<>>, NEW st
    PROVE  /\ AllBeats(box) => Head(box) = Heartbeat /\ AllBeats(Tail(box))
           /\ Latest(box, st) =>
                 \/ Latest(Tail(box), st)
                 \/ Head(box) # Heartbeat /\ Head(box).status = st /\ AllBeats(Tail(box))
<1> DEFINE t == Tail(box)
<1>1. /\ Len(box) \in Nat /\ Len(box) >= 1 /\ Len(t) = Len(box) - 1 /\ Head(box) = box[1]
      /\ \A i \in 1..Len(t) : t[i] = box[i + 1]
  OBVIOUS
<1> HIDE DEF t
<1>2. AllBeats(box) => Head(box) = Heartbeat /\ AllBeats(t)
  BY <1>1 DEF AllBeats
<1>3. ASSUME Latest(box, st)
      PROVE  \/ Latest(t, st)
             \/ Head(box) # Heartbeat /\ Head(box).status = st /\ AllBeats(t)
  <2>1. PICK i \in 1..Len(box) : /\ box[i] # Heartbeat /\ box[i].status = st
                                 /\ \A j \in 1..Len(box) : j > i => box[j] = Heartbeat
    BY <1>3 DEF Latest
  <2>2. CASE i = 1
    <3>1. \A j \in 1..Len(t) : t[j] = Heartbeat
      <4> TAKE j \in 1..Len(t)
      <4>1. j + 1 \in 1..Len(box) /\ j + 1 > i  BY <1>1, <2>2
      <4> QED  BY <1>1, <2>1, <4>1
    <3> QED  BY <1>1, <2>1, <2>2, <3>1 DEF AllBeats
  <2>3. CASE i # 1
    <3>1. i - 1 \in 1..Len(t) /\ t[i - 1] = box[i]  BY <1>1, <2>3
    <3>2. \A j \in 1..Len(t) : j > i - 1 => t[j] = Heartbeat
      <4> TAKE j \in 1..Len(t)
      <4>1. j > i - 1 => j + 1 \in 1..Len(box) /\ j + 1 > i  BY <1>1
      <4> QED  BY <1>1, <2>1, <4>1
    <3> QED  BY <2>1, <3>1, <3>2 DEF Latest
  <2> QED  BY <2>2, <2>3
<1> QED  BY <1>2, <1>3 DEF t

LEMMA MailFacts ==
    ASSUME MailInv, NEW s \in Servers
    PROVE  /\ TypeInv /\ Mail(main[s], mgr[s]) /\ mgr[s] \in Manager /\ mgr[s] \in Sane
           /\ main[s] \in MainProcess /\ main[s].inbox \in Seq(Message)
           /\ mgr \in [Servers -> Sane] /\ main \in [Servers -> MainProcess]
BY TypeFacts DEF MailInv, MainProcess

LEMMA MailStep ==
    ASSUME MailInv, TypeInv', UNCHANGED setup, NEW s \in Servers, Mail(main'[s], mgr'[s]),
           \A t \in Servers \ {s} : mgr'[t] = mgr[t] /\ main'[t] = main[t]
    PROVE  MailInv'
<1>1. \A t \in Servers : Mail(main'[t], mgr'[t])
  BY DEF MailInv
<1> QED  BY <1>1 DEF MailInv, Faults

\* A registration or a check tells the main process of a new status.
LEMMA ConcludedMail ==
    ASSUME MailInv, TypeInv', UNCHANGED setup, NEW s \in Servers, NEW m \in Manager,
           Concluded(s, m), m.init = mgr[s].init, mgr[s].pc # "off",
           m.status = mgr[s].status \/ m.status # "unknown"
    PROVE  MailInv'
<1> DEFINE told == IF m.status # mgr[s].status /\ m.status # "unknown"
                   THEN <<StatusUpdate(m)>> ELSE <<>>
           beat == IF m.status = "error" THEN <<>> ELSE Heartbeats(m)
           box == main[s].inbox
<1>1. /\ \A t \in Servers \ {s} : mgr'[t] = mgr[t] /\ main'[t] = main[t]
      /\ main'[s].pc = main[s].pc /\ main'[s].status = main[s].status
      /\ mgr'[s].pc = IF m.status = "error" THEN "paused" ELSE "run"
      /\ mgr'[s].init = FALSE /\ mgr'[s].status = m.status
  BY MailFacts, ConcludedKeeps, ZenonT(60)
<1>2. CASE main[s].pc = "stopping"
  <2>1. Mail(main'[s], mgr'[s])  BY <1>1, <1>2 DEF Mail
  <2> QED  BY <1>1, <2>1, MailStep
<1>3. CASE main[s].pc # "stopping" /\ m.init
  <2>1. main' = main /\ main[s].pc = "boot" /\ box = <<>>
    BY <1>3, MailFacts DEF Concluded, Mail
  <2>2. AllBeats(<<>>)  BY DEF AllBeats
  <2>3. Mail(main'[s], mgr'[s])  BY <1>1, <2>1, <2>2 DEF Mail, Follows
  <2> QED  BY <1>1, <2>3, MailStep
<1>4. CASE main[s].pc # "stopping" /\ ~m.init
  <2>1. Send(s, told \o beat)  BY <1>4 DEF Concluded
  <2>2. main'[s].inbox = Queued(box, told \o beat)
    BY <1>4, <2>1, MailFacts, SendKeeps
  <2>3. beat \in {<<>>, <<Heartbeat>>}  BY DEF Heartbeats
  <2>4. CASE m.status = mgr[s].status
    <3>1. told \o beat \in {<<>>, <<Heartbeat>>}  BY <2>3, <2>4
    <3>2. Follows(main[s], mgr[s]) => Follows(main'[s], mgr'[s])
      BY <1>1, <2>2, <2>4, <3>1, BeatsQueued, MailFacts DEF Follows
    <3>3. Mail(main'[s], mgr'[s])  BY <1>1, <3>2, MailFacts DEF Mail
    <3> QED  BY <1>1, <3>3, MailStep
  <2>5. CASE m.status # mgr[s].status
    <3> DEFINE u == StatusUpdate(m)
    <3>1. u # Heartbeat /\ u.status = m.status
      BY DEF StatusUpdate, Heartbeat, Manager, Statuses
    <3>2. told = <<u>>  BY <2>5
    <3> HIDE DEF u, told, beat
    <3>3. told \o beat \in {<<u>>, <<u, Heartbeat>>}
      BY <2>3, <3>2, Pair
    <3>4. Latest(Queued(box, told \o beat), m.status)
      BY <3>1, <3>3, NewsQueued, MailFacts
    <3>5. Follows(main'[s], mgr'[s])  BY <1>1, <2>2, <3>4 DEF Follows
    <3>6. Mail(main'[s], mgr'[s])  BY <1>1, <3>5 DEF Mail
    <3> QED  BY <1>1, <3>6, MailStep
  <2> QED  BY <2>4, <2>5
<1> QED  BY <1>2, <1>3, <1>4

\* A step that leaves the main process and the manager's status alone.
LEMMA SilentMail ==
    ASSUME MailInv, TypeInv', UNCHANGED setup, NEW s \in Servers, NEW x \in Manager,
           mgr' = [mgr EXCEPT ![s] = x], UNCHANGED main,
           x.status = mgr[s].status \/ main[s].pc = "stopping",
           x.init => mgr[s].init /\ mgr[s].pc # "off" /\ x.pc \in {"create", "register"},
           x.pc = "paused" => main[s].pc = "stopping"
    PROVE  MailInv'
<1>1. mgr'[s] = x /\ \A t \in Servers \ {s} : mgr'[t] = mgr[t] /\ main'[t] = main[t]
  BY MailFacts
<1>2. Mail(main[s], x)  BY MailFacts DEF Mail, Follows
<1> QED  BY <1>1, <1>2, MailStep

LEMMA ManageMail ==
    ASSUME MailInv, TypeInv', UNCHANGED setup, NEW s \in Servers, Manage(s)
    PROVE  MailInv'
<1>1. mgr[s] \in Manager /\ mgr[s].init \in BOOLEAN  BY MailFacts DEF Manager
<1>2. mgr[s].pc \in {"run", "paused", "removing"} => mgr[s].init = FALSE
  BY <1>1, MailFacts DEF Mail
<1>3. CASE Tick(s)
  <2> DEFINE x == [mgr[s] EXCEPT !.wait = @ - 1, !.ticked = TRUE]
  <2>1. /\ mgr[s].pc = "run" /\ Send(s, Heartbeats(mgr[s]))
        /\ mgr' = [mgr EXCEPT ![s] = x]
    BY <1>3 DEF Tick
  <2>2. x.pc = "run" /\ x.status = mgr[s].status /\ x.init = FALSE
    BY <1>1, <1>2, <2>1 DEF Manager
  <2> HIDE DEF x
  <2>3. mgr'[s] = x /\ \A t \in Servers \ {s} : mgr'[t] = mgr[t]  BY <2>1, MailFacts
  <2>4. /\ \A t \in Servers \ {s} : main'[t] = main[t]
        /\ main'[s].pc = main[s].pc /\ main'[s].status = main[s].status
        /\ main'[s].inbox = IF main[s].pc = "stopping" THEN main[s].inbox
                            ELSE Queued(main[s].inbox, Heartbeats(mgr[s]))
    BY <2>1, SendKeeps, MailFacts
  <2>5. Heartbeats(mgr[s]) \in {<<>>, <<Heartbeat>>}  BY DEF Heartbeats
  <2>6. main[s].pc # "stopping" /\ Follows(main[s], mgr[s]) => Follows(main'[s], x)
    BY <2>2, <2>4, <2>5, BeatsQueued, MailFacts DEF Follows
  <2>7. Mail(main'[s], x)  BY <2>2, <2>4, <2>6, MailFacts DEF Mail
  <2> QED  BY <2>3, <2>4, <2>7, MailStep
<1>4. CASE RetryRegister(s)
  <2> DEFINE x == [mgr[s] EXCEPT !.pc = "create", !.ticked = TRUE]
  <2>1. mgr[s].pc = "run" /\ mgr' = [mgr EXCEPT ![s] = x] /\ UNCHANGED main
    BY <1>4 DEF RetryRegister, CheckDue
  <2>2. x \in Manager /\ x.pc = "create" /\ x.status = mgr[s].status /\ x.init = FALSE
    BY <1>1, <1>2, <2>1 DEF Manager
  <2> HIDE DEF x
  <2> QED  BY <2>1, <2>2, SilentMail
<1>5. CASE Pause(s)
  <2> DEFINE x == [mgr[s] EXCEPT !.pc = "paused", !.wait = Poll]
  <2>1. /\ main[s].pc = "stopping" /\ mgr[s].pc = "run"
        /\ mgr' = [mgr EXCEPT ![s] = x] /\ UNCHANGED main
    BY <1>5 DEF Pause
  <2>2. x \in Manager /\ x.status = mgr[s].status /\ x.init = FALSE
    BY <1>1, <1>2, <2>1, Periods DEF Manager
  <2> HIDE DEF x
  <2> QED  BY <2>1, <2>2, SilentMail
<1>6. ASSUME NEW out \in Outcomes, RemoveDelete(s, out) PROVE MailInv'
  <2> DEFINE x == [mgr[s] EXCEPT !.pc = "run", !.target = 0, !.db = DbStatus(out)]
  <2>1. mgr[s].pc = "removing" /\ mgr' = [mgr EXCEPT ![s] = x] /\ UNCHANGED main
    BY <1>6 DEF RemoveDelete
  <2>2. x \in Manager /\ x.pc = "run" /\ x.status = mgr[s].status /\ x.init = FALSE
    BY <1>1, <1>2, <2>1 DEF Manager, DbStatus
  <2> HIDE DEF x
  <2> QED  BY <2>1, <2>2, SilentMail
<1>7. ASSUME NEW out \in Outcomes, UpdateLastaccess(s, out) PROVE MailInv'
  <2>0. PICK error \in {FALSE, out = "fail"} :
           mgr' = [mgr EXCEPT
                     ![s].ticked = TRUE, ![s].wait = Poll,
                     ![s].db = IF out = "fail" /\ ~error THEN "ok" ELSE DbStatus(out),
                     ![s].status = IF error THEN "error" ELSE @]
    BY <1>7 DEF UpdateLastaccess
  <2> DEFINE x == [mgr[s] EXCEPT !.ticked = TRUE, !.wait = Poll,
                                 !.db = IF out = "fail" /\ ~error THEN "ok" ELSE DbStatus(out),
                                 !.status = IF error THEN "error" ELSE @]
  <2>1. /\ mgr[s].pc = "paused" /\ mgr[s].status # "error"
        /\ mgr' = [mgr EXCEPT ![s] = x] /\ UNCHANGED main
    BY <1>7, <2>0 DEF UpdateLastaccess, Keeping
  <2>2. x \in Manager /\ x.init = FALSE
    BY <1>1, <1>2, <2>1, Periods DEF Manager, DbStatus, Statuses
  <2>3. main[s].pc = "stopping"  BY <2>1, MailFacts DEF Mail
  <2> HIDE DEF x
  <2> QED  BY <2>1, <2>2, <2>3, SilentMail
<1>8. ASSUME NEW out \in Outcomes, Stopped(s, out) PROVE MailInv'
  <2> DEFINE x == [NewManager("unknown") EXCEPT !.pc = "off"]
  <2>1. mgr' = [mgr EXCEPT ![s] = x] /\ main' = [main EXCEPT ![s] = Off]
    BY <1>8 DEF Stopped
  <2>2. x.pc = "off" /\ Off.pc = "off"  BY DEF NewManager, Off
  <2> HIDE DEF x
  <2>3. /\ mgr'[s] = x /\ main'[s] = Off
        /\ \A t \in Servers \ {s} : mgr'[t] = mgr[t] /\ main'[t] = main[t]
    BY <2>1, MailFacts
  <2>4. Mail(Off, x)  BY <2>2 DEF Mail
  <2> QED  BY <2>3, <2>4, MailStep
<1>9. ASSUME NEW n \in Names, RemoveSelect(s, n) PROVE MailInv'
  <2> DEFINE x == [mgr[s] EXCEPT !.pc = "removing", !.target = rows[n].id]
  <2>1. mgr[s].pc = "run" /\ mgr' = [mgr EXCEPT ![s] = x] /\ UNCHANGED main
    BY <1>9 DEF RemoveSelect, Commanded
  <2>2. rows[n].id \in Nat  BY DEF MailInv, TypeInv, TypeOK, Node
  <2>3. x \in Manager /\ x.pc = "removing" /\ x.status = mgr[s].status /\ x.init = FALSE
    BY <1>1, <1>2, <2>1, <2>2 DEF Manager
  <2> HIDE DEF x
  <2> QED  BY <2>1, <2>3, SilentMail
<1>10. ASSUME NEW d \in Delays, SetFailoverDelay(s, d) PROVE MailInv'
  <2> DEFINE x == [mgr[s] EXCEPT !.delay = d]
             u == StatusUpdate(mgr'[s])
  <2>1. mgr[s].pc = "run" /\ mgr' = [mgr EXCEPT ![s] = x] /\ Send(s, <<u>>)
    BY <1>10 DEF SetFailoverDelay, Commanded
  <2>2. x \in Manager /\ x.pc = "run" /\ x.status = mgr[s].status /\ x.init = FALSE
    BY <1>1, <1>2, <2>1 DEF Manager
  <2> HIDE DEF x
  <2>3. mgr'[s] = x /\ \A t \in Servers \ {s} : mgr'[t] = mgr[t]  BY <2>1, MailFacts
  <2>4. u # Heartbeat /\ u.status = x.status
    BY <2>2, <2>3 DEF StatusUpdate, Heartbeat, Manager, Statuses
  <2> HIDE DEF u
  <2>5. /\ \A t \in Servers \ {s} : main'[t] = main[t]
        /\ main'[s].pc = main[s].pc /\ main'[s].status = main[s].status
        /\ main'[s].inbox = IF main[s].pc = "stopping" THEN main[s].inbox
                            ELSE Queued(main[s].inbox, <<u>>)
    BY <2>1, SendKeeps, MailFacts
  <2>6. main[s].pc # "stopping" => Follows(main'[s], x)
    BY <2>4, <2>5, NewsQueued, MailFacts DEF Follows
  <2>7. Mail(main'[s], x)  BY <2>2, <2>5, <2>6 DEF Mail
  <2> QED  BY <2>3, <2>5, <2>7, MailStep
<1>11. ASSUME NEW out \in Outcomes, CreateNode(s, out) PROVE MailInv'
  <2> DEFINE m == [mgr[s] EXCEPT !.db = DbStatus(out),
                                 !.delay = IF out = "down" THEN @ ELSE settings]
             x == [m EXCEPT !.pc = "register",
                            !.id = IF out = "ok" THEN rows'[Name[s]].id ELSE @]
  <2>1. /\ mgr[s].pc = "create"
        /\ \/ Concluded(s, [m EXCEPT !.status = "error"])
           \/ Concluded(s, m)
           \/ mgr' = [mgr EXCEPT ![s] = x] /\ UNCHANGED main
    BY <1>11 DEF CreateNode
  <2>2. m \in Manager /\ m.init = mgr[s].init /\ m.status = mgr[s].status
    <3>1. settings \in Delays  BY DEF MailInv, TypeInv, TypeOK
    <3> QED  BY <1>1, <3>1 DEF Manager, DbStatus
  <2> HIDE DEF m
  <2>3. CASE Concluded(s, [m EXCEPT !.status = "error"])
    <3> DEFINE y == [m EXCEPT !.status = "error"]
    <3>1. y \in Manager /\ y.init = mgr[s].init /\ y.status = "error"
      BY <2>2 DEF Manager, Statuses
    <3> HIDE DEF y
    <3> QED  BY <2>1, <2>3, <3>1, ConcludedMail DEF y
  <2>4. CASE Concluded(s, m)  BY <2>1, <2>2, <2>4, ConcludedMail
  <2>5. CASE mgr' = [mgr EXCEPT ![s] = x] /\ UNCHANGED main
    <3>1. rows'[Name[s]].id \in Nat
      BY DEF TypeInv, TypeOK, Names, Name, Node
    <3>2. x \in Manager /\ x.pc = "register" /\ x.status = mgr[s].status /\ x.init = mgr[s].init
      BY <2>2, <3>1 DEF Manager
    <3> HIDE DEF x
    <3> QED  BY <2>1, <2>5, <3>2, SilentMail
  <2> HIDE DEF x
  <2> QED  BY <2>1, <2>3, <2>4, <2>5
<1>12. ASSUME NEW out \in Outcomes, RegisterNode(s, out) PROVE MailInv'
  <2> DEFINE m == [mgr[s] EXCEPT !.db = DbStatus(out)]
             error == \/ out = "fail"
                      \/ out # "down" /\ (Conflict(s, m.delay) \/ Name[s] \notin Present)
             status == IF Activate(s, m.delay) THEN "active" ELSE "standby"
             st == IF error THEN "error" ELSE IF out = "ok" THEN status ELSE m.status
             y == [m EXCEPT !.status = st]
  <2>1. mgr[s].pc = "register" /\ Concluded(s, y)  BY <1>12 DEF RegisterNode
  <2>2. m \in Manager /\ m.init = mgr[s].init /\ m.status = mgr[s].status
    BY <1>1 DEF Manager, DbStatus
  <2>3. st = m.status \/ st \in {"error", "active", "standby"}
    <3>1. status \in {"active", "standby"}  OBVIOUS
    <3> HIDE DEF status, error, m
    <3> QED  BY <3>1
  <2> HIDE DEF m, st
  <2>4. y \in Manager /\ y.init = mgr[s].init
        /\ (y.status = mgr[s].status \/ y.status # "unknown")
    BY <2>2, <2>3 DEF Manager, Statuses
  <2> HIDE DEF y
  <2> QED  BY <2>1, <2>4, ConcludedMail
<1>13. ASSUME NEW out \in Outcomes, CheckNodes(s, out) PROVE MailInv'
  <2> DEFINE m == ReadBy(s, out)
  <2>1. mgr[s].pc = "run" /\ TypeInv  BY <1>13, CheckCases, MailFacts DEF CheckDue
  <2>2. m \in Manager /\ m.init = mgr[s].init /\ m.status = mgr[s].status
    BY <2>1, ReadByType
  <2>3. ASSUME NEW o \in Manager, o.init = mgr[s].init, o.status = mgr[s].status,
               NEW st \in Statuses, st = "active" \/ st = mgr[s].status, NEW new,
               Checked(s, o, out, st, new)
        PROVE  MailInv'
    <3> DEFINE y == [o EXCEPT !.status = IF out = "ok" THEN st ELSE @]
    <3>1. Concluded(s, y)  BY <2>3 DEF Checked
    <3>2. y \in Manager /\ y.init = mgr[s].init
          /\ (y.status = mgr[s].status \/ y.status # "unknown")
      BY <2>3 DEF Manager, Statuses
    <3> HIDE DEF y
    <3> QED  BY <2>1, <3>1, <3>2, ConcludedMail
  <2>4. ASSUME NEW y \in {[mgr[s] EXCEPT !.db = "down"], [mgr[s] EXCEPT !.status = "error"]},
               Concluded(s, y)
        PROVE  MailInv'
    <3>1. y \in Manager /\ y.init = mgr[s].init
          /\ (y.status = mgr[s].status \/ y.status # "unknown")
      BY <1>1 DEF Manager, Statuses
    <3> QED  BY <2>1, <2>4, <3>1, ConcludedMail
  <2>5. ASSUME NEW a \in Actives, Watches(s, out, a) PROVE MailInv'
    <3> DEFINE o == Observed(m, rows[a].lastaccess)
    <3>1. rows[a].lastaccess \in Nat
      BY DEF Actives, Present, MailInv, TypeInv, TypeOK, Node
    <3> HIDE DEF m
    <3>2. o \in Manager /\ o.init = mgr[s].init /\ o.status = mgr[s].status
      BY <2>2, <3>1, ObservedType DEF Observed, Manager
    <3>3. \E st \in {"active", mgr[s].status} : \E new : Checked(s, o, out, st, new)
      BY <2>2, <2>5 DEF Watches, m
    <3>4. mgr[s].status \in Statuses /\ "active" \in Statuses
      BY <1>1 DEF Manager, Statuses
    <3> HIDE DEF o
    <3> QED  BY <2>3, <3>2, <3>3, <3>4
  <2>6. mgr[s].status \in Statuses /\ "active" \in Statuses
    BY <1>1 DEF Manager, Statuses
  <2>7. \/ Concluded(s, [mgr[s] EXCEPT !.db = "down"])
        \/ Concluded(s, [mgr[s] EXCEPT !.status = "error"])
        \/ \E new : Checked(s, m, out, m.status, new)
        \/ \E new : Checked(s, m, out, "active", new)
        \/ \E a \in Actives : Watches(s, out, a)
    BY <1>13, CheckCases
  <2> HIDE DEF m
  <2> QED  BY <2>2, <2>3, <2>4, <2>5, <2>6, <2>7
<1> QED
  BY <1>3, <1>4, <1>5, <1>6, <1>7, <1>8, <1>9, <1>10, <1>11, <1>12, <1>13 DEF Manage

LEMMA NewMail ==
    ASSUME NEW p \in MainProcess, p.pc = "run", p.status = "standby", p.inbox = <<>>
    PROVE  Mail(p, NewManager("standby"))
<1> DEFINE x == NewManager("standby")
<1>1. x.pc = "run" /\ x.init = FALSE /\ x.status = "standby"  BY DEF NewManager
<1>2. AllBeats(<<>>)  BY DEF AllBeats
<1> HIDE DEF x
<1>3. Follows(p, x)  BY <1>1, <1>2 DEF Follows
<1> QED  BY <1>1, <1>3 DEF Mail, x

\* What the main loop makes of a state p that follows the manager.
LEMMA LoopMail ==
    ASSUME MailInv, TypeInv', UNCHANGED setup, NEW s \in Servers, NEW p \in MainProcess,
           p.pc = "run", Mail(p, mgr[s]), Loop(s, p)
    PROVE  MailInv'
<1>1. ASSUME NEW x \in MainProcess, main' = [main EXCEPT ![s] = x],
             \/ mgr' = mgr /\ Mail(x, mgr[s])
             \/ mgr' = [mgr EXCEPT ![s] = NewManager("standby")] /\ x.pc = "run"
                /\ x.status = "standby" /\ x.inbox = <<>>
      PROVE  MailInv'
  <2>1. main'[s] = x /\ \A t \in Servers \ {s} : main'[t] = main[t] /\ mgr'[t] = mgr[t]
    BY <1>1, MailFacts
  <2>2. Mail(x, mgr'[s])
    <3>1. mgr' = [mgr EXCEPT ![s] = NewManager("standby")] => mgr'[s] = NewManager("standby")
      BY MailFacts
    <3> QED  BY <1>1, <3>1, NewMail
  <2> QED  BY <2>1, <2>2, MailStep
<1>2. ASSUME NEW q \in MainProcess, NEW old \in Statuses, Restart(s, q, old) PROVE MailInv'
  <2> DEFINE x == [q EXCEPT !.pc = "run", !.status = "standby", !.old = old, !.inbox = <<>>]
  <2>1. <<>> \in Seq(Message)  BY EmptySeq
  <2>2. x \in MainProcess /\ x.pc = "run" /\ x.status = "standby" /\ x.inbox = <<>>
    BY <2>1 DEF MainProcess, Statuses
  <2>3. main' = [main EXCEPT ![s] = x] /\ mgr' = [mgr EXCEPT ![s] = NewManager("standby")]
    BY <1>2 DEF Restart
  <2> HIDE DEF x
  <2> QED  BY <1>1, <2>2, <2>3
<1>3. CASE Restart(s, [p EXCEPT !.hb = 0], IF p.status = "active" THEN "standby" ELSE p.old)
  <2>1. [p EXCEPT !.hb = 0] \in MainProcess  BY DEF MainProcess
  <2>2. (IF p.status = "active" THEN "standby" ELSE p.old) \in Statuses
    BY DEF MainProcess, Statuses
  <2> QED  BY <1>2, <1>3, <2>1, <2>2
<1>4. CASE Restart(s, p, "standby")  BY <1>2, <1>4 DEF Statuses
<1>5. CASE /\ main' = [main EXCEPT ![s] = [p EXCEPT !.pc = "starting", !.old = "active"]]
           /\ UNCHANGED mgr
  <2> DEFINE x == [p EXCEPT !.pc = "starting", !.old = "active"]
  <2>1. /\ x \in MainProcess /\ x.pc = "starting" /\ x.status = p.status
        /\ x.inbox = p.inbox
    BY DEF MainProcess, Statuses
  <2>2. main' = [main EXCEPT ![s] = x] /\ mgr' = mgr  BY <1>5
  <2> HIDE DEF x
  <2>3. Follows(p, mgr[s]) => Follows(x, mgr[s])  BY <2>1 DEF Follows
  <2>4. Mail(x, mgr[s])  BY <2>1, <2>3 DEF Mail
  <2> QED  BY <1>1, <2>1, <2>2, <2>4
<1>6. CASE main' = [main EXCEPT ![s] = p] /\ UNCHANGED mgr
  BY <1>1, <1>6
<1> QED  BY <1>3, <1>4, <1>5, <1>6 DEF Loop

LEMMA LeadMail ==
    ASSUME MailInv, TypeInv', UNCHANGED setup, NEW s \in Servers, Lead(s)
    PROVE  MailInv'
<1>1. /\ main[s] \in MainProcess /\ mgr[s] \in Manager /\ main[s].inbox \in Seq(Message)
      /\ Mail(main[s], mgr[s])
  BY MailFacts
<1>2. ASSUME NEW x, NEW y, main' = [main EXCEPT ![s] = x], mgr' = [mgr EXCEPT ![s] = y],
             Mail(x, y)
      PROVE  MailInv'
  <2>1. /\ mgr'[s] = y /\ main'[s] = x
        /\ \A t \in Servers \ {s} : main'[t] = main[t] /\ mgr'[t] = mgr[t]
    BY <1>2, MailFacts
  <2> QED  BY <1>2, <2>1, MailStep
<1>3. ASSUME NEW x, main' = [main EXCEPT ![s] = x], mgr' = mgr, Mail(x, mgr[s])
      PROVE  MailInv'
  <2>1. mgr' = [mgr EXCEPT ![s] = mgr[s]]  BY <1>3, MailFacts
  <2> QED  BY <1>2, <1>3, <2>1
<1>4. CASE Stopping(s) /\ ~(mgr[s].init /\ mgr[s].pc # "off")
  <2> DEFINE x == [main[s] EXCEPT !.pc = "stopping", !.inbox = <<>>]
  <2>1. x.pc = "stopping"  BY <1>1 DEF MainProcess
  <2>2. main' = [main EXCEPT ![s] = x] /\ mgr' = mgr  BY <1>4 DEF Stopping
  <2> HIDE DEF x
  <2>3. Mail(x, mgr[s])  BY <1>1, <1>4, <2>1 DEF Mail
  <2> QED  BY <1>3, <2>2, <2>3
<1>5. CASE Start(s)
  <2> DEFINE x == [Off EXCEPT !.pc = "boot", !.session = sessions + 1]
             y == NewManager("unknown")
  <2>1. mgr' = [mgr EXCEPT ![s] = y] /\ main' = [main EXCEPT ![s] = x]  BY <1>5 DEF Start
  <2>2. x.pc = "boot" /\ x.inbox = <<>> /\ y.pc = "create"  BY DEF Off, NewManager
  <2>3. AllBeats(<<>>)  BY DEF AllBeats
  <2> HIDE DEF x, y
  <2>4. Mail(x, y)  BY <2>2, <2>3 DEF Mail, Follows
  <2> QED  BY <1>2, <2>1, <2>4
<1>6. CASE Crash(s)
  <2> DEFINE y == [NewManager("unknown") EXCEPT !.pc = "off"]
  <2>1. mgr' = [mgr EXCEPT ![s] = y] /\ main' = [main EXCEPT ![s] = Off]  BY <1>6 DEF Crash
  <2>2. Off.pc = "off" /\ y.pc = "off"  BY DEF Off, NewManager
  <2> HIDE DEF y
  <2>3. Mail(Off, y)  BY <2>2 DEF Mail
  <2> QED  BY <1>2, <2>1, <2>3
<1>7. CASE Stop(s)
  <2>1. Stopping(s) /\ main[s].pc # "boot"  BY <1>7 DEF Stop
  <2> QED  BY <1>1, <1>4, <2>1 DEF Mail
<1>8. CASE Timeout(s)
  <2>1. Loop(s, main[s]) /\ main[s].pc = "run"  BY <1>8 DEF Timeout
  <2> QED  BY <1>1, <2>1, LoopMail
<1>9. CASE Receive(s)
  <2> DEFINE box == main[s].inbox
             msg == Head(box)
             p == [main[s] EXCEPT !.inbox = Tail(@)]
             hb == IF msg = Heartbeat \/ msg.status # p.status THEN now ELSE p.hb
  <2>1. /\ main[s].pc = "run" /\ box # <<>>
        /\ \/ Stopping(s)
           \/ msg = Heartbeat /\ Loop(s, [p EXCEPT !.hb = hb])
           \/ /\ msg # Heartbeat
              /\ Loop(s, [p EXCEPT !.status = msg.status, !.delay = msg.delay, !.hb = hb])
    BY <1>9 DEF Receive
  <2>2. msg \in Message /\ Tail(box) \in Seq(Message)
    BY <1>1, <2>1, HeadTailProperties
  <2>3. /\ p \in MainProcess /\ p.pc = "run" /\ p.status = main[s].status
        /\ p.inbox = Tail(box)
    BY <1>1, <2>1, <2>2 DEF MainProcess
  <2>4. Follows(main[s], mgr[s]) /\ ~(mgr[s].init /\ mgr[s].pc # "off")
        /\ (mgr[s].pc = "paused" => mgr[s].status = "error")
    BY <1>1, <2>1 DEF Mail
  <2>5. \/ msg = Heartbeat /\ AllBeats(Tail(box)) /\ main[s].status = mgr[s].status
        \/ Latest(Tail(box), mgr[s].status)
        \/ msg # Heartbeat /\ msg.status = mgr[s].status /\ AllBeats(Tail(box))
    BY <1>1, <2>1, <2>4, TailFollows DEF Follows
  <2>6. hb \in Nat
    <3>1. now \in Nat /\ p.hb \in Nat
      BY <2>3 DEF MainProcess, MailInv, TypeInv, TypeOK
    <3> HIDE DEF p, msg
    <3> QED  BY <3>1
  <2> HIDE DEF msg, p, hb
  <2>7. CASE Stopping(s)  BY <1>4, <2>4, <2>7
  <2>8. CASE msg = Heartbeat /\ Loop(s, [p EXCEPT !.hb = hb])
    <3> DEFINE q == [p EXCEPT !.hb = hb]
    <3>1. q \in MainProcess /\ q.pc = "run" /\ q.status = p.status /\ q.inbox = p.inbox
      BY <2>3, <2>6 DEF MainProcess
    <3> HIDE DEF q
    <3>2. Follows(q, mgr[s])  BY <2>3, <2>5, <2>8, <3>1 DEF Follows
    <3>3. Mail(q, mgr[s])  BY <1>1, <2>4, <3>1, <3>2 DEF Mail
    <3> QED  BY <2>8, <3>1, <3>3, LoopMail DEF q
  <2>9. CASE /\ msg # Heartbeat
             /\ Loop(s, [p EXCEPT !.status = msg.status, !.delay = msg.delay, !.hb = hb])
    <3> DEFINE q == [p EXCEPT !.status = msg.status, !.delay = msg.delay, !.hb = hb]
    <3>1. msg.status \in Statuses /\ msg.delay \in Delays  BY <2>2, <2>9 DEF Message
    <3>2. q \in MainProcess /\ q.pc = "run" /\ q.status = msg.status /\ q.inbox = p.inbox
      BY <2>3, <2>6, <3>1 DEF MainProcess
    <3> HIDE DEF q
    <3>3. Follows(q, mgr[s])  BY <2>3, <2>5, <2>9, <3>2 DEF Follows
    <3>4. Mail(q, mgr[s])  BY <1>1, <2>4, <3>2, <3>3 DEF Mail
    <3> QED  BY <2>9, <3>2, <3>4, LoopMail DEF q
  <2> QED  BY <2>1, <2>7, <2>8, <2>9
<1>10. ASSUME NEW a, Boot(s, a) PROVE MailInv'
  <2> DEFINE x == [main[s] EXCEPT !.pc = IF a.status = "active" THEN "starting" ELSE "run",
                                  !.status = a.status, !.old = a.status, !.delay = a.delay]
  <2>1. /\ main[s].pc = "boot" /\ a = StatusAnswer(s) /\ Answers(s)
        /\ \/ Stopping(s)
           \/ main' = [main EXCEPT ![s] = x] /\ mgr' = mgr
    BY <1>10 DEF Boot, MailInv
  <2>2. a.status = mgr[s].status  BY <2>1 DEF StatusAnswer
  <2>3. /\ x.pc \in {"starting", "run"} /\ x.status = a.status
        /\ x.inbox = main[s].inbox
    BY <1>1 DEF MainProcess
  <2> HIDE DEF x
  <2>4. Follows(x, mgr[s])  BY <1>1, <2>1, <2>2, <2>3 DEF Mail, Follows
  <2>5. ~(mgr[s].init /\ mgr[s].pc # "off")  BY <1>1, <2>1 DEF Answers, Mail
  <2>6. Mail(x, mgr[s])  BY <1>1, <2>1, <2>3, <2>4, <2>5 DEF Mail
  <2> QED  BY <1>3, <1>4, <2>1, <2>5, <2>6
<1>11. ASSUME NEW a, Started(s, a) PROVE MailInv'
  <2> DEFINE p == [main[s] EXCEPT !.delay = a.delay]
             x == [p EXCEPT !.pc = "run", !.hb = now, !.status = "active", !.old = "active"]
             y == [p EXCEPT !.pc = "run", !.status = "standby", !.old = "standby", !.inbox = <<>>]
  <2>1. /\ main[s].pc = "starting" /\ a = StatusAnswer(s) /\ Answers(s)
        /\ \/ Stopping(s)
           \/ main' = [main EXCEPT ![s] = y] /\ mgr' = [mgr EXCEPT ![s] = NewManager("standby")]
           \/ a.status = "active" /\ main' = [main EXCEPT ![s] = x] /\ mgr' = mgr
    BY <1>11 DEF Started, Restart, MailInv
  <2>2. a.status = mgr[s].status /\ a.delay \in Delays
    BY <1>1, <2>1 DEF StatusAnswer, Manager
  <2>3. p \in MainProcess /\ p.inbox = main[s].inbox  BY <1>1, <2>2 DEF MainProcess
  <2>4. <<>> \in Seq(Message) /\ now \in Nat  BY EmptySeq DEF MailInv, TypeInv, TypeOK
  <2> HIDE DEF p
  <2>5. /\ y \in MainProcess /\ y.pc = "run" /\ y.status = "standby" /\ y.inbox = <<>>
        /\ x.pc = "run" /\ x.status = "active" /\ x.inbox = main[s].inbox
    BY <2>3, <2>4 DEF MainProcess, Statuses
  <2> HIDE DEF x, y
  <2>6. ~(mgr[s].init /\ mgr[s].pc # "off")  BY <1>1, <2>1 DEF Answers, Mail
  <2>7. a.status = "active" => Follows(x, mgr[s])
    BY <1>1, <2>1, <2>2, <2>5 DEF Mail, Follows
  <2>8. a.status = "active" => Mail(x, mgr[s])
    BY <1>1, <2>1, <2>5, <2>6, <2>7 DEF Mail
  <2>9. Mail(y, NewManager("standby"))  BY <2>5, NewMail
  <2> QED  BY <1>2, <1>3, <1>4, <2>1, <2>6, <2>8, <2>9
<1> QED  BY <1>5, <1>6, <1>7, <1>8, <1>9, <1>10, <1>11 DEF Lead

LEMMA MailNext == MailInv /\ [Next]_vars => MailInv'
<1> SUFFICES ASSUME MailInv, [Next]_vars PROVE MailInv'
  OBVIOUS
<1>1. TypeInv'  BY TypeNext DEF MailInv
<1>2. CASE Advance /\ UNCHANGED setup
  <2>1. ASSUME NEW s \in Servers PROVE Mail(main'[s], mgr'[s])
    <3>1. mgr'[s] = After(s) /\ main'[s] = main[s]  BY <1>2 DEF Advance, After
    <3>2. /\ After(s).pc = mgr[s].pc /\ After(s).init = mgr[s].init
          /\ After(s).status = mgr[s].status
      BY MailFacts DEF After, Manager
    <3> QED  BY <3>1, <3>2, MailFacts DEF Mail, Follows
  <2> QED  BY <1>1, <1>2, <2>1 DEF MailInv, Faults
<1>3. CASE UNCHANGED <<setup, mgr, main>>
  BY <1>1, <1>3 DEF MailInv, Faults
<1> QED  BY <1>1, <1>2, <1>3, ManageMail, LeadMail DEF Next, Horizon, vars

\* Without a main process that gives up waiting for its first status, the status
\* a manager has reaches its main process: when no message waits, an active
\* manager's server acts.  Delays that change, slow starts, restarts of the
\* manager and lost transactions are all allowed.
THEOREM StatusReaches == Spec => []StatusAgrees
<1>1. Init /\ "hang" \notin Faults => MailInv
  <2> SUFFICES ASSUME Init, "hang" \notin Faults PROVE MailInv
    OBVIOUS
  <2>1. TypeInv  BY TypeInit
  <2>2. ASSUME NEW s \in Servers PROVE Mail(main[s], mgr[s])
    <3>1. mgr[s] = [NewManager("unknown") EXCEPT !.pc = "off"] /\ main[s] = Off
      BY DEF Init
    <3>2. mgr[s].pc = "off" /\ main[s].pc = "off"  BY <3>1 DEF NewManager, Off
    <3> QED  BY <3>2 DEF Mail
  <2> QED  BY <2>1, <2>2 DEF MailInv
<1>2. MailInv => StatusAgrees
  <2> SUFFICES ASSUME MailInv, NEW s \in Servers, mgr[s].status = "active",
                      main[s].pc = "run", main[s].inbox = <<>>
               PROVE  main[s].status = "active"
    BY DEF StatusAgrees
  <2>1. ~Latest(<<>>, "active")  BY DEF Latest
  <2> QED  BY <2>1, MailFacts DEF Mail, Follows
<1> DEFINE Inv == "hang" \in Faults \/ MailInv
<1>3. Init => Inv
  BY <1>1
<1>4. Inv /\ [Next]_vars => Inv'
  <2>1. "hang" \in Faults /\ [Next]_vars => ("hang" \in Faults)'
    BY DEF Next, vars, Faults
  <2> QED  BY <2>1, MailNext
<1>5. Inv => StatusAgrees
  BY <1>2 DEF StatusAgrees
<1> QED  BY <1>3, <1>4, <1>5, PTL DEF Spec
=============================================================================
