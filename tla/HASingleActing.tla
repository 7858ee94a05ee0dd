-------------------------- MODULE HASingleActing --------------------------
(* Theorems about HAManager: a cluster of differently named nodes never has  *)
(* two servers at work, whatever their number, the poll period and the       *)
(* failover delay.  The argument is about time: a server at work has updated *)
(* its row so recently that no other node may take it over, and its main     *)
(* process stands down before that ends.                                     *)
EXTENDS HAManagerProofs

\* the setups that the theorems cover: cluster nodes with names of their own.
\* A manager that is kept waiting while its server shuts down is not covered.
Covered ==
    /\ \A s \in Servers : Name[s] # ""
    /\ \A s, t \in Servers : Name[s] = Name[t] => s = t
    /\ Faults \subseteq {"down", "fail", "slow", "crash", "stop"}
    /\ ~({"slow", "stop"} \subseteq Faults)

----------------------------------------------------------------------------
(* The inductive invariant. *)

\* the ids of the rows are sessions, and every manager knows the id of its row
Owns(r, m) == m.id # 0 => r.status # "none" /\ r.id = m.id /\ m.delay = Delay

IdInv ==
    /\ settings = Delay
    /\ \A s, t \in Servers : s # t /\ main[s].session = main[t].session => main[s].session = 0
    /\ \A s \in Servers : main[s].session <= sessions
    /\ \A n \in Names : rows[n].status # "none" => rows[n].id <= sessions
    /\ \A n, k \in Names : /\ rows[n].status # "none" /\ rows[k].status # "none"
                           /\ rows[n].id = rows[k].id
                           => n = k
    /\ \A s \in Servers, n \in Names :
          rows[n].status # "none" /\ rows[n].id = main[s].session => n = Name[s]
    /\ \A s \in Servers : Owns(rows[Name[s]], mgr[s])

OneActive ==
    \A n, k \in Names : rows[n].status = "active" /\ rows[k].status = "active" => n = k

\* the messages that may wait: one status update and one heartbeat
Shape(box, u) == box \in {<<>>, <<Heartbeat>>, <<u>>, <<u, Heartbeat>>}

\* a second's messages are read within the second
Box(p, m) ==
    /\ Shape(p.inbox, StatusUpdate(m))
    /\ m.pc = "run" /\ ~m.ticked => p.inbox = <<>>
    /\ m.pc \in {"create", "register"} => p.inbox = <<>>
    /\ p.pc \in {"off", "stopping"} => p.inbox = <<>>
    /\ m.pc \in {"off", "create", "register"} => m.status = "unknown"
    /\ m.pc # "removing"
    /\ p.status # "error"
    /\ p.pc = "stopping" /\ m.pc # "paused" => "stop" \in Faults

\* no statement of a shutdown can miss its effect
Undisturbed == "down" \notin Faults /\ "fail" \notin Faults

\* the server is at work, or about to be, or shuts down as the active one
Leading(p, m) ==
    \/ /\ p.pc \in {"boot", "run", "starting"}
       /\ m.status = "active" \/ p.pc = "starting" \/ (p.pc = "run" /\ p.status = "active")
    \/ /\ p.pc = "stopping" /\ m.status = "active"
       /\ m.pc = "run" \/ Undisturbed

\* the server is about to note a sign of life of its manager, at most a poll
\* period old
Fresh(p) ==
    \/ p.pc \in {"boot", "starting"}
    \/ p.pc = "run" /\ p.inbox # <<>> /\ Head(p.inbox).status # "error"

\* such a server owns its row r, which at time t is too young to be taken over
Leads(p, m, r, t) ==
    LET last == r.lastaccess
    IN  /\ r.status = "active" /\ r.session = p.session /\ r.id = m.id
        /\ t < last + Delay
        /\ Fresh(p) => t < last + Poll
        /\ p.pc = "run" /\ p.status = "active" =>
              0 < p.hb /\ p.hb < last + Poll /\ p.delay = Delay
        /\ m.pc = "run" /\ m.db = "ok" /\ m.ticked => t + m.wait <= last + Poll
        /\ m.pc = "run" /\ m.db = "ok" /\ ~m.ticked /\ m.wait > 1
              => t + m.wait <= last + Poll + 1
        /\ m.pc = "paused" /\ m.status = "active" => t + m.wait < last + 2 * Poll
        /\ m.status = "active" /\ "down" \notin Faults => m.db = "ok"
        /\ m.status \in {"active", "error"}

LeadInv == \A s \in Servers : Leading(main[s], mgr[s]) => Leads(main[s], mgr[s], rows[Name[s]], now)

ActInv ==
    /\ TimeInv /\ MailInv /\ Covered /\ IdInv /\ OneActive
    /\ \A s \in Servers : Box(main[s], mgr[s])
    /\ LeadInv

----------------------------------------------------------------------------
(* Facts and steps. *)

LEMMA CoveredFacts ==
    ASSUME Covered
    PROVE  /\ Prompt /\ "hang" \notin Faults
           /\ Outcomes \subseteq {"ok", "down", "fail"}
           /\ "down" \in Outcomes => "down" \in Faults
           /\ "fail" \in Outcomes => "fail" \in Faults
           /\ \A s \in Servers : Cluster(s)
           /\ \A n \in Names : n # ""
BY DEF Covered, Prompt, Outcomes, Cluster, Names

LEMMA ActFacts ==
    ASSUME ActInv, NEW s \in Servers
    PROVE  /\ TimeInv /\ MailInv /\ Covered /\ IdInv /\ OneActive /\ TypeInv
           /\ Box(main[s], mgr[s])
           /\ Leading(main[s], mgr[s]) => Leads(main[s], mgr[s], rows[Name[s]], now)
           /\ Owns(rows[Name[s]], mgr[s])
           /\ mgr[s] \in Manager /\ mgr[s] \in Sane /\ main[s] \in MainProcess
           /\ main[s].inbox \in Seq(Message)
           /\ mgr \in [Servers -> Sane] /\ main \in [Servers -> MainProcess]
           /\ Name[s] \in Names /\ rows[Name[s]] \in Node /\ rows \in Rows
           /\ rows[Name[s]].lastaccess \in Nat
           /\ now \in Nat /\ now >= 1 /\ settings = Delay /\ Delay \in Nat /\ Delay \in Delays
           /\ Delay >= 2 * Poll /\ sessions \in Nat
<1>1. TypeInv /\ TimeInv /\ MailInv /\ IdInv  BY DEF ActInv, TimeInv
<1>2. rows[Name[s]].lastaccess \in Nat  BY <1>1, TypeFacts DEF Node
<1>3. settings = Delay /\ Delay \in Nat /\ Delay \in Delays /\ Delay >= 2 * Poll
  BY <1>1, TypeFacts, Periods DEF IdInv
<1>4. now >= 1  BY <1>1 DEF TimeInv
<1> QED  BY <1>1, <1>2, <1>3, <1>4, TypeFacts, MailFacts DEF ActInv, LeadInv, IdInv

\* What a step of server s may do to the rows: mark others as unavailable,
\* update its own, or add it.
RowStep(s) ==
    /\ \A n \in Names \ {Name[s]} :
          \/ rows'[n] = rows[n]
          \/ /\ rows[n].status \in {"active", "standby"} /\ rows'[n].status = "unavailable"
             /\ rows'[n].id = rows[n].id
    /\ LET r == rows[Name[s]]  q == rows'[Name[s]]
       IN  \/ q = r
           \/ r.status # "none" /\ q.status # "none" /\ q.id = r.id
           \/ r.status = "none" /\ q.status = "stopped" /\ q.id = main[s].session

\* the session of a server changes only when it ends or starts
SessionStep(s) ==
    \/ sessions' = sessions /\ main'[s].session \in {main[s].session, 0}
    \/ sessions' = sessions + 1 /\ main'[s].session = sessions + 1 /\ rows' = rows

LEMMA IdStep ==
    ASSUME ActInv, UNCHANGED setup, settings' = settings, NEW s \in Servers,
           \A t \in Servers \ {s} : mgr'[t] = mgr[t] /\ main'[t] = main[t],
           RowStep(s), SessionStep(s), Owns(rows'[Name[s]], mgr'[s]), TypeInv',
           rows'[Name[s]] = rows[Name[s]] \/ main[s].session # 0
    PROVE  IdInv'
<1>1. IdInv /\ TypeInv /\ Covered /\ Past(rows) /\ Name[s] \in Names /\ sessions \in Nat
  BY ActFacts DEF TimeInv
<1>2. Names' = Names /\ Name' = Name /\ Delay' = Delay
  BY DEF Names, Name, Delay
<1>3. \A t \in Servers : main[t].session \in Nat /\ main[t].session <= sessions
  BY <1>1 DEF IdInv, TypeInv, TypeOK, MainProcess
<1>4. \A n \in Names : /\ rows[n].id \in Nat
                       /\ rows[n].status # "none" => rows[n].id <= sessions /\ rows[n].id # 0
  BY <1>1 DEF IdInv, TypeInv, TypeOK, Node, Past
<1>5. \A t \in Servers \ {s} : Name[t] # Name[s] /\ Name[t] \in Names
  BY <1>1 DEF Covered, Names
\* the ids of the rows that are there
<1>6. ASSUME NEW n \in Names, rows'[n].status # "none"
      PROVE  \/ rows[n].status # "none" /\ rows'[n].id = rows[n].id
             \/ /\ n = Name[s] /\ rows[n].status = "none" /\ rows'[n].id = main[s].session
                /\ main[s].session # 0
  BY <1>6 DEF RowStep
<1>7. settings' = Delay'  BY <1>1, <1>2 DEF IdInv
<1>8. \A t \in Servers : main'[t].session <= sessions'
  BY <1>1, <1>3 DEF SessionStep
<1>9. \A a, b \in Servers :
         a # b /\ main'[a].session = main'[b].session => main'[a].session = 0
  <2> SUFFICES ASSUME NEW a \in Servers, NEW b \in Servers, a # b,
                      main'[a].session = main'[b].session
               PROVE  main'[a].session = 0
    OBVIOUS
  <2>1. CASE a # s /\ b # s
    BY <1>1, <2>1 DEF IdInv
  <2>2. CASE sessions' = sessions /\ main'[s].session \in {main[s].session, 0}
    BY <1>1, <2>1, <2>2 DEF IdInv
  <2>3. CASE main'[s].session = sessions + 1
    BY <1>1, <1>3, <2>1, <2>3
  <2> QED  BY <2>1, <2>2, <2>3 DEF SessionStep
<1>10. \A n \in Names : rows'[n].status # "none" => rows'[n].id <= sessions'
  <2> TAKE n \in Names
  <2> HAVE rows'[n].status # "none"
  <2>1. rows'[n].id <= sessions /\ rows'[n].id \in Nat  BY <1>3, <1>4, <1>6
  <2> QED  BY <1>1, <2>1 DEF SessionStep
<1>11. \A n, k \in Names : /\ rows'[n].status # "none" /\ rows'[k].status # "none"
                           /\ rows'[n].id = rows'[k].id
                           => n = k
  BY <1>1, <1>6 DEF IdInv
<1>12. \A t \in Servers, n \in Names :
          rows'[n].status # "none" /\ rows'[n].id = main'[t].session => n = Name[t]
  <2> SUFFICES ASSUME NEW t \in Servers, NEW n \in Names, rows'[n].status # "none",
                      rows'[n].id = main'[t].session
               PROVE  n = Name[t]
    OBVIOUS
  <2>1. CASE t # s
    BY <1>1, <1>6, <2>1 DEF IdInv
  <2>2. CASE t = s /\ main'[s].session \in {main[s].session, 0}
    BY <1>1, <1>4, <1>6, <2>2 DEF IdInv
  <2>3. CASE t = s /\ main'[s].session = sessions + 1 /\ rows' = rows
    BY <1>1, <1>4, <2>3
  <2> QED  BY <2>1, <2>2, <2>3 DEF SessionStep
<1>13. ASSUME NEW t \in Servers PROVE Owns(rows'[Name[t]], mgr'[t])
  <2>1. CASE t = s  BY <2>1
  <2>2. CASE t # s
    <3>1. Owns(rows[Name[t]], mgr[t])  BY <1>1 DEF IdInv
    <3>2. \/ rows'[Name[t]] = rows[Name[t]]
          \/ /\ rows[Name[t]].status # "none" /\ rows'[Name[t]].status # "none"
             /\ rows'[Name[t]].id = rows[Name[t]].id
      BY <1>5, <2>2 DEF RowStep
    <3> QED  BY <2>2, <3>1, <3>2 DEF Owns
  <2> QED  BY <2>1, <2>2
<1> QED  BY <1>2, <1>7, <1>8, <1>9, <1>10, <1>11, <1>12, <1>13 DEF IdInv, Owns

\* What a step of server s must show.
LEMMA ActStep ==
    ASSUME ActInv, TimeInv', MailInv', UNCHANGED setup, NEW s \in Servers,
           now' = now, settings' = settings, Waited(rows'),
           \A t \in Servers \ {s} : mgr'[t] = mgr[t] /\ main'[t] = main[t],
           RowStep(s), SessionStep(s), Owns(rows'[Name[s]], mgr'[s]),
           rows'[Name[s]] = rows[Name[s]] \/ main[s].session # 0,
           rows'[Name[s]].status = "active"
              => \/ rows[Name[s]].status = "active"
                 \/ \A n \in Names \ {Name[s]} : rows'[n].status # "active",
           Box(main'[s], mgr'[s]),
           Leading(main'[s], mgr'[s]) => Leads(main'[s], mgr'[s], rows'[Name[s]], now)
    PROVE  ActInv'
<1>1. Names' = Names /\ Name' = Name /\ Delay' = Delay /\ Faults' = Faults
  BY DEF Names, Name, Delay, Faults
<1>2. TypeInv'  BY DEF TimeInv
<1>3. IdInv'  BY <1>2, IdStep
<1>4. Covered /\ Covered'  BY <1>1, ActFacts DEF Covered
<1>5. OneActive'
  <2>1. \A n, k \in Names : rows'[n].status = "active" /\ rows'[k].status = "active" => n = k
    BY ActFacts DEF RowStep, OneActive
  <2> QED  BY <1>1, <2>1 DEF OneActive
<1>6. ASSUME NEW t \in Servers
      PROVE  /\ Box(main'[t], mgr'[t])
             /\ Leading(main'[t], mgr'[t]) => Leads(main'[t], mgr'[t], rows'[Name[t]], now)
  <2>1. CASE t = s  BY <2>1
  <2>2. CASE t # s
    <3>1. Name[t] # Name[s] /\ Name[t] \in Names  BY <1>4, <2>2 DEF Covered, Names
    <3>2. mgr'[t] = mgr[t] /\ main'[t] = main[t]  BY <2>2
    <3>3. ASSUME Leading(main[t], mgr[t])
          PROVE  rows'[Name[t]] = rows[Name[t]]
      <4>1. Leads(main[t], mgr[t], rows[Name[t]], now)  BY <3>3, ActFacts
      <4>2. now < rows[Name[t]].lastaccess + settings  BY <4>1, ActFacts DEF Leads
      <4>3. rows[Name[t]].lastaccess \in Nat /\ now \in Nat /\ settings \in Nat
        BY ActFacts
      <4> QED  BY <3>1, <4>2, <4>3 DEF RowStep, Waited
    <3> QED  BY <3>2, <3>3, ActFacts
  <2> QED  BY <2>1, <2>2
<1>7. /\ \A t \in Servers : Box(main[t], mgr[t])'
      /\ LeadInv'
  BY <1>1, <1>6 DEF LeadInv, Box, Leading, Leads, Fresh, Undisturbed
<1> QED  BY <1>3, <1>4, <1>5, <1>7 DEF ActInv

\* A step of s that leaves the rows alone.
LEMMA QuietStep ==
    ASSUME ActInv, TimeInv', MailInv', UNCHANGED setup, NEW s \in Servers,
           now' = now, settings' = settings, rows' = rows, SessionStep(s),
           \A t \in Servers \ {s} : mgr'[t] = mgr[t] /\ main'[t] = main[t],
           Owns(rows[Name[s]], mgr'[s]), Box(main'[s], mgr'[s]),
           Leading(main'[s], mgr'[s]) => Leads(main'[s], mgr'[s], rows[Name[s]], now)
    PROVE  ActInv'
<1>1. RowStep(s)  BY DEF RowStep
<1>2. Waited(rows')  BY SameRows, ActFacts
<1> QED  BY <1>1, <1>2, ActStep

LEMMA Singles ==
    \A x, y : /\ Head(<<x>>) = x /\ Head(<<x, y>>) = x
              /\ Tail(<<x>>) = <<>> /\ Tail(<<x, y>>) = <<y>>
              /\ <<x>> # <<>> /\ <<x, y>> # <<>> /\ <<>> \o <<>> = <<>>
              /\ <<>> \o <<x>> = <<x>> /\ <<>> \o <<x, y>> = <<x, y>>
<1> TAKE x, y
<1> DEFINE S == {x, y}
<1>1. <<x>> \in Seq(S) /\ <<y>> \in Seq(S) /\ <<x, y>> \in Seq(S) /\ <<>> \in Seq(S)
  OBVIOUS
<1>2. /\ <<>> \o <<>> = <<>> /\ <<>> \o <<x>> = <<x>> /\ <<>> \o <<x, y>> = <<x, y>>
  BY <1>1, ConcatEmptySeq
<1>3. Head(<<x>>) = x /\ Head(<<x, y>>) = x /\ <<x>> # <<>> /\ <<x, y>> # <<>>
  OBVIOUS
<1>4. Tail(<<x>>) = <<>>
  <2> DEFINE a == Tail(<<x>>)
  <2>1. a \in Seq(S) /\ Len(a) = 0  BY <1>1, <1>3
  <2> HIDE DEF a
  <2> QED  BY <2>1, EmptySeq DEF a
<1>5. Tail(<<x, y>>) = <<y>>
  <2> DEFINE a == Tail(<<x, y>>)  b == <<y>>
  <2>1. a \in Seq(S) /\ Len(a) = 1 /\ a[1] = y  BY <1>1, <1>3
  <2>2. b \in Seq(S) /\ Len(b) = 1 /\ b[1] = y  BY <1>1
  <2> HIDE DEF a, b
  <2>3. \A i \in 1..Len(a) : a[i] = b[i]  BY <2>1, <2>2
  <2> QED  BY <2>1, <2>2, <2>3, SeqEqual DEF a, b
<1> QED  BY <1>2, <1>3, <1>4, <1>5

LEMMA Updates ==
    ASSUME NEW m \in Manager
    PROVE  /\ StatusUpdate(m) # Heartbeat /\ StatusUpdate(m).status = m.status
           /\ StatusUpdate(m).delay = m.delay /\ m.status \in Statuses
           /\ Heartbeat.status # "error"
BY DEF StatusUpdate, Heartbeat, Manager, Statuses

\* What a registration or a check that leaves the manager as m sends to a main
\* process whose queue is empty.
LEMMA ConcludedBox ==
    ASSUME ActInv, NEW s \in Servers, NEW m \in Manager, Concluded(s, m),
           main[s].inbox = <<>>
    PROVE  LET box == main'[s].inbox  u == StatusUpdate(mgr'[s]) IN
           /\ Shape(box, u)
           /\ m.init \/ main[s].pc = "stopping" => box = <<>>
           /\ m.status = mgr[s].status => box \in {<<>>, Heartbeats(m)} \/ m.status = "error"
           /\ m.status = "error" => box \in {<<>>, <<u>>}
<1> DEFINE told == IF m.status # mgr[s].status /\ m.status # "unknown"
                   THEN <<StatusUpdate(m)>> ELSE <<>>
           beat == IF m.status = "error" THEN <<>> ELSE Heartbeats(m)
           u == StatusUpdate(m)
<1>1. mgr \in [Servers -> Sane] /\ main \in [Servers -> MainProcess] /\ m.init \in BOOLEAN
  BY ActFacts DEF Manager
<1>2. mgr'[s].status = m.status /\ mgr'[s].delay = m.delay
  BY <1>1, ConcludedKeeps
<1>3. StatusUpdate(mgr'[s]) = u  BY <1>2 DEF StatusUpdate
<1>4. CASE m.init \/ main[s].pc = "stopping"
  <2>1. m.init => main' = main  BY DEF Concluded
  <2>2. main[s].pc = "stopping" => main'[s].inbox = main[s].inbox
    <3>1. main' = main \/ \E msgs : Send(s, msgs)  BY DEF Concluded
    <3> QED  BY <1>1, <3>1, SendKeeps
  <2>3. main'[s].inbox = <<>>  BY <1>4, <2>1, <2>2
  <2> QED  BY <1>3, <2>3 DEF Shape
<1>5. CASE ~m.init /\ main[s].pc # "stopping"
  <2>1. Send(s, told \o beat)  BY <1>5 DEF Concluded
  <2>2. main'[s].inbox = Queued(<<>>, told \o beat)
    BY <1>1, <1>5, <2>1, SendKeeps
  <2>3. beat \in {<<>>, <<Heartbeat>>} /\ (m.status # "error" => beat = Heartbeats(m))
    BY DEF Heartbeats
  <2>4. told \in {<<>>, <<u>>} /\ (m.status = mgr[s].status => told = <<>>)
    OBVIOUS
  <2>5. m.status = "error" => beat = <<>>
    OBVIOUS
  <2> HIDE DEF told, beat, u
  <2>6. told \o beat \in {<<>>, <<Heartbeat>>, <<u>>, <<u, Heartbeat>>}
        /\ (told = <<>> => told \o beat = beat)
        /\ (beat = <<>> => told \o beat = told)
    BY <2>3, <2>4, Pair, Singles, ZenonT(60)
  <2>7. Queued(<<>>, told \o beat) = told \o beat
    <3>1. Queued(<<>>, told \o beat) = <<>> \o (told \o beat)  BY DEF Queued
    <3> QED  BY <2>6, <3>1, Singles
  <2>8. main'[s].inbox = told \o beat  BY <2>2, <2>7
  <2> QED  BY <1>3, <1>5, <2>3, <2>4, <2>5, <2>6, <2>8 DEF Shape
<1> QED  BY <1>4, <1>5

\* A registration or check after which the manager is active, its row new: the
\* server leads.
LEMMA FreshLead ==
    ASSUME ActInv, NEW s \in Servers, NEW m \in Manager, Concluded(s, m), m.status = "active",
           m.db = "ok", main[s].inbox = <<>>, NEW r, r.status = "active", r.id = m.id,
           r.session = main[s].session, r.lastaccess = now,
           main[s].pc = "run" /\ main[s].status = "active"
              => 0 < main[s].hb /\ main[s].hb < now + Poll /\ main[s].delay = Delay
    PROVE  Leads(main'[s], mgr'[s], r, now)
<1>1. mgr \in [Servers -> Sane] /\ main \in [Servers -> MainProcess] /\ m.init \in BOOLEAN
  BY ActFacts DEF Manager
<1>2. /\ main'[s].pc = main[s].pc /\ main'[s].session = main[s].session
      /\ main'[s].status = main[s].status /\ main'[s].hb = main[s].hb
      /\ main'[s].delay = main[s].delay
      /\ mgr'[s].pc = (IF m.status = "error" THEN "paused" ELSE "run")
      /\ mgr'[s].db = m.db /\ mgr'[s].id = m.id
      /\ mgr'[s].status = m.status /\ mgr'[s].ticked = ~m.init
      /\ mgr'[s].wait = (IF m.init THEN FirstCheck(m.status)
                         ELSE IF m.db = "ok" THEN Poll ELSE 1)
  BY <1>1, ConcludedKeeps
<1>3. FirstCheck("active") = Poll  BY DEF FirstCheck
<1>4. /\ mgr'[s].wait = Poll /\ mgr'[s].pc = "run" /\ mgr'[s].db = "ok"
      /\ mgr'[s].status = "active"
  BY <1>2, <1>3
<1>5. now \in Nat /\ Delay \in Nat /\ Delay >= 2 * Poll /\ Poll \in Nat /\ Poll >= 1
  BY ActFacts, Periods
<1> QED  BY <1>2, <1>4, <1>5 DEF Leads

----------------------------------------------------------------------------
(* The steps of a manager that leave the rows alone. *)

LEMMA TickActs ==
    ASSUME ActInv, TimeInv', MailInv', UNCHANGED setup, NEW s \in Servers, Tick(s)
    PROVE  ActInv'
<1> DEFINE x == [mgr[s] EXCEPT !.wait = @ - 1, !.ticked = TRUE]
           m == mgr[s]  p == main[s]  q == main'[s]
<1>1. /\ m.pc = "run" /\ ~m.ticked /\ m.wait > 1 /\ Send(s, Heartbeats(m))
      /\ mgr' = [mgr EXCEPT ![s] = x]
      /\ now' = now /\ settings' = settings /\ rows' = rows /\ sessions' = sessions
  BY DEF Tick
<1>2. /\ x.pc = "run" /\ x.ticked = TRUE /\ x.wait = m.wait - 1 /\ m.wait \in Nat
      /\ x.status = m.status /\ x.db = m.db /\ x.id = m.id /\ x.delay = m.delay
  BY <1>1, ActFacts DEF Manager
<1> HIDE DEF x
<1>3. mgr'[s] = x /\ \A t \in Servers \ {s} : mgr'[t] = mgr[t]  BY <1>1, ActFacts
<1>4. p.inbox = <<>>  BY <1>1, ActFacts DEF Box
<1>5. /\ \A t \in Servers \ {s} : main'[t] = main[t]
      /\ q.pc = p.pc /\ q.session = p.session /\ q.status = p.status /\ q.hb = p.hb
      /\ q.delay = p.delay
      /\ q.inbox = IF p.pc = "stopping" THEN p.inbox ELSE Queued(p.inbox, Heartbeats(m))
  BY <1>1, SendKeeps, ActFacts
<1>6. q.inbox = IF p.pc = "stopping" THEN <<>> ELSE Heartbeats(m)
  <2>1. Queued(<<>>, Heartbeats(m)) = Heartbeats(m)
    BY Singles DEF Queued, Heartbeats
  <2> QED  BY <1>4, <1>5, <2>1
<1>7. p.pc = "off" => FALSE  BY <1>1, ActFacts, TimeFacts DEF Running
<1>8. Box(q, x)
  <2>1. Shape(q.inbox, StatusUpdate(x))  BY <1>6 DEF Shape, Heartbeats
  <2> QED  BY <1>1, <1>2, <1>5, <1>6, <1>7, <2>1, ActFacts DEF Box
<1>9. Owns(rows[Name[s]], x)  BY <1>2, ActFacts DEF Owns
<1>10. SessionStep(s)  BY <1>1, <1>5 DEF SessionStep
<1>11. ASSUME Leading(q, x) PROVE Leads(q, x, rows[Name[s]], now)
  <2>1. Leading(p, m)  BY <1>1, <1>2, <1>5, <1>11 DEF Leading
  <2>2. Leads(p, m, rows[Name[s]], now)  BY <2>1, ActFacts
  <2>3. /\ now \in Nat /\ Poll \in Nat /\ rows[Name[s]].lastaccess \in Nat
    BY ActFacts, Periods
  <2>4. m.status = "active"  BY <1>1, <2>2, ActFacts DEF Leads, Sane
  <2>5. m.db = "ok" => now + m.wait <= rows[Name[s]].lastaccess + Poll + 1
    BY <1>1, <2>2 DEF Leads
  <2>6. Fresh(q) => now < rows[Name[s]].lastaccess + Poll
    <3>1. CASE q.pc \in {"boot", "starting"}
      BY <1>5, <2>2, <3>1 DEF Leads, Fresh
    <3>2. CASE q.inbox # <<>>
      <4>1. m.db = "ok"  BY <1>6, <2>4, <3>2 DEF Heartbeats
      <4> QED  BY <1>1, <1>2, <2>3, <2>5, <4>1
    <3> QED  BY <3>1, <3>2 DEF Fresh
  <2>7. x.db = "ok" => now + x.wait <= rows[Name[s]].lastaccess + Poll
    BY <1>2, <2>3, <2>5
  <2> QED  BY <1>2, <1>5, <2>2, <2>6, <2>7 DEF Leads
<1> HIDE DEF q
<1> QED  BY <1>1, <1>3, <1>5, <1>8, <1>9, <1>10, <1>11, QuietStep DEF q

LEMMA RetryActs ==
    ASSUME ActInv, TimeInv', MailInv', UNCHANGED setup, NEW s \in Servers, RetryRegister(s)
    PROVE  ActInv'
<1> DEFINE x == [mgr[s] EXCEPT !.pc = "create", !.ticked = TRUE]
           m == mgr[s]  p == main[s]
<1>1. /\ m.pc = "run" /\ ~m.ticked /\ m.status = "unknown"
      /\ mgr' = [mgr EXCEPT ![s] = x] /\ main' = main
      /\ now' = now /\ settings' = settings /\ rows' = rows /\ sessions' = sessions
  BY DEF RetryRegister, CheckDue
<1>2. /\ x.pc = "create" /\ x.status = m.status /\ x.id = m.id /\ x.delay = m.delay
  BY ActFacts DEF Manager
<1> HIDE DEF x
<1>3. /\ mgr'[s] = x /\ \A t \in Servers \ {s} : mgr'[t] = mgr[t] /\ main'[t] = main[t]
      /\ main'[s] = p
  BY <1>1, ActFacts
<1>4. p.inbox = <<>>  BY <1>1, ActFacts DEF Box
<1>5. Box(p, x)  BY <1>1, <1>2, <1>4, ActFacts DEF Box, Shape
<1>6. Owns(rows[Name[s]], x)  BY <1>2, ActFacts DEF Owns
<1>7. SessionStep(s)  BY <1>1 DEF SessionStep
<1>8. ~Leading(p, m)  BY <1>1, ActFacts DEF Leads
<1>9. ~Leading(p, x)  BY <1>1, <1>2, <1>8 DEF Leading
<1> QED  BY <1>1, <1>3, <1>5, <1>6, <1>7, <1>9, QuietStep

LEMMA PauseActs ==
    ASSUME ActInv, TimeInv', MailInv', UNCHANGED setup, NEW s \in Servers, Pause(s)
    PROVE  ActInv'
<1> DEFINE x == [mgr[s] EXCEPT !.pc = "paused", !.wait = Poll]
           m == mgr[s]  p == main[s]
<1>1. /\ p.pc = "stopping" /\ m.pc = "run" /\ (m.ticked \/ m.wait > 1)
      /\ mgr' = [mgr EXCEPT ![s] = x] /\ main' = main
      /\ now' = now /\ settings' = settings /\ rows' = rows /\ sessions' = sessions
  <2>1. m.wait \in Nat /\ m.ticked \in BOOLEAN  BY ActFacts DEF Manager
  <2>2. m.ticked \/ m.wait > 1  BY <2>1 DEF Pause, CheckDue
  <2>3. mgr' = [mgr EXCEPT ![s] = x] /\ p.pc = "stopping" /\ m.pc = "run"  BY DEF Pause
  <2> QED  BY <2>2, <2>3 DEF Pause
<1>2. /\ x.pc = "paused" /\ x.status = m.status /\ x.id = m.id /\ x.delay = m.delay
      /\ x.wait = Poll /\ x.db = m.db
  BY ActFacts DEF Manager
<1> HIDE DEF x
<1>3. /\ mgr'[s] = x /\ \A t \in Servers \ {s} : mgr'[t] = mgr[t] /\ main'[t] = main[t]
      /\ main'[s] = p
  BY <1>1, ActFacts
<1>4. p.inbox = <<>>  BY <1>1, ActFacts DEF Box
<1>5. Box(p, x)  BY <1>1, <1>2, <1>4, ActFacts DEF Box, Shape
<1>6. Owns(rows[Name[s]], x)  BY <1>2, ActFacts DEF Owns
<1>7. SessionStep(s)  BY <1>1 DEF SessionStep
<1>8. ASSUME Leading(p, x) PROVE Leads(p, x, rows[Name[s]], now)
  <2>1. m.status = "active" /\ Undisturbed  BY <1>1, <1>2, <1>8 DEF Leading
  <2>2. Leads(p, m, rows[Name[s]], now)  BY <1>1, <2>1, ActFacts DEF Leading
  <2>3. /\ now \in Nat /\ Poll \in Nat /\ rows[Name[s]].lastaccess \in Nat /\ m.wait \in Nat
    BY ActFacts, Periods DEF Manager
  <2>4. m.wait >= 1  BY <1>1, ActFacts, TimeFacts DEF Counts
  <2>5. now < rows[Name[s]].lastaccess + Poll
    <3>1. m.db = "ok"  BY <2>1, <2>2 DEF Leads, Undisturbed
    <3>2. CASE m.ticked
      <4>1. now + m.wait <= rows[Name[s]].lastaccess + Poll
        BY <1>1, <2>2, <3>1, <3>2 DEF Leads
      <4> QED  BY <2>3, <2>4, <4>1
    <3>3. CASE ~m.ticked
      <4>1. now + m.wait <= rows[Name[s]].lastaccess + Poll + 1 /\ m.wait > 1
        BY <1>1, <2>2, <3>1, <3>3 DEF Leads
      <4> QED  BY <2>3, <4>1
    <3> QED  BY <3>2, <3>3
  <2>6. now + x.wait < rows[Name[s]].lastaccess + 2 * Poll
    BY <1>2, <2>3, <2>5
  <2> QED  BY <1>1, <1>2, <2>2, <2>6 DEF Leads, Fresh
<1> QED  BY <1>1, <1>3, <1>5, <1>6, <1>7, <1>8, QuietStep

----------------------------------------------------------------------------
(* The steps of a manager that change its row. *)

\* A registration or a check sends its messages to a main process that has read
\* all earlier ones.
LEMMA ConcludedBoxed ==
    ASSUME ActInv, NEW s \in Servers, NEW m \in Manager, Concluded(s, m),
           mgr[s].pc \in {"create", "register", "run"},
           mgr[s].pc = "run" => ~mgr[s].ticked
    PROVE  main[s].inbox = <<>> /\ Box(main'[s], mgr'[s])
<1>1. main[s].inbox = <<>>  BY ActFacts DEF Box
<1>2. mgr \in [Servers -> Sane] /\ main \in [Servers -> MainProcess] /\ m.init \in BOOLEAN
  BY ActFacts DEF Manager
<1>3. /\ main'[s].pc = main[s].pc /\ main'[s].status = main[s].status
      /\ mgr'[s].pc = (IF m.status = "error" THEN "paused" ELSE "run")
      /\ mgr'[s].ticked = ~m.init
  BY <1>2, ConcludedKeeps
<1>4. /\ Shape(main'[s].inbox, StatusUpdate(mgr'[s]))
      /\ m.init \/ main[s].pc = "stopping" => main'[s].inbox = <<>>
  BY <1>1, ConcludedBox
<1>5. main[s].pc # "off"  BY ActFacts, TimeFacts DEF Running
<1>6. mgr'[s].pc = "run" /\ ~mgr'[s].ticked => main'[s].inbox = <<>>
  BY <1>2, <1>3, <1>4
<1> QED  BY <1>1, <1>3, <1>4, <1>5, <1>6, ActFacts DEF Box

\* A server that does not lead cannot lead while its manager is not active.
LEMMA NotLeading ==
    ASSUME NEW p, NEW m, NEW q, NEW x, ~Leading(p, m),
           q.pc = p.pc, q.status = p.status, x.status # "active"
    PROVE  ~Leading(q, x)
BY DEF Leading

LEMMA CreateNodeActs ==
    ASSUME ActInv, TimeInv', MailInv', Waited(rows'), UNCHANGED setup, NEW s \in Servers,
           NEW out \in Outcomes, CreateNode(s, out)
    PROVE  ActInv'
<1> DEFINE m == [mgr[s] EXCEPT !.db = DbStatus(out),
                               !.delay = IF out = "down" THEN @ ELSE settings]
           new == [status |-> "stopped", id |-> main[s].session, session |-> 0,
                   lastaccess |-> now]
           e == [m EXCEPT !.status = "error"]
           x == [m EXCEPT !.pc = "register",
                          !.id = IF out = "ok" THEN rows'[Name[s]].id ELSE @]
           found == Name[s] \in Present
           error == out = "fail" \/ (out # "down" /\ ~found /\ Conflict(s, m.delay))
<1>1. /\ mgr[s].pc = "create" /\ now' = now /\ settings' = settings /\ sessions' = sessions
      /\ rows' = IF found \/ error THEN rows
                 ELSE Applied(out, [rows EXCEPT ![Name[s]] = new])
      /\ \/ error /\ Concluded(s, e)
         \/ ~error /\ out # "ok" /\ m.id = 0 /\ Concluded(s, m)
         \/ /\ ~error /\ (out = "ok" \/ m.id # 0)
            /\ mgr' = [mgr EXCEPT ![s] = x] /\ main' = main
  BY DEF CreateNode
<1>2. out \in {"ok", "down", "fail"}  BY ActFacts, CoveredFacts
<1>3. mgr[s].status = "unknown" /\ main[s].inbox = <<>>  BY <1>1, ActFacts DEF Box
<1>4. ~Leading(main[s], mgr[s])  BY <1>3, ActFacts DEF Leads
<1>5. main[s].session # 0  BY <1>1, ActFacts, TimeFacts DEF Running
<1>6. m \in Manager /\ e \in Manager
  BY ActFacts, ZenonT(60) DEF Manager, DbStatus, Statuses
<1>7. /\ m.status = "unknown" /\ m.id = mgr[s].id
      /\ m.delay = (IF out = "down" THEN mgr[s].delay ELSE settings)
      /\ e.status = "error" /\ e.id = m.id /\ e.delay = m.delay
  BY <1>3, ActFacts DEF Manager
<1>8. Owns(rows[Name[s]], m) /\ Owns(rows[Name[s]], e)
  BY <1>7, ActFacts DEF Owns
<1>9. /\ x.pc = "register" /\ x.status = m.status /\ x.delay = m.delay
      /\ x.id = IF out = "ok" THEN rows'[Name[s]].id ELSE m.id
  <2> HIDE DEF m
  <2> QED  BY <1>6 DEF Manager
<1>10. ~error => out # "fail"  OBVIOUS
<1>11. found <=> rows[Name[s]].status # "none"  BY ActFacts DEF Present
<1>12. error => rows' = rows  BY <1>1
<1> HIDE DEF m, e, x, found, error
<1>13. \/ rows' = rows
       \/ ~found /\ ~error /\ out = "ok" /\ rows' = [rows EXCEPT ![Name[s]] = new]
  BY <1>1, <1>2 DEF Applied
<1>14. new.status = "stopped" /\ new.id = main[s].session  OBVIOUS
<1> HIDE DEF new
<1>15. ASSUME NEW c \in {m, e}, Concluded(s, c), rows' = rows
       PROVE  ActInv'
  <2>1. c \in Manager /\ c.status # "active" /\ Owns(rows[Name[s]], c)
    BY <1>6, <1>7, <1>8
  <2>2. /\ \A t \in Servers \ {s} : mgr'[t] = mgr[t] /\ main'[t] = main[t]
        /\ main'[s].pc = main[s].pc /\ main'[s].status = main[s].status
        /\ main'[s].session = main[s].session
        /\ mgr'[s].status = c.status /\ mgr'[s].id = c.id /\ mgr'[s].delay = c.delay
    BY <1>15, <2>1, ConcludedKeeps, ActFacts, ZenonT(60)
  <2>3. Box(main'[s], mgr'[s])  BY <1>1, <1>15, <2>1, ConcludedBoxed
  <2>4. Owns(rows[Name[s]], mgr'[s])  BY <2>1, <2>2 DEF Owns
  <2>5. ~Leading(main'[s], mgr'[s])  BY <1>4, <2>1, <2>2, NotLeading
  <2>6. SessionStep(s)  BY <1>1, <2>2 DEF SessionStep
  <2> QED  BY <1>1, <1>15, <2>2, <2>3, <2>4, <2>5, <2>6, QuietStep
<1>16. CASE error /\ Concluded(s, e)
  BY <1>12, <1>15, <1>16
<1>17. CASE ~error /\ out # "ok" /\ m.id = 0 /\ Concluded(s, m)
  BY <1>13, <1>15, <1>17
<1>18. CASE /\ ~error /\ (out = "ok" \/ m.id # 0)
            /\ mgr' = [mgr EXCEPT ![s] = x] /\ main' = main
  <2>1. mgr'[s] = x /\ \A t \in Servers \ {s} : mgr'[t] = mgr[t] /\ main'[t] = main[t]
    BY <1>18, ActFacts
  <2>2. main'[s] = main[s]  BY <1>18
  <2>3. Box(main[s], x)
    BY <1>1, <1>3, <1>7, <1>9, ActFacts DEF Box, Shape
  <2>4. ~Leading(main[s], x)  BY <1>4, <1>7, <1>9, NotLeading
  <2>5. SessionStep(s)  BY <1>1, <2>2 DEF SessionStep
  <2>6. RowStep(s)
    BY <1>11, <1>13, <1>14, ActFacts DEF RowStep, Rows
  <2>7. rows'[Name[s]].status = "active" => rows[Name[s]].status = "active"
    BY <1>13, <1>14, ActFacts DEF Rows
  <2>8. Owns(rows'[Name[s]], x)
    <3>1. CASE out = "ok"
      <4>1. x.id = rows'[Name[s]].id /\ x.delay = Delay  BY <1>7, <1>9, <3>1, ActFacts
      <4>2. rows'[Name[s]].status # "none"
        <5>1. CASE found
          <6>1. rows' = rows  BY <1>13, <5>1
          <6> QED  BY <1>11, <5>1, <6>1
        <5>2. CASE ~found
          <6>1. rows' = [rows EXCEPT ![Name[s]] = new]
            BY <1>1, <1>18, <3>1, <5>2 DEF Applied
          <6> QED  BY <1>14, <6>1, ActFacts DEF Rows
        <5> QED  BY <5>1, <5>2
      <4> QED  BY <4>1, <4>2 DEF Owns
    <3>2. CASE out # "ok"
      <4>1. rows' = rows  BY <1>13, <3>2
      <4> QED  BY <1>8, <1>9, <3>2, <4>1 DEF Owns
    <3> QED  BY <3>1, <3>2
  <2> QED  BY <1>1, <1>5, <2>1, <2>2, <2>3, <2>4, <2>5, <2>6, <2>7, <2>8, ActStep
<1> QED  BY <1>1, <1>16, <1>17, <1>18

\* What a registration makes of the rows: the node's own, and if it becomes the
\* active one no other is.
LEMMA RegisteredRows ==
    ASSUME ActInv, NEW s \in Servers, NEW id, NEW st \in {"active", "standby"},
           rows[Name[s]].status # "none", rows[Name[s]].id = id,
           st = "active" => Activate(s, Delay)
    PROVE  LET r == Registered(s, id, st, Delay)  n0 == Name[s] IN
           /\ r[n0].status = st /\ r[n0].id = id /\ r[n0].lastaccess = now
           /\ r[n0].session = main[s].session
           /\ \A n \in Names \ {n0} :
                 \/ r[n] = rows[n]
                 \/ /\ rows[n].status \in {"active", "standby"}
                    /\ r[n].status = "unavailable" /\ r[n].id = rows[n].id
           /\ st = "active" => \A n \in Names \ {n0} : r[n].status # "active"
<1> DEFINE n0 == Name[s]
           row == [rows[n0] EXCEPT !.status = st, !.lastaccess = now, !.session = main[s].session]
           u == Updated(rows, n0, id, row)
           r == Registered(s, id, st, Delay)
<1>1. rows \in [Names -> Node] /\ n0 \in Names /\ rows[n0] \in Node  BY ActFacts DEF Rows
<1>2. Cluster(s) /\ \A n \in Names : n # ""  BY ActFacts, CoveredFacts
<1>3. /\ row.status = st /\ row.id = id /\ row.lastaccess = now
      /\ row.session = main[s].session
  BY <1>1 DEF Node
<1> HIDE DEF row
<1>4. u = [rows EXCEPT ![n0] = row]  BY DEF Updated
<1>5. OwnKind(s, u) = u  BY <1>1, <1>2, <1>4 DEF OwnKind
<1>6. u[n0] = row /\ \A n \in Names \ {n0} : u[n] = rows[n]  BY <1>1, <1>4
<1>7. r = IF st = "active" THEN Unavailable(u, id, Delay) ELSE u
  BY <1>2, <1>5 DEF Registered, row, u
<1> HIDE DEF u, r
<1>8. CASE st = "standby"
  <2>1. r = u  BY <1>7, <1>8
  <2> QED  BY <1>3, <1>6, <1>8, <2>1 DEF r
<1>9. CASE st = "active"
  <2>1. r = Unavailable(u, id, Delay)  BY <1>7, <1>9
  <2>2. r[n0] = row  BY <1>1, <1>6, <2>1 DEF Unavailable
  <2>3. ASSUME NEW n \in Names \ {n0}
        PROVE  \/ r[n] = rows[n]
               \/ /\ rows[n].status \in {"active", "standby"}
                  /\ r[n].status = "unavailable" /\ r[n].id = rows[n].id
    BY <1>1, <1>6, <2>1 DEF Unavailable, Node
  <2>4. ASSUME NEW n \in Names \ {n0} PROVE r[n].status # "active"
    <3>1. CASE rows[n].status # "active"
      BY <2>3, <3>1
    <3>2. CASE rows[n].status = "active"
      <4>1. rows[n].lastaccess \in Nat /\ now \in Nat /\ Delay \in Nat
        BY <1>1, ActFacts DEF Node
      <4>2. n \in Present  BY <3>2 DEF Present
      <4>3. ~(rows[n].lastaccess + Delay > now)
        BY <1>2, <1>9, <3>2, <4>2 DEF Activate, InUse
      <4>4. now >= rows[n].lastaccess + Delay  BY <4>1, <4>3
      <4>5. rows[n].id # id  BY <1>1, <3>2, ActFacts DEF IdInv
      <4>6. u[n] = rows[n] /\ u[n].status # "none"  BY <1>6, <3>2
      <4>7. r[n] = [rows[n] EXCEPT !.status = "unavailable"]
        BY <2>1, <3>2, <4>4, <4>5, <4>6 DEF Unavailable
      <4> QED  BY <1>1, <4>7 DEF Node
    <3> QED  BY <3>1, <3>2
  <2> QED  BY <1>3, <1>9, <2>2, <2>3, <2>4 DEF r
<1> QED  BY <1>8, <1>9

LEMMA RegisterNodeActs ==
    ASSUME ActInv, TimeInv', MailInv', Waited(rows'), UNCHANGED setup, NEW s \in Servers,
           NEW out \in Outcomes, RegisterNode(s, out)
    PROVE  ActInv'
<1> DEFINE m == [mgr[s] EXCEPT !.db = DbStatus(out)]
           error == \/ out = "fail"
                    \/ out # "down" /\ (Conflict(s, m.delay) \/ Name[s] \notin Present)
           st == IF Activate(s, m.delay) THEN "active" ELSE "standby"
           x == [m EXCEPT !.status = IF error THEN "error" ELSE IF out = "ok" THEN st ELSE @]
<1>1. /\ mgr[s].pc = "register" /\ now' = now /\ settings' = settings /\ sessions' = sessions
      /\ rows' = IF error THEN rows ELSE Applied(out, Registered(s, m.id, st, m.delay))
      /\ Concluded(s, x)
  BY DEF RegisterNode
<1>2. out \in {"ok", "down", "fail"}  BY ActFacts, CoveredFacts
<1>3. mgr[s].status = "unknown"  BY <1>1, ActFacts DEF Box
<1>4. ~Leading(main[s], mgr[s])  BY <1>3, ActFacts DEF Leads
<1>5. main[s].session # 0 /\ main[s].pc # "off"  BY <1>1, ActFacts, TimeFacts DEF Running
<1>6. m \in Manager /\ m.status = "unknown" /\ m.id = mgr[s].id /\ m.delay = mgr[s].delay
      /\ m.db = DbStatus(out)
  BY <1>3, ActFacts DEF Manager, DbStatus
<1>7. mgr[s].id # 0  BY <1>1, ActFacts, TimeFacts DEF Knows
<1>8. m.id # 0 /\ rows[Name[s]].status # "none" /\ rows[Name[s]].id = m.id /\ m.delay = Delay
  BY <1>6, <1>7, ActFacts DEF Owns
<1>9. st \in {"active", "standby"} /\ (st = "active" => Activate(s, m.delay))  OBVIOUS
<1>10. error \in BOOLEAN /\ (out = "fail" => error)  OBVIOUS
<1> HIDE DEF m, error, st
<1>11. /\ x \in Manager /\ x.id = m.id /\ x.delay = m.delay /\ x.db = m.db
       /\ x.status = IF error THEN "error" ELSE IF out = "ok" THEN st ELSE "unknown"
  BY <1>6, <1>9, <1>10 DEF Manager, Statuses
<1> HIDE DEF x
<1>12. /\ \A t \in Servers \ {s} : mgr'[t] = mgr[t] /\ main'[t] = main[t]
       /\ main'[s].pc = main[s].pc /\ main'[s].status = main[s].status
       /\ main'[s].session = main[s].session
       /\ mgr'[s].status = x.status /\ mgr'[s].id = x.id /\ mgr'[s].delay = x.delay
  BY <1>1, <1>11, ConcludedKeeps, ActFacts
<1>13. Box(main'[s], mgr'[s]) /\ main[s].inbox = <<>>  BY <1>1, <1>11, ConcludedBoxed
<1>14. SessionStep(s)  BY <1>1, <1>12 DEF SessionStep
<1>15. CASE error \/ out # "ok"
  <2>1. rows' = rows  BY <1>1, <1>2, <1>10, <1>15 DEF Applied
  <2>2. x.status # "active"  BY <1>11, <1>15
  <2>3. ~Leading(main'[s], mgr'[s])  BY <1>4, <1>12, <2>2, NotLeading
  <2>4. Owns(rows[Name[s]], mgr'[s])  BY <1>8, <1>11, <1>12 DEF Owns
  <2> QED  BY <1>1, <1>12, <1>13, <1>14, <2>1, <2>3, <2>4, QuietStep
<1>16. CASE ~error /\ out = "ok"
  <2> DEFINE r == Registered(s, m.id, st, Delay)
  <2>1. rows' = r  BY <1>1, <1>8, <1>16 DEF Applied
  <2>2. /\ r[Name[s]].status = st /\ r[Name[s]].id = m.id /\ r[Name[s]].lastaccess = now
        /\ r[Name[s]].session = main[s].session
        /\ \A n \in Names \ {Name[s]} :
              \/ r[n] = rows[n]
              \/ /\ rows[n].status \in {"active", "standby"}
                 /\ r[n].status = "unavailable" /\ r[n].id = rows[n].id
        /\ st = "active" => \A n \in Names \ {Name[s]} : r[n].status # "active"
    BY <1>8, <1>9, RegisteredRows
  <2> HIDE DEF r
  <2>3. RowStep(s)  BY <1>8, <1>9, <2>1, <2>2 DEF RowStep
  <2>4. Owns(rows'[Name[s]], mgr'[s])  BY <1>8, <1>9, <1>11, <1>12, <2>1, <2>2 DEF Owns
  <2>5. rows'[Name[s]].status = "active"
           => \A n \in Names \ {Name[s]} : rows'[n].status # "active"
    BY <2>1, <2>2
  <2>6. x.status = st /\ x.db = "ok"  BY <1>6, <1>11, <1>16 DEF DbStatus
  <2>7. CASE st = "standby"
    <3>1. ~Leading(main'[s], mgr'[s])  BY <1>4, <1>12, <2>6, <2>7, NotLeading
    <3> QED
      BY <1>1, <1>5, <1>12, <1>13, <1>14, <2>3, <2>4, <2>5, <3>1, ActStep
  <2>8. CASE st = "active"
    <3>1. main[s].pc = "run" => main[s].status # "active"  BY <1>4 DEF Leading
    <3>2. Leads(main'[s], mgr'[s], r[Name[s]], now)
      BY <1>1, <1>11, <1>13, <2>2, <2>6, <2>8, <3>1, FreshLead
    <3> QED
      BY <1>1, <1>5, <1>12, <1>13, <1>14, <2>1, <2>3, <2>4, <2>5, <3>2, ActStep
  <2> QED  BY <1>9, <2>7, <2>8
<1> QED  BY <1>10, <1>15, <1>16

\* What a check leaves of the rows when the node keeps its row.
LEMMA KeptRows ==
    ASSUME ActInv, NEW s \in Servers, NEW m, NEW st,
           rows[Name[s]].status # "none", rows[Name[s]].id = m.id
    PROVE  LET r == Kept(s, m, st)  n0 == Name[s] IN
           /\ r \in [Names -> [status : {st} \cup NodeStatuses \cup {"none"}, id : Nat,
                               session : Nat, lastaccess : Nat]]
           /\ r[n0].status = st /\ r[n0].id = m.id /\ r[n0].lastaccess = now
           /\ r[n0].session = rows[n0].session
           /\ \A n \in Names \ {n0} : r[n] = rows[n]
<1> DEFINE n0 == Name[s]
           row == [rows[n0] EXCEPT !.status = st, !.lastaccess = now]
           Wide == [status : {st} \cup NodeStatuses \cup {"none"}, id : Nat,
                    session : Nat, lastaccess : Nat]
<1>1. rows \in [Names -> Node] /\ n0 \in Names /\ rows[n0] \in Node /\ now \in Nat
  BY ActFacts DEF Rows
<1>2. /\ row.status = st /\ row.id = m.id /\ row.lastaccess = now
      /\ row.session = rows[n0].session /\ row \in Wide
  BY <1>1 DEF Node
<1>3. \A n \in Names : rows[n] \in Wide  BY <1>1 DEF Node
<1> HIDE DEF row, Wide
<1>4. Kept(s, m, st) = [rows EXCEPT ![n0] = row]  BY DEF Kept, Updated, row
<1>5. Kept(s, m, st) \in [Names -> Wide]  BY <1>1, <1>2, <1>3, <1>4
<1> QED  BY <1>1, <1>2, <1>4, <1>5 DEF Wide

\* A check that succeeds: the node keeps its row as x, and becomes or stays the
\* active node only if no other is.
LEMMA CheckedActs ==
    ASSUME ActInv, TimeInv', MailInv', Waited(rows'), UNCHANGED setup, NEW s \in Servers,
           mgr[s].pc = "run", ~mgr[s].ticked, mgr[s].status # "unknown",
           now' = now, settings' = settings, sessions' = sessions,
           NEW x \in Manager, Concluded(s, x), x.db = "ok", x.delay = settings,
           x.id = rows[Name[s]].id, rows[Name[s]].status # "none",
           rows[Name[s]].session = main[s].session,
           x.status = "active" \/ (x.status = "standby" /\ mgr[s].status = "standby"),
           rows'[Name[s]].status = x.status, rows'[Name[s]].id = x.id,
           rows'[Name[s]].lastaccess = now,
           rows'[Name[s]].session = rows[Name[s]].session,
           \A n \in Names \ {Name[s]} :
              \/ rows'[n] = rows[n]
              \/ /\ rows[n].status \in {"active", "standby"}
                 /\ rows'[n].status = "unavailable" /\ rows'[n].id = rows[n].id,
           x.status = "active" => \/ mgr[s].status = "active"
                                  \/ rows[Name[s]].status = "active"
                                  \/ \A n \in Names \ {Name[s]} : rows'[n].status # "active"
    PROVE  ActInv'
<1> DEFINE p == main[s]  r == rows[Name[s]]
<1>1. /\ \A t \in Servers \ {s} : mgr'[t] = mgr[t] /\ main'[t] = main[t]
      /\ main'[s].pc = p.pc /\ main'[s].status = p.status /\ main'[s].session = p.session
      /\ mgr'[s].status = x.status /\ mgr'[s].id = x.id /\ mgr'[s].delay = x.delay
  BY ConcludedKeeps, ActFacts
<1>2. Box(main'[s], mgr'[s]) /\ p.inbox = <<>>  BY ConcludedBoxed
<1>3. SessionStep(s)  BY <1>1 DEF SessionStep
<1>4. p.session # 0 /\ p.pc # "off"  BY ActFacts, TimeFacts DEF Running
<1>5. RowStep(s)  BY DEF RowStep
<1>6. Owns(rows'[Name[s]], mgr'[s])  BY <1>1, ActFacts DEF Owns
<1>7. mgr[s].status = "active" => Leading(p, mgr[s])
  BY <1>4, ActFacts DEF Leading, MainProcess
<1>8. rows'[Name[s]].status = "active"
         => \/ r.status = "active"
            \/ \A n \in Names \ {Name[s]} : rows'[n].status # "active"
  BY <1>7, ActFacts DEF Leads
<1>9. ASSUME Leading(main'[s], mgr'[s])
      PROVE  Leads(main'[s], mgr'[s], rows'[Name[s]], now)
  <2>1. CASE x.status = "standby"
    <3>1. ~Leading(p, mgr[s])  BY <2>1, ActFacts DEF Leads
    <3> QED  BY <1>1, <1>9, <2>1, <3>1, NotLeading
  <2>2. CASE x.status = "active"
    <3>1. p.pc = "run" /\ p.status = "active"
             => 0 < p.hb /\ p.hb < now + Poll /\ p.delay = Delay
      <4> HAVE p.pc = "run" /\ p.status = "active"
      <4>1. Leads(p, mgr[s], r, now)  BY ActFacts DEF Leading
      <4>2. 0 < p.hb /\ p.hb < r.lastaccess + Poll /\ p.delay = Delay  BY <4>1 DEF Leads
      <4>3. r.lastaccess <= now  BY ActFacts DEF TimeInv, Past
      <4>4. r.lastaccess \in Nat /\ now \in Nat /\ Poll \in Nat /\ p.hb \in Nat
        BY ActFacts, Periods DEF MainProcess
      <4> QED  BY <4>2, <4>3, <4>4
    <3> QED  BY <1>2, <2>2, <3>1, FreshLead
  <2> QED  BY <2>1, <2>2
<1> QED  BY <1>1, <1>2, <1>3, <1>4, <1>5, <1>6, <1>8, <1>9, ActStep

\* A check that finds the database down, or fails.
LEMMA UncheckedActs ==
    ASSUME ActInv, TimeInv', MailInv', UNCHANGED setup, NEW s \in Servers,
           mgr[s].pc = "run", ~mgr[s].ticked, mgr[s].status # "unknown",
           now' = now, settings' = settings, sessions' = sessions, rows' = rows,
           NEW x \in Manager, Concluded(s, x), x.id = mgr[s].id, x.delay = mgr[s].delay,
           \/ x.status = "error"
           \/ x.status = mgr[s].status /\ x.db = "down" /\ "down" \in Faults
    PROVE  ActInv'
<1> DEFINE p == main[s]  m == mgr[s]  r == rows[Name[s]]  q == main'[s]  y == mgr'[s]
<1>1. /\ \A t \in Servers \ {s} : mgr'[t] = mgr[t] /\ main'[t] = main[t]
      /\ q.pc = p.pc /\ q.status = p.status /\ q.session = p.session
      /\ q.hb = p.hb /\ q.delay = p.delay
      /\ y.pc = (IF x.status = "error" THEN "paused" ELSE "run")
      /\ y.status = x.status /\ y.id = x.id /\ y.delay = x.delay /\ y.db = x.db
  BY ConcludedKeeps, ActFacts
<1>2. Box(q, y) /\ p.inbox = <<>>  BY ConcludedBoxed
<1>3. /\ x.status = m.status => q.inbox \in {<<>>, Heartbeats(x)} \/ x.status = "error"
      /\ x.status = "error" => q.inbox \in {<<>>, <<StatusUpdate(y)>>}
  BY <1>2, ConcludedBox
<1>4. SessionStep(s)  BY <1>1 DEF SessionStep
<1>5. Owns(r, y)  BY <1>1, ActFacts DEF Owns
<1>6. ASSUME Leading(q, y) PROVE Leads(q, y, r, now)
  <2>1. Leading(p, m)  BY <1>1, <1>6 DEF Leading
  <2>2. Leads(p, m, r, now)  BY <2>1, ActFacts
  <2>3. m.status = "active"  BY <2>2, ActFacts DEF Leads, Sane
  <2>4. Fresh(q) => Fresh(p)
    <3>1. CASE q.pc = "run" /\ q.inbox # <<>> /\ Head(q.inbox).status # "error"
      <4>1. CASE x.status = "error"
        <5>1. q.inbox = <<StatusUpdate(y)>>  BY <1>3, <3>1, <4>1
        <5>2. Head(q.inbox).status = "error"  BY <1>1, <4>1, <5>1, Singles DEF StatusUpdate
        <5> QED  BY <3>1, <5>2
      <4>2. CASE x.status # "error"
        <5>1. Heartbeats(x) = <<>>  BY <2>3, <4>2 DEF Heartbeats
        <5> QED  BY <1>3, <3>1, <4>2, <5>1
      <4> QED  BY <4>1, <4>2
    <3>2. CASE q.pc \in {"boot", "starting"}  BY <1>1, <3>2 DEF Fresh
    <3> QED  BY <3>1, <3>2 DEF Fresh
  <2>5. y.db = "down" \/ y.pc = "paused"  BY <1>1
  <2> HIDE DEF q, y
  <2> QED  BY <1>1, <2>2, <2>3, <2>4, <2>5 DEF Leads
<1> HIDE DEF q, y
<1> QED  BY <1>1, <1>2, <1>4, <1>5, <1>6, QuietStep DEF q, y

LEMMA CheckNodesActs ==
    ASSUME ActInv, TimeInv', MailInv', Waited(rows'), UNCHANGED setup, NEW s \in Servers,
           NEW out \in Outcomes, CheckNodes(s, out)
    PROVE  ActInv'
<1> DEFINE m == ReadBy(s, out)  n0 == Name[s]  r == rows[n0]
<1>1. /\ CheckDue(s) /\ mgr[s].status # "unknown"
      /\ now' = now /\ settings' = settings /\ sessions' = sessions
      /\ \/ /\ out = "down" /\ rows' = rows
            /\ Concluded(s, [mgr[s] EXCEPT !.db = "down"])
         \/ rows' = rows /\ Concluded(s, [mgr[s] EXCEPT !.status = "error"])
         \/ /\ out \notin {"down", "fail"} /\ Ownership(s)
            /\ \/ /\ ~Cluster(s)
                  /\ Checked(s, m, out, m.status, Kept(s, m, m.status))
               \/ /\ Cluster(s) /\ m.status = "active"
                  /\ Checked(s, m, out, "active",
                             Unavailable(Kept(s, m, "active"), m.id, m.delay))
               \/ /\ Cluster(s) /\ m.status # "active" /\ Actives = {}
                  /\ Checked(s, m, out, "active", Kept(s, m, "active"))
               \/ /\ Cluster(s) /\ m.status # "active"
                  /\ \E a \in Actives : /\ a # "" /\ rows[a].id = m.id
                                        /\ Checked(s, m, out, "active", Kept(s, m, "active"))
               \/ /\ Cluster(s) /\ m.status # "active"
                  /\ \E a \in Actives : a # "" /\ rows[a].id # m.id /\ Watches(s, out, a)
  BY CheckCases
<1>2. mgr[s].pc = "run" /\ ~mgr[s].ticked  BY <1>1 DEF CheckDue
<1>3. mgr[s].status \in {"active", "standby"}
  BY <1>1, <1>2, ActFacts DEF Sane, Manager, Statuses
<1>4. CASE /\ out = "down" /\ rows' = rows
           /\ Concluded(s, [mgr[s] EXCEPT !.db = "down"])
  <2> DEFINE x == [mgr[s] EXCEPT !.db = "down"]
  <2>1. /\ x \in Manager /\ x.id = mgr[s].id /\ x.delay = mgr[s].delay
        /\ x.status = mgr[s].status /\ x.db = "down"
    BY ActFacts DEF Manager
  <2>2. "down" \in Faults  BY <1>4, ActFacts, CoveredFacts
  <2>3. Concluded(s, x) /\ rows' = rows  BY <1>4
  <2> HIDE DEF x
  <2> QED  BY <1>1, <1>2, <2>1, <2>2, <2>3, UncheckedActs
<1>5. CASE rows' = rows /\ Concluded(s, [mgr[s] EXCEPT !.status = "error"])
  <2> DEFINE x == [mgr[s] EXCEPT !.status = "error"]
  <2>1. x \in Manager /\ x.id = mgr[s].id /\ x.delay = mgr[s].delay /\ x.status = "error"
    BY ActFacts DEF Manager, Statuses
  <2>2. Concluded(s, x) /\ rows' = rows  BY <1>5
  <2> HIDE DEF x
  <2> QED  BY <1>1, <1>2, <2>1, <2>2, UncheckedActs
<1>6. CASE /\ out \notin {"down", "fail"} /\ Ownership(s)
           /\ \/ /\ ~Cluster(s)
                 /\ Checked(s, m, out, m.status, Kept(s, m, m.status))
              \/ /\ Cluster(s) /\ m.status = "active"
                 /\ Checked(s, m, out, "active",
                            Unavailable(Kept(s, m, "active"), m.id, m.delay))
              \/ /\ Cluster(s) /\ m.status # "active" /\ Actives = {}
                 /\ Checked(s, m, out, "active", Kept(s, m, "active"))
              \/ /\ Cluster(s) /\ m.status # "active"
                 /\ \E a \in Actives : /\ a # "" /\ rows[a].id = m.id
                                       /\ Checked(s, m, out, "active", Kept(s, m, "active"))
              \/ /\ Cluster(s) /\ m.status # "active"
                 /\ \E a \in Actives : a # "" /\ rows[a].id # m.id /\ Watches(s, out, a)
  <2>1. out = "ok"  BY <1>6, ActFacts, CoveredFacts
  <2>2. r.status # "none" /\ r.session = main[s].session
    BY <1>6 DEF Ownership, Present
  <2>3. /\ m \in Manager /\ m.status = mgr[s].status /\ m.delay = settings /\ m.db = "ok"
        /\ m.id = r.id
    <3>1. /\ m \in Manager /\ m.status = mgr[s].status /\ m.delay = settings
          /\ m.db = DbStatus(out) /\ m.id = IF mgr[s].id = 0 THEN r.id ELSE mgr[s].id
      BY ReadByType, ActFacts
    <3>2. mgr[s].id # 0 => r.id = mgr[s].id  BY ActFacts DEF Owns
    <3> QED  BY <2>1, <3>1, <3>2 DEF DbStatus
  <2>4. Cluster(s)  BY ActFacts, CoveredFacts
  <2>5. \A st : LET k == Kept(s, m, st) IN
           /\ k \in [Names -> [status : {st} \cup NodeStatuses \cup {"none"}, id : Nat,
                               session : Nat, lastaccess : Nat]]
           /\ k[n0].status = st /\ k[n0].id = m.id /\ k[n0].lastaccess = now
           /\ k[n0].session = r.session
           /\ \A n \in Names \ {n0} : k[n] = rows[n]
    BY <2>2, <2>3, KeptRows
  <2> HIDE DEF m
  \* the manager after a check that found the status st and observed o
  <2>6. ASSUME NEW o \in Manager, NEW st \in {"active", "standby"}, NEW new,
               Checked(s, o, out, st, new)
        PROVE  \E x \in Manager : /\ Concluded(s, x) /\ rows' = new /\ x.status = st
                                  /\ x.id = o.id /\ x.delay = o.delay /\ x.db = o.db
    <3> DEFINE x == [o EXCEPT !.status = IF out = "ok" THEN st ELSE @]
    <3>1. /\ x \in Manager /\ x.status = st /\ x.id = o.id /\ x.delay = o.delay /\ x.db = o.db
      BY <2>1 DEF Manager, Statuses
    <3>2. Concluded(s, x) /\ rows' = new  BY <2>1, <2>6 DEF Checked, Applied
    <3> HIDE DEF x
    <3> QED  BY <3>1, <3>2
  <2>7. CASE m.status = "active" /\ Checked(s, m, out, "active",
                                           Unavailable(Kept(s, m, "active"), m.id, m.delay))
    <3> DEFINE k == Kept(s, m, "active")  new == Unavailable(k, m.id, m.delay)
    <3>1. PICK x \in Manager : /\ Concluded(s, x) /\ rows' = new /\ x.status = "active"
                               /\ x.id = m.id /\ x.delay = m.delay /\ x.db = m.db
      BY <2>3, <2>6, <2>7
    <3>2. new[n0] = k[n0]  BY <2>3, ActFacts DEF Unavailable
    <3>3. ASSUME NEW n \in Names \ {n0}
          PROVE  \/ new[n] = rows[n]
                 \/ /\ rows[n].status \in {"active", "standby"}
                    /\ new[n].status = "unavailable" /\ new[n].id = rows[n].id
      <4>1. k[n] = rows[n] /\ rows[n] \in Node  BY <2>5, ActFacts DEF Rows
      <4> HIDE DEF k
      <4> QED  BY <4>1 DEF Unavailable, Node
    <3>4. k[n0].status = "active" /\ k[n0].id = m.id /\ k[n0].lastaccess = now
          /\ k[n0].session = r.session
      BY <2>5
    <3> HIDE DEF k, new
    <3>5. /\ rows'[n0].status = x.status /\ rows'[n0].id = x.id
          /\ rows'[n0].lastaccess = now /\ rows'[n0].session = r.session
      BY <3>1, <3>2, <3>4
    <3>6. \A n \in Names \ {n0} :
             \/ rows'[n] = rows[n]
             \/ /\ rows[n].status \in {"active", "standby"}
                /\ rows'[n].status = "unavailable" /\ rows'[n].id = rows[n].id
      BY <3>1, <3>3
    <3>7. /\ x.db = "ok" /\ x.delay = settings /\ x.id = r.id /\ x.status = "active"
          /\ mgr[s].status = "active"
      BY <2>3, <2>7, <3>1
    <3> QED
      BY <1>1, <1>2, <2>2, <3>1, <3>5, <3>6, <3>7, CheckedActs
  <2>8. CASE /\ m.status # "active" /\ Checked(s, m, out, "active", Kept(s, m, "active"))
             /\ Actives = {} \/ \E a \in Actives : rows[a].id = m.id
    <3> DEFINE k == Kept(s, m, "active")
    <3>1. PICK x \in Manager : /\ Concluded(s, x) /\ rows' = k /\ x.status = "active"
                               /\ x.id = m.id /\ x.delay = m.delay /\ x.db = m.db
      BY <2>3, <2>6, <2>8
    <3>2. /\ k[n0].status = "active" /\ k[n0].id = m.id /\ k[n0].lastaccess = now
          /\ k[n0].session = r.session
          /\ \A n \in Names \ {n0} : k[n] = rows[n]
      BY <2>5
    <3> HIDE DEF k
    <3>3. r.status = "active" \/ \A n \in Names \ {n0} : rows'[n].status # "active"
      <4>1. CASE Actives = {}  BY <3>1, <3>2, <4>1 DEF Actives, Present
      <4>2. CASE \E a \in Actives : rows[a].id = m.id
        <5>1. PICK a \in Actives : rows[a].id = m.id  BY <4>2
        <5>2. a \in Names /\ rows[a].status = "active"  BY DEF Actives, Present
        <5>3. a = n0  BY <2>2, <2>3, <5>1, <5>2, ActFacts DEF IdInv
        <5> QED  BY <5>2, <5>3
      <4> QED  BY <2>8, <4>1, <4>2
    <3> QED
      BY <1>1, <1>2, <2>2, <2>3, <3>1, <3>2, <3>3, CheckedActs
  <2>9. ASSUME NEW a \in Actives, m.status # "active", rows[a].id # m.id, Watches(s, out, a)
        PROVE  ActInv'
    <3> DEFINE o == Observed(m, rows[a].lastaccess)
               k == Kept(s, m, "active")
               new == [k EXCEPT ![a].status = "unavailable"]
    <3>1. a \in Names /\ rows[a].status = "active" /\ rows[a] \in Node
      BY ActFacts DEF Actives, Present, Rows
    <3>2. o \in Manager /\ o.id = m.id /\ o.delay = m.delay /\ o.db = m.db
      <4>1. rows[a].lastaccess \in Nat  BY <3>1 DEF Node
      <4> QED  BY <2>3, <4>1, ObservedType DEF Observed, Manager
    <3>3. a # n0  BY <2>3, <2>9
    <3>4. m.status = "standby"  BY <1>3, <2>3, <2>9
    <3>5. IF TakeoverDue(o) THEN Checked(s, o, out, "active", new)
          ELSE Checked(s, o, out, "standby", Kept(s, m, "standby"))
      BY <2>9, <3>4 DEF Watches, m
    <3> HIDE DEF o
    <3>6. CASE Checked(s, o, out, "active", new)
      <4>1. PICK x \in Manager : /\ Concluded(s, x) /\ rows' = new /\ x.status = "active"
                                 /\ x.id = o.id /\ x.delay = o.delay /\ x.db = o.db
        BY <2>6, <3>2, <3>6
      <4>2. /\ k[n0].status = "active" /\ k[n0].id = m.id /\ k[n0].lastaccess = now
            /\ k[n0].session = r.session
            /\ \A n \in Names \ {n0} : k[n] = rows[n]
        BY <2>5
      <4>3. k \in [Names -> [status : {"active"} \cup NodeStatuses \cup {"none"}, id : Nat,
                             session : Nat, lastaccess : Nat]]
        BY <2>5
      <4> HIDE DEF k
      <4>4. /\ new[n0] = k[n0]
            /\ \A n \in Names \ {n0, a} : new[n] = k[n]
        BY <3>1, <3>3, <4>3, ActFacts
      <4>5. new[a].status = "unavailable" /\ new[a].id = k[a].id  BY <3>1, <4>3
      <4> HIDE DEF new
      <4>6. \A n \in Names \ {n0} : rows'[n].status # "active"
        <5>1. \A n \in Names \ {a} : rows[n].status # "active"
          BY <3>1, ActFacts DEF OneActive
        <5> QED  BY <4>1, <4>2, <4>4, <4>5, <5>1
      <4>7. \A n \in Names \ {n0} :
               \/ rows'[n] = rows[n]
               \/ /\ rows[n].status \in {"active", "standby"}
                  /\ rows'[n].status = "unavailable" /\ rows'[n].id = rows[n].id
        BY <3>1, <3>3, <4>1, <4>2, <4>4, <4>5
      <4>8. /\ rows'[n0].status = x.status /\ rows'[n0].id = x.id
            /\ rows'[n0].lastaccess = now /\ rows'[n0].session = r.session
        BY <3>2, <4>1, <4>2, <4>4
      <4>9. x.db = "ok" /\ x.delay = settings /\ x.id = r.id /\ x.status = "active"
        BY <2>3, <3>2, <4>1
      <4> QED
        BY <1>1, <1>2, <2>2, <4>1, <4>6, <4>7, <4>8, <4>9, CheckedActs
    <3>7. CASE Checked(s, o, out, "standby", Kept(s, m, "standby"))
      <4> DEFINE h == Kept(s, m, "standby")
      <4>1. PICK x \in Manager : /\ Concluded(s, x) /\ rows' = h /\ x.status = "standby"
                                 /\ x.id = o.id /\ x.delay = o.delay /\ x.db = o.db
        BY <2>6, <3>2, <3>7
      <4>2. /\ h[n0].status = "standby" /\ h[n0].id = m.id /\ h[n0].lastaccess = now
            /\ h[n0].session = r.session
            /\ \A n \in Names \ {n0} : h[n] = rows[n]
        BY <2>5
      <4> HIDE DEF h
      <4> QED
        BY <1>1, <1>2, <2>2, <2>3, <3>2, <3>4, <4>1, <4>2, CheckedActs
    <3> QED  BY <3>5, <3>6, <3>7
  <2> QED  BY <1>6, <2>4, <2>7, <2>8, <2>9
<1> QED  BY <1>1, <1>4, <1>5, <1>6

LEMMA UpdateLastaccessActs ==
    ASSUME ActInv, TimeInv', MailInv', Waited(rows'), UNCHANGED setup, NEW s \in Servers,
           NEW out \in Outcomes, UpdateLastaccess(s, out)
    PROVE  ActInv'
<1> DEFINE m == mgr[s]  p == main[s]  n0 == Name[s]  r == rows[n0]
           row == [r EXCEPT !.lastaccess = now]
           new == Updated(rows, n0, m.id, row)
<1>1. /\ m.pc = "paused" /\ m.status \in {"active", "standby"}
      /\ rows' = Applied(out, new) /\ main' = main
      /\ now' = now /\ settings' = settings /\ sessions' = sessions
  BY DEF UpdateLastaccess, Keeping
<1>0. PICK error \in {FALSE, out = "fail"} :
         mgr' = [mgr EXCEPT
                   ![s].ticked = TRUE, ![s].wait = Poll,
                   ![s].db = IF out = "fail" /\ ~error THEN "ok" ELSE DbStatus(out),
                   ![s].status = IF error THEN "error" ELSE @]
  BY DEF UpdateLastaccess
<1> DEFINE x == [m EXCEPT !.ticked = TRUE, !.wait = Poll,
                          !.db = IF out = "fail" /\ ~error THEN "ok" ELSE DbStatus(out),
                          !.status = IF error THEN "error" ELSE @]
<1>2. mgr' = [mgr EXCEPT ![s] = x]  BY <1>0
<1>3. out \in {"ok", "down", "fail"} /\ (Undisturbed => out = "ok")
  BY ActFacts, CoveredFacts DEF Undisturbed
<1>4. p.pc = "stopping"  BY <1>1, ActFacts, MailFacts DEF Mail
<1>5. p.inbox = <<>> /\ p.session # 0  BY <1>4, ActFacts, TimeFacts DEF Box, Running
<1>6. /\ x.pc = "paused" /\ x.id = m.id /\ x.delay = m.delay /\ x.wait = Poll
      /\ x.db = (IF out = "fail" /\ ~error THEN "ok" ELSE DbStatus(out))
      /\ x.status = (IF error THEN "error" ELSE m.status)
  BY <1>1, ActFacts DEF Manager
<1>7. /\ row.status = r.status /\ row.id = r.id /\ row.session = r.session
      /\ row.lastaccess = now
  BY ActFacts DEF Node
<1> HIDE DEF x, row
<1>8. new = IF r.status # "none" /\ r.id = m.id THEN [rows EXCEPT ![n0] = row] ELSE rows
  BY DEF Updated
<1> HIDE DEF new
<1>9. rows' = rows \/ rows' = [rows EXCEPT ![n0] = row]  BY <1>1, <1>8 DEF Applied
<1>10. rows \in [Names -> Node] /\ n0 \in Names  BY ActFacts DEF Rows
<1>11. /\ \A n \in Names \ {n0} : rows'[n] = rows[n]
       /\ rows'[n0].status = r.status /\ rows'[n0].id = r.id
       /\ rows'[n0].session = r.session
  BY <1>7, <1>9, <1>10
<1>12. RowStep(s)  BY <1>7, <1>8, <1>9, <1>10, <1>1 DEF RowStep, Applied
<1>13. mgr'[s] = x /\ main'[s] = p
       /\ \A t \in Servers \ {s} : mgr'[t] = mgr[t] /\ main'[t] = main[t]
  BY <1>1, <1>2, ActFacts
<1>14. Box(p, x)  BY <1>4, <1>5, <1>6, ActFacts DEF Box, Shape
<1>15. Owns(rows'[n0], x)  BY <1>6, <1>11, ActFacts DEF Owns
<1>16. SessionStep(s)  BY <1>1 DEF SessionStep
<1>17. ASSUME Leading(p, x) PROVE Leads(p, x, rows'[n0], now)
  <2>1. x.status = "active" /\ Undisturbed  BY <1>4, <1>6, <1>17 DEF Leading
  <2>2. m.status = "active" /\ out = "ok"  BY <1>3, <1>6, <2>1
  <2>3. Leads(p, m, r, now)  BY <1>4, <2>1, <2>2, ActFacts DEF Leading
  <2>4. r.status = "active" /\ r.id = m.id /\ r.session = p.session  BY <2>3 DEF Leads
  <2>5. rows' = [rows EXCEPT ![n0] = row]  BY <1>1, <1>8, <2>2, <2>4 DEF Applied
  <2>6. rows'[n0] = row  BY <1>10, <2>5
  <2>7. now \in Nat /\ Delay \in Nat /\ Delay >= 2 * Poll /\ Poll \in Nat /\ Poll >= 1
    BY ActFacts, Periods
  <2>8. now < now + Delay /\ now + x.wait < now + 2 * Poll  BY <1>6, <2>7
  <2> QED  BY <1>4, <1>6, <1>7, <2>1, <2>2, <2>4, <2>6, <2>8 DEF Leads, Fresh, DbStatus
<1>18. rows'[n0].status = "active" => r.status = "active"  BY <1>11
<1> QED
  BY <1>1, <1>5, <1>12, <1>13, <1>14, <1>15, <1>16, <1>17, <1>18, ActStep

LEMMA OffFacts ==
    /\ Off.pc = "off" /\ Off.session = 0 /\ Off.inbox = <<>> /\ Off.status = "unknown"
    /\ LET x == [NewManager("unknown") EXCEPT !.pc = "off"]
       IN  x.pc = "off" /\ x.id = 0 /\ x.status = "unknown"
    /\ \A st \in {"unknown", "standby"} :
          /\ NewManager(st).id = 0 /\ NewManager(st).status = st
          /\ NewManager(st).pc = IF st = "unknown" THEN "create" ELSE "run"
BY DEF Off, NewManager

\* Both processes of a server end.
LEMMA EndActs ==
    ASSUME ActInv, TimeInv', MailInv', Waited(rows'), UNCHANGED setup, NEW s \in Servers,
           now' = now, settings' = settings, sessions' = sessions, RowStep(s),
           main' = [main EXCEPT ![s] = Off], main[s].session # 0,
           mgr' = [mgr EXCEPT ![s] = [NewManager("unknown") EXCEPT !.pc = "off"]],
           rows'[Name[s]].status = "active" => rows[Name[s]].status = "active"
    PROVE  ActInv'
<1> DEFINE x == [NewManager("unknown") EXCEPT !.pc = "off"]
<1>1. x.pc = "off" /\ x.id = 0 /\ x.status = "unknown"  BY OffFacts
<1>2. mgr' = [mgr EXCEPT ![s] = x]  OBVIOUS
<1> HIDE DEF x
<1>3. mgr'[s] = x /\ main'[s] = Off
      /\ \A t \in Servers \ {s} : mgr'[t] = mgr[t] /\ main'[t] = main[t]
  BY <1>2, ActFacts
<1>4. Box(Off, x) /\ ~Leading(Off, x)  BY <1>1, OffFacts DEF Box, Shape, Leading
<1>5. Owns(rows'[Name[s]], x)  BY <1>1 DEF Owns
<1>6. SessionStep(s)  BY <1>3, OffFacts DEF SessionStep
<1> QED  BY <1>3, <1>4, <1>5, <1>6, ActStep

LEMMA StoppedActs ==
    ASSUME ActInv, TimeInv', MailInv', Waited(rows'), UNCHANGED setup, NEW s \in Servers,
           NEW out \in Outcomes, Stopped(s, out)
    PROVE  ActInv'
<1> DEFINE m == mgr[s]  n0 == Name[s]  r == rows[n0]
           row == [r EXCEPT !.status = "stopped"]
           new == Updated(rows, n0, m.id, row)
<1>1. /\ main[s].pc = "stopping"
      /\ rows' = rows \/ rows' = Applied(out, new)
      /\ main' = [main EXCEPT ![s] = Off]
      /\ mgr' = [mgr EXCEPT ![s] = [NewManager("unknown") EXCEPT !.pc = "off"]]
      /\ now' = now /\ settings' = settings /\ sessions' = sessions
  BY DEF Stopped
<1>2. row.status = "stopped" /\ row.id = r.id  BY ActFacts DEF Node
<1> HIDE DEF row
<1>3. new = IF r.status # "none" /\ r.id = m.id THEN [rows EXCEPT ![n0] = row] ELSE rows
  BY DEF Updated
<1> HIDE DEF new
<1>4. rows' = rows \/ (r.status # "none" /\ rows' = [rows EXCEPT ![n0] = row])
  BY <1>1, <1>3 DEF Applied
<1>5. rows \in [Names -> Node] /\ n0 \in Names  BY ActFacts DEF Rows
<1>6. RowStep(s) /\ (rows'[n0].status = "active" => r.status = "active")
  BY <1>2, <1>4, <1>5 DEF RowStep
<1>7. main[s].session # 0  BY <1>1, ActFacts, TimeFacts DEF Running
<1> QED  BY <1>1, <1>6, <1>7, EndActs

LEMMA CrashActs ==
    ASSUME ActInv, TimeInv', MailInv', UNCHANGED setup, NEW s \in Servers, Crash(s)
    PROVE  ActInv'
<1>1. /\ main[s].pc # "off" /\ rows' = rows
      /\ main' = [main EXCEPT ![s] = Off]
      /\ mgr' = [mgr EXCEPT ![s] = [NewManager("unknown") EXCEPT !.pc = "off"]]
      /\ now' = now /\ settings' = settings /\ sessions' = sessions
  BY DEF Crash
<1>2. main[s].session # 0  BY <1>1, ActFacts, TimeFacts DEF Running
<1>3. RowStep(s)  BY <1>1 DEF RowStep
<1>4. Waited(rows')  BY <1>1, SameRows, ActFacts
<1> QED  BY <1>1, <1>2, <1>3, <1>4, EndActs

LEMMA StartActs ==
    ASSUME ActInv, TimeInv', MailInv', UNCHANGED setup, NEW s \in Servers, Start(s)
    PROVE  ActInv'
<1> DEFINE q == [Off EXCEPT !.pc = "boot", !.session = sessions + 1]
           x == NewManager("unknown")
<1>1. /\ rows' = rows /\ main' = [main EXCEPT ![s] = q] /\ mgr' = [mgr EXCEPT ![s] = x]
      /\ now' = now /\ settings' = settings /\ sessions' = sessions + 1
  BY DEF Start
<1>2. q.pc = "boot" /\ q.session = sessions + 1 /\ q.inbox = <<>> /\ q.status = "unknown"
  BY DEF Off
<1>3. x.pc = "create" /\ x.id = 0 /\ x.status = "unknown"  BY OffFacts
<1> HIDE DEF q, x
<1>4. mgr'[s] = x /\ main'[s] = q
      /\ \A t \in Servers \ {s} : mgr'[t] = mgr[t] /\ main'[t] = main[t]
  BY <1>1, ActFacts
<1>5. Box(q, x) /\ ~Leading(q, x)  BY <1>2, <1>3 DEF Box, Shape, Leading
<1>6. Owns(rows[Name[s]], x)  BY <1>3 DEF Owns
<1>7. SessionStep(s)  BY <1>1, <1>2, <1>4 DEF SessionStep
<1> QED  BY <1>1, <1>4, <1>5, <1>6, <1>7, QuietStep

LEMMA ManageActs ==
    ASSUME ActInv, TimeInv', MailInv', Waited(rows'), UNCHANGED setup, NEW s \in Servers,
           Manage(s)
    PROVE  ActInv'
<1>1. CASE \E n \in Names : RemoveSelect(s, n)
  <2>1. "remove" \notin Faults  BY ActFacts DEF Covered
  <2> QED  BY <1>1, <2>1 DEF RemoveSelect
<1>2. CASE \E d \in Delays : SetFailoverDelay(s, d)
  <2>1. "delay" \notin Faults  BY ActFacts DEF Covered
  <2> QED  BY <1>2, <2>1 DEF SetFailoverDelay
<1>3. ASSUME NEW out \in Outcomes, RemoveDelete(s, out) PROVE ActInv'
  <2>1. mgr[s].pc # "removing"  BY ActFacts DEF Box
  <2> QED  BY <1>3, <2>1 DEF RemoveDelete
<1> QED  BY <1>1, <1>2, <1>3, TickActs, RetryActs, PauseActs, CreateNodeActs,
            RegisterNodeActs, CheckNodesActs, UpdateLastaccessActs, StoppedActs DEF Manage

----------------------------------------------------------------------------
(* The steps of the main process. *)

\* A step of the main process that leaves its manager alone.
LEMMA MainActs ==
    ASSUME ActInv, TimeInv', MailInv', UNCHANGED setup, NEW s \in Servers, NEW q,
           now' = now, settings' = settings, sessions' = sessions, rows' = rows, mgr' = mgr,
           main' = [main EXCEPT ![s] = q], q.session = main[s].session,
           Box(q, mgr[s]), Leading(q, mgr[s]) => Leads(q, mgr[s], rows[Name[s]], now)
    PROVE  ActInv'
<1>1. main'[s] = q /\ mgr'[s] = mgr[s]
      /\ \A t \in Servers \ {s} : mgr'[t] = mgr[t] /\ main'[t] = main[t]
  BY ActFacts
<1>2. Owns(rows[Name[s]], mgr[s])  BY ActFacts
<1>3. SessionStep(s)  BY <1>1 DEF SessionStep
<1> QED  BY <1>1, <1>2, <1>3, QuietStep

\* A server that stands down does not lead.
LEMMA RestartActs ==
    ASSUME ActInv, TimeInv', MailInv', UNCHANGED setup, NEW s \in Servers,
           NEW p \in MainProcess, p.session = main[s].session, NEW old, Restart(s, p, old),
           now' = now, settings' = settings, sessions' = sessions, rows' = rows
    PROVE  ActInv'
<1> DEFINE q == [p EXCEPT !.pc = "run", !.status = "standby", !.old = old, !.inbox = <<>>]
           x == NewManager("standby")
<1>1. main' = [main EXCEPT ![s] = q] /\ mgr' = [mgr EXCEPT ![s] = x]  BY DEF Restart
<1>2. q.pc = "run" /\ q.status = "standby" /\ q.inbox = <<>> /\ q.session = p.session
  BY DEF MainProcess
<1>3. x.pc = "run" /\ x.status = "standby" /\ x.id = 0  BY OffFacts
<1> HIDE DEF q, x
<1>4. mgr'[s] = x /\ main'[s] = q
      /\ \A t \in Servers \ {s} : mgr'[t] = mgr[t] /\ main'[t] = main[t]
  BY <1>1, ActFacts
<1>5. Box(q, x) /\ ~Leading(q, x)  BY <1>2, <1>3 DEF Box, Shape, Leading
<1>6. Owns(rows[Name[s]], x)  BY <1>3 DEF Owns
<1>7. SessionStep(s)  BY <1>2, <1>4 DEF SessionStep
<1> QED  BY <1>4, <1>5, <1>6, <1>7, QuietStep

\* A server that begins to shut down leads only if it did before.
LEMMA StoppingActs ==
    ASSUME ActInv, TimeInv', MailInv', UNCHANGED setup, NEW s \in Servers, Stopping(s),
           main[s].pc \in {"boot", "run", "starting"},
           mgr[s].status = "error" \/ "stop" \in Faults,
           now' = now, settings' = settings, sessions' = sessions, rows' = rows
    PROVE  ActInv'
<1> DEFINE p == main[s]  m == mgr[s]
           q == [p EXCEPT !.pc = "stopping", !.inbox = <<>>]
<1>1. main' = [main EXCEPT ![s] = q] /\ mgr' = mgr  BY DEF Stopping
<1>2. q.pc = "stopping" /\ q.inbox = <<>> /\ q.session = p.session /\ q.status = p.status
  BY ActFacts DEF MainProcess
<1> HIDE DEF q
<1>3. Box(q, m)  BY <1>2, ActFacts DEF Box, Shape, Sane
<1>4. ASSUME Leading(q, m) PROVE Leads(q, m, rows[Name[s]], now)
  <2>1. Leading(p, m)  BY <1>2, <1>4 DEF Leading
  <2>2. Leads(p, m, rows[Name[s]], now)  BY <2>1, ActFacts
  <2> QED  BY <1>2, <2>2 DEF Leads, Fresh
<1> QED  BY <1>1, <1>2, <1>3, <1>4, MainActs

LEMMA BootActs ==
    ASSUME ActInv, TimeInv', MailInv', UNCHANGED setup, NEW s \in Servers, NEW a, Boot(s, a)
    PROVE  ActInv'
<1> DEFINE p == main[s]  m == mgr[s]
           q == [p EXCEPT !.pc = IF a.status = "active" THEN "starting" ELSE "run",
                          !.status = a.status, !.old = a.status, !.delay = a.delay]
<1>1. /\ p.pc = "boot" /\ a = StatusAnswer(s)
      /\ IF a.status = "error" THEN Stopping(s)
         ELSE main' = [main EXCEPT ![s] = q] /\ mgr' = mgr
      /\ now' = now /\ settings' = settings /\ sessions' = sessions /\ rows' = rows
  <2>1. "hang" \notin Faults  BY ActFacts, CoveredFacts
  <2> QED  BY <2>1 DEF Boot
<1>2. a.status = m.status  BY <1>1 DEF StatusAnswer
<1>3. /\ q.pc = IF a.status = "active" THEN "starting" ELSE "run"
      /\ q.status = m.status /\ q.inbox = p.inbox /\ q.session = p.session
  BY <1>2, ActFacts DEF MainProcess
<1> HIDE DEF q
<1>4. CASE a.status = "error"
  BY <1>1, <1>2, <1>4, StoppingActs
<1>5. CASE a.status # "error"
  <2>1. Box(q, m)  BY <1>2, <1>3, <1>5, ActFacts DEF Box
  <2>2. ASSUME Leading(q, m) PROVE Leads(q, m, rows[Name[s]], now)
    <3>1. m.status = "active" /\ q.pc = "starting"  BY <1>2, <1>3, <2>2 DEF Leading
    <3>2. Leads(p, m, rows[Name[s]], now)  BY <1>1, <3>1, ActFacts DEF Leading
    <3> QED  BY <1>1, <1>3, <3>1, <3>2 DEF Leads, Fresh
  <2> QED  BY <1>1, <1>3, <1>5, <2>1, <2>2, MainActs
<1> QED  BY <1>4, <1>5

\* The manager of a leading server knows the failover delay.
LEMMA LeadDelay ==
    ASSUME ActInv, NEW s \in Servers, Leading(main[s], mgr[s])
    PROVE  mgr[s].delay = Delay
<1>1. rows[Name[s]].status = "active" /\ rows[Name[s]].id = mgr[s].id
  BY ActFacts DEF Leads
<1>2. rows[Name[s]].id # 0  BY <1>1, ActFacts DEF TimeInv, Past
<1> QED  BY <1>1, <1>2, ActFacts DEF Owns

LEMMA StartedActs ==
    ASSUME ActInv, TimeInv', MailInv', UNCHANGED setup, NEW s \in Servers, NEW a, Started(s, a)
    PROVE  ActInv'
<1> DEFINE p == main[s]  m == mgr[s]
           p1 == [p EXCEPT !.delay = a.delay]
           q == [p1 EXCEPT !.pc = "run", !.hb = now, !.status = "active", !.old = "active"]
<1>1. /\ p.pc = "starting" /\ a = StatusAnswer(s)
      /\ \/ a.status = "error" /\ Stopping(s)
         \/ a.status = "standby" /\ Restart(s, p1, "standby")
         \/ a.status = "active" /\ main' = [main EXCEPT ![s] = q] /\ mgr' = mgr
      /\ now' = now /\ settings' = settings /\ sessions' = sessions /\ rows' = rows
  <2>1. "hang" \notin Faults  BY ActFacts, CoveredFacts
  <2> QED  BY <2>1 DEF Started
<1>2. a.status = m.status /\ a.delay = m.delay /\ m.delay \in Delays
  BY <1>1, ActFacts DEF StatusAnswer, Manager
<1>3. p1 \in MainProcess /\ p1.session = p.session /\ p1.inbox = p.inbox
      /\ p1.delay = m.delay
  BY <1>2, ActFacts DEF MainProcess
<1> HIDE DEF p1
<1>4. /\ q.pc = "run" /\ q.hb = now /\ q.status = "active" /\ q.inbox = p.inbox
      /\ q.session = p.session /\ q.delay = m.delay
  BY <1>3 DEF MainProcess
<1> HIDE DEF q
<1>5. CASE a.status = "error" /\ Stopping(s)
  BY <1>1, <1>2, <1>5, StoppingActs
<1>6. CASE a.status = "standby" /\ Restart(s, p1, "standby")
  BY <1>1, <1>3, <1>6, RestartActs
<1>7. CASE a.status = "active" /\ main' = [main EXCEPT ![s] = q] /\ mgr' = mgr
  <2>1. Box(q, m)  BY <1>1, <1>4, ActFacts DEF Box
  <2>2. Leading(p, m)  BY <1>1 DEF Leading
  <2>3. Leads(p, m, rows[Name[s]], now)  BY <2>2, ActFacts
  <2>4. now < rows[Name[s]].lastaccess + Poll  BY <1>1, <2>3 DEF Leads, Fresh
  <2>5. m.delay = Delay  BY <2>2, LeadDelay
  <2>6. 0 < now  BY ActFacts
  <2>7. Leads(q, m, rows[Name[s]], now)
    BY <1>4, <2>3, <2>4, <2>5, <2>6 DEF Leads
  <2> QED  BY <1>1, <1>4, <1>7, <2>1, <2>7, MainActs
<1> QED  BY <1>1, <1>5, <1>6, <1>7

\* The main loop, after a message or a timeout has left the state p.
LEMMA LoopActs ==
    ASSUME ActInv, TimeInv', MailInv', UNCHANGED setup, NEW s \in Servers,
           NEW p \in MainProcess, p.pc = "run", p.session = main[s].session, Loop(s, p),
           now' = now, settings' = settings, sessions' = sessions, rows' = rows,
           Box(p, mgr[s]),
           ~Expired(s, p) /\ Leading(p, mgr[s])
              => Leads(p, mgr[s], rows[Name[s]], now),
           ~Expired(s, p) /\ p.status = "active"
              => now < rows[Name[s]].lastaccess + Poll
    PROVE  ActInv'
<1> DEFINE m == mgr[s]  r == rows[Name[s]]
           p0 == [p EXCEPT !.hb = 0]
           q == [p EXCEPT !.pc = "starting", !.old = "active"]
           old == IF p.status = "active" THEN "standby" ELSE p.old
<1>1. \/ Restart(s, p0, old)
      \/ Restart(s, p, "standby")
      \/ /\ ~Expired(s, p) /\ p.status \notin {p.old, "unknown", "standby"}
         /\ main' = [main EXCEPT ![s] = q] /\ mgr' = mgr
      \/ ~Expired(s, p) /\ main' = [main EXCEPT ![s] = p] /\ mgr' = mgr
  BY DEF Loop
<1>2. p0 \in MainProcess /\ p0.session = p.session  BY DEF MainProcess
<1>3. q.pc = "starting" /\ q.status = p.status /\ q.inbox = p.inbox /\ q.session = p.session
  BY DEF MainProcess
<1> HIDE DEF p0, q, old
<1>4. CASE Restart(s, p0, old)  BY <1>2, <1>4, RestartActs
<1>5. CASE Restart(s, p, "standby")  BY <1>5, RestartActs
<1>6. CASE /\ ~Expired(s, p) /\ p.status \notin {p.old, "unknown", "standby"}
           /\ main' = [main EXCEPT ![s] = q] /\ mgr' = mgr
  <2>1. p.status = "active"  BY <1>6 DEF Box, MainProcess, Statuses
  <2>2. Leads(p, m, r, now)  BY <1>6, <2>1 DEF Leading
  <2>3. now < r.lastaccess + Poll  BY <1>6, <2>1
  <2>4. Leads(q, m, r, now)  BY <1>3, <2>2, <2>3 DEF Leads
  <2>5. Box(q, m)  BY <1>3 DEF Box
  <2> QED  BY <1>3, <1>6, <2>4, <2>5, MainActs
<1>7. CASE ~Expired(s, p) /\ main' = [main EXCEPT ![s] = p] /\ mgr' = mgr
  BY <1>7, MainActs
<1> QED  BY <1>1, <1>4, <1>5, <1>6, <1>7

LEMMA TimeoutActs ==
    ASSUME ActInv, TimeInv', MailInv', UNCHANGED setup, NEW s \in Servers, Timeout(s)
    PROVE  ActInv'
<1>1. /\ main[s].pc = "run" /\ Expired(s, main[s]) /\ Loop(s, main[s])
      /\ now' = now /\ settings' = settings /\ sessions' = sessions /\ rows' = rows
  BY DEF Timeout
<1>2. Box(main[s], mgr[s]) /\ main[s] \in MainProcess  BY ActFacts
<1> QED  BY <1>1, <1>2, LoopActs

LEMMA ReceiveActs ==
    ASSUME ActInv, TimeInv', MailInv', UNCHANGED setup, NEW s \in Servers, Receive(s)
    PROVE  ActInv'
<1> DEFINE p == main[s]  m == mgr[s]  r == rows[Name[s]]  u == StatusUpdate(m)
           msg == Head(p.inbox)
           p0 == [p EXCEPT !.inbox = Tail(@)]
           hb == IF msg = Heartbeat \/ msg.status # p0.status THEN now ELSE p0.hb
           b == [p0 EXCEPT !.hb = hb]
           c == [p0 EXCEPT !.status = msg.status, !.delay = msg.delay, !.hb = hb]
<1>1. /\ p.pc = "run" /\ p.inbox # <<>>
      /\ \/ msg.status = "error" /\ Stopping(s)
         \/ msg = Heartbeat /\ Loop(s, b)
         \/ msg # Heartbeat /\ msg.status # "error" /\ Loop(s, c)
      /\ now' = now /\ settings' = settings /\ sessions' = sessions /\ rows' = rows
  BY DEF Receive
<1>2. /\ u # Heartbeat /\ u.status = m.status /\ u.delay = m.delay
      /\ m.status \in Statuses /\ Heartbeat.status # "error"
  BY ActFacts, Updates
<1> HIDE DEF u
<1>3. p.inbox \in {<<Heartbeat>>, <<u>>, <<u, Heartbeat>>}
  BY <1>1, ActFacts DEF Box, Shape, u
<1>4. /\ msg \in {Heartbeat, u} /\ Tail(p.inbox) \in {<<>>, <<Heartbeat>>}
      /\ msg = Heartbeat => Tail(p.inbox) = <<>>
  <2>1. CASE p.inbox = <<Heartbeat>>  BY <2>1, Singles
  <2>2. CASE p.inbox = <<u>>  BY <2>2, Singles
  <2>3. CASE p.inbox = <<u, Heartbeat>>
    <3>1. msg = u /\ Tail(p.inbox) = <<Heartbeat>>  BY <2>3, Singles
    <3> QED  BY <1>2, <3>1
  <2> QED  BY <1>3, <2>1, <2>2, <2>3
<1>5. Tail(p.inbox) \in Seq(Message)
  <2>1. Heartbeat \in Message  BY DEF Message
  <2>2. <<>> \in Seq(Message) /\ <<Heartbeat>> \in Seq(Message)  BY <2>1
  <2> QED  BY <1>4, <2>2
<1>6. /\ p0 \in MainProcess /\ p0.inbox = Tail(p.inbox) /\ p0.pc = p.pc
      /\ p0.session = p.session /\ p0.status = p.status /\ p0.old = p.old /\ p0.hb = p.hb
      /\ p0.delay = p.delay
  BY <1>5, ActFacts DEF MainProcess
<1>7. hb \in {now, p.hb} /\ hb \in Nat /\ (msg = Heartbeat => hb = now)
      /\ (msg.status # p.status => hb = now)
  BY <1>6, ActFacts DEF MainProcess
<1> HIDE DEF p0, hb
<1>8. Fresh(p) \/ msg.status = "error"  BY <1>1 DEF Fresh
<1>9. ASSUME Leading(p, m), msg.status # "error"
      PROVE  Leads(p, m, r, now) /\ now < r.lastaccess + Poll /\ m.delay = Delay /\ 0 < now
  <2>1. Leads(p, m, r, now) /\ m.delay = Delay /\ 0 < now  BY <1>9, ActFacts, LeadDelay
  <2> QED  BY <1>8, <1>9, <2>1 DEF Leads
<1>10. /\ Shape(Tail(p.inbox), u)
       /\ ~(m.pc = "run" /\ ~m.ticked) /\ m.pc \notin {"create", "register", "removing"}
       /\ m.pc = "off" => m.status = "unknown"
       /\ p.status # "error"
  <2>1. Shape(Tail(p.inbox), u)  BY <1>4 DEF Shape
  <2>2. m.pc # "run" \/ m.ticked  BY <1>1, ActFacts DEF Box
  <2>3. m.pc \notin {"create", "register", "removing"} /\ p.status # "error"
        /\ (m.pc = "off" => m.status = "unknown")
    BY <1>1, ActFacts DEF Box
  <2> QED  BY <2>1, <2>2, <2>3
<1>11. CASE msg.status = "error" /\ Stopping(s)
  <2>1. m.status = "error"  BY <1>2, <1>4, <1>11
  <2> QED  BY <1>1, <1>11, <2>1, StoppingActs
<1>12. CASE msg = Heartbeat /\ Loop(s, b)
  <2>1. /\ b \in MainProcess /\ b.pc = "run" /\ b.session = p.session /\ b.status = p.status
        /\ b.inbox = <<>> /\ b.hb = now /\ b.delay = p.delay
    BY <1>1, <1>4, <1>6, <1>7, <1>12 DEF MainProcess
  <2> HIDE DEF b
  <2>2. Box(b, m)  BY <1>10, <2>1 DEF Box, Shape
  <2>3. ASSUME Leading(b, m) PROVE Leads(b, m, r, now)
    <3>1. Leading(p, m)  BY <1>1, <2>1, <2>3 DEF Leading
    <3>2. Leads(p, m, r, now) /\ now < r.lastaccess + Poll /\ 0 < now
      BY <1>2, <1>9, <1>12, <3>1
    <3> QED  BY <1>1, <2>1, <3>2 DEF Leads, Fresh
  <2>4. b.status = "active" => now < r.lastaccess + Poll
    BY <1>1, <1>2, <1>9, <1>12, <2>1 DEF Leading
  <2> QED  BY <1>1, <1>12, <2>1, <2>2, <2>3, <2>4, LoopActs
<1>13. CASE msg # Heartbeat /\ msg.status # "error" /\ Loop(s, c)
  <2>1. msg = u  BY <1>4, <1>13
  <2>2. m.delay \in Delays  BY ActFacts DEF Manager
  <2>3. /\ c \in MainProcess /\ c.pc = "run" /\ c.session = p.session
        /\ c.status = m.status /\ c.delay = m.delay /\ c.hb = hb
        /\ c.inbox = Tail(p.inbox)
    BY <1>1, <1>2, <1>6, <1>7, <2>1, <2>2 DEF MainProcess
  <2> HIDE DEF c
  <2>4. Box(c, m)  BY <1>2, <1>10, <1>13, <2>1, <2>3 DEF Box, u
  <2>5. Leading(c, m) => m.status = "active"  BY <2>3 DEF Leading
  <2>6. m.status = "active" => Leading(p, m)  BY <1>1 DEF Leading
  <2>7. ASSUME Leading(c, m) PROVE Leads(c, m, r, now)
    <3>1. /\ Leads(p, m, r, now) /\ now < r.lastaccess + Poll /\ 0 < now
          /\ m.delay = Delay /\ m.status = "active"
      BY <1>9, <1>13, <2>5, <2>6, <2>7
    <3>2. 0 < hb /\ hb < r.lastaccess + Poll
      <4>1. CASE msg.status # p.status  BY <1>7, <3>1, <4>1
      <4>2. CASE msg.status = p.status
        <5>1. p.status = "active"  BY <1>2, <2>1, <3>1, <4>2
        <5>2. 0 < p.hb /\ p.hb < r.lastaccess + Poll  BY <1>1, <3>1, <5>1 DEF Leads
        <5> QED  BY <1>7, <3>1, <5>2
      <4> QED  BY <4>1, <4>2
    <3> QED  BY <1>1, <2>3, <3>1, <3>2 DEF Leads
  <2>8. c.status = "active" => now < r.lastaccess + Poll
    BY <1>9, <1>13, <2>3, <2>6
  <2> QED  BY <1>1, <1>13, <2>3, <2>4, <2>7, <2>8, LoopActs
<1> QED  BY <1>1, <1>11, <1>12, <1>13

LEMMA LeadActs ==
    ASSUME ActInv, TimeInv', MailInv', UNCHANGED setup, NEW s \in Servers, Lead(s)
    PROVE  ActInv'
<1>1. CASE Stop(s)
  <2>1. /\ "stop" \in Faults /\ main[s].pc \in {"run", "starting"} /\ Stopping(s)
        /\ now' = now /\ settings' = settings /\ sessions' = sessions /\ rows' = rows
    BY <1>1 DEF Stop
  <2> QED  BY <2>1, StoppingActs
<1> QED  BY <1>1, StartActs, ReceiveActs, TimeoutActs, CrashActs, BootActs, StartedActs
         DEF Lead

----------------------------------------------------------------------------
(* Time. *)

LEMMA AdvanceActs ==
    ASSUME ActInv, TimeInv', MailInv', UNCHANGED setup, Advance
    PROVE  ActInv'
<1>1. /\ now' = now + 1 /\ settings' = settings /\ rows' = rows /\ main' = main
      /\ sessions' = sessions /\ mgr' = [s \in Servers |-> After(s)]
      /\ \A s \in Servers : Timely(s)
  BY DEF Advance, After
<1>2. Names' = Names /\ Name' = Name /\ Delay' = Delay /\ Faults' = Faults
  BY DEF Names, Name, Delay, Faults
<1>3. Covered /\ IdInv /\ OneActive /\ "slowstart" \notin Faults
  BY DEF ActInv, Covered
<1>4. ASSUME NEW s \in Servers
      PROVE  /\ After(s).pc = mgr[s].pc /\ After(s).status = mgr[s].status
             /\ After(s).id = mgr[s].id /\ After(s).delay = mgr[s].delay
             /\ After(s).db = mgr[s].db /\ After(s).ticked = FALSE
             /\ After(s).wait = IF Keeping(s) THEN mgr[s].wait - 1 ELSE mgr[s].wait
             /\ mgr[s].wait \in Nat
  BY ActFacts DEF After, Manager
<1>5. ASSUME NEW s \in Servers
      PROVE  /\ Box(main[s], After(s))
             /\ Leading(main[s], After(s)) => Leads(main[s], After(s), rows[Name[s]], now + 1)
  <2> DEFINE p == main[s]  m == mgr[s]  r == rows[Name[s]]  x == After(s)
  <2>1. /\ p.pc = "boot" => ~Answers(s)
        /\ p.pc # "starting"
        /\ p.pc = "run" => p.inbox = <<>> /\ ~Expired(s, p)
        /\ m.pc = "run" => \/ m.ticked /\ p.pc # "stopping"
                           \/ m.wait <= 1 /\ "slow" \in Faults
        /\ Keeping(s) => m.wait > 0
    BY <1>1, <1>3 DEF Timely
  <2>2. m.pc = "run" => p.inbox = <<>>
    <3>1. p.pc \in {"off", "boot", "run", "starting", "stopping"}  BY ActFacts DEF MainProcess
    <3> QED  BY <2>1, <3>1, ActFacts DEF Answers, Box
  <2> HIDE DEF x
  <2>3. /\ x.pc = m.pc /\ x.status = m.status /\ x.id = m.id /\ x.delay = m.delay
        /\ x.db = m.db /\ x.ticked = FALSE /\ m.wait \in Nat
        /\ x.wait = IF Keeping(s) THEN m.wait - 1 ELSE m.wait
    BY <1>4 DEF x
  <2>4. Box(p, x)
    <3>1. StatusUpdate(x) = StatusUpdate(m)  BY <2>3 DEF StatusUpdate
    <3> QED  BY <2>2, <2>3, <3>1, ActFacts DEF Box
  <2>5. ASSUME Leading(p, x) PROVE Leads(p, x, r, now + 1)
    <3>1. Leading(p, m)  BY <2>3, <2>5 DEF Leading
    <3>2. Leads(p, m, r, now)  BY <3>1, ActFacts
    <3>3. /\ now \in Nat /\ Poll \in Nat /\ r.lastaccess \in Nat /\ Delay \in Nat
          /\ Delay >= 2 * Poll /\ p.hb \in Nat
      BY ActFacts, Periods DEF MainProcess
    <3>4. p.pc # "boot"
      <4> SUFFICES ASSUME p.pc = "boot" PROVE FALSE
        OBVIOUS
      <4>1. m.status = "active"  BY <3>1 DEF Leading
      <4>2. m.pc \in {"run", "paused"}  BY <4>1, ActFacts DEF Box, Manager
      <4> QED  BY <2>1, <4>2 DEF Answers
    <3>5. CASE p.pc = "run"
      <4>1. p.inbox = <<>>  BY <2>1, <3>5
      <4>2. p.status = "active"
        <5>1. ~Latest(<<>>, m.status)  BY DEF Latest
        <5>2. Follows(p, m)  BY <3>5, ActFacts, MailFacts DEF Mail
        <5>3. p.status = m.status  BY <3>5, <4>1, <5>1, <5>2 DEF Follows
        <5> QED  BY <3>1, <3>5, <5>3 DEF Leading
      <4>3. 0 < p.hb /\ p.hb < r.lastaccess + Poll /\ p.delay = Delay
        BY <3>2, <3>5, <4>2 DEF Leads
      <4>4. ~(p.hb + Delay - Poll <= now)
        <5>1. Cluster(s)  BY <1>3, CoveredFacts
        <5>2. ~Expired(s, p) /\ p.hb # 0  BY <2>1, <3>3, <3>5, <4>3
        <5> QED  BY <4>3, <5>1, <5>2 DEF Expired
      <4>5. now + 1 < r.lastaccess + Delay  BY <3>3, <4>3, <4>4
      <4>6. ~Fresh(p)  BY <3>5, <4>1 DEF Fresh
      <4>7. ~(m.pc = "paused" /\ m.status = "active")
        BY <3>5, ActFacts, MailFacts DEF Mail
      <4>8. m.pc = "run" /\ m.db = "ok" /\ x.wait > 1
               => now + 1 + x.wait <= r.lastaccess + Poll + 1
        <5> SUFFICES ASSUME m.pc = "run", m.db = "ok", x.wait > 1
                     PROVE  now + 1 + x.wait <= r.lastaccess + Poll + 1
          OBVIOUS
        <5>1. x.wait = m.wait  BY <2>3 DEF Keeping
        <5>2. m.ticked  BY <2>1, <2>3, <5>1
        <5>3. now + m.wait <= r.lastaccess + Poll  BY <3>2, <5>2 DEF Leads
        <5> QED  BY <2>3, <3>3, <5>1, <5>3
      <4> QED  BY <2>3, <3>2, <3>5, <4>3, <4>5, <4>6, <4>7, <4>8 DEF Leads
    <3>6. CASE p.pc = "stopping"
      <4>1. m.status = "active" /\ (m.pc = "run" \/ Undisturbed)
        BY <3>1, <3>6 DEF Leading
      <4>2. m.pc # "run"
        <5> SUFFICES ASSUME m.pc = "run" PROVE FALSE
          OBVIOUS
        <5>1. "slow" \in Faults  BY <2>1, <3>6
        <5>2. "stop" \in Faults  BY <3>6, ActFacts DEF Box
        <5> QED  BY <1>3, <5>1, <5>2 DEF Covered
      <4>3. m.pc = "paused"  BY <4>1, <4>2, ActFacts DEF Box, Manager
      <4>4. Keeping(s)  BY <4>1, <4>3 DEF Keeping
      <4>5. m.wait > 0 /\ x.wait = m.wait - 1  BY <2>1, <2>3, <4>4
      <4>6. now + m.wait < r.lastaccess + 2 * Poll  BY <3>2, <4>1, <4>3 DEF Leads
      <4>7. now + 1 < r.lastaccess + Delay /\ now + 1 + x.wait < r.lastaccess + 2 * Poll
        BY <2>3, <3>3, <4>5, <4>6
      <4> QED  BY <2>3, <3>2, <3>6, <4>1, <4>3, <4>7 DEF Leads, Fresh
    <3> QED  BY <2>1, <3>1, <3>4, <3>5, <3>6 DEF Leading
  <2> QED  BY <2>4, <2>5 DEF x
<1>6. \A s \in Servers : mgr'[s] = After(s)  BY <1>1
<1>7. IdInv'
  <2>1. ASSUME NEW s \in Servers PROVE Owns(rows[Name[s]], After(s))
    BY <1>4, ActFacts DEF Owns
  <2> QED  BY <1>1, <1>2, <1>3, <1>6, <2>1 DEF IdInv, Owns
<1>8. Covered' /\ OneActive'  BY <1>1, <1>2, <1>3 DEF Covered, OneActive
<1>9. /\ \A s \in Servers : Box(main[s], mgr[s])'
      /\ LeadInv'
  BY <1>1, <1>2, <1>5, <1>6 DEF LeadInv, Box, Leading, Leads, Fresh, Undisturbed
<1> QED  BY <1>7, <1>8, <1>9 DEF ActInv

LEMMA ActNext == ActInv /\ [Next]_vars => ActInv'
<1> SUFFICES ASSUME ActInv, [Next]_vars PROVE ActInv'
  OBVIOUS
<1>1. TimeInv' /\ Waited(rows') /\ MailInv'
  <2>1. TimeInv /\ MailInv  BY DEF ActInv
  <2> QED  BY <2>1, TimeNext, MailNext
<1>2. CASE UNCHANGED <<setup, now, settings, rows, mgr, main, sessions>>
  <2>1. Names' = Names /\ Name' = Name /\ Delay' = Delay /\ Faults' = Faults
    BY <1>2 DEF Names, Name, Delay, Faults
  <2>2. Covered' /\ OneActive'  BY <1>2, <2>1 DEF ActInv, Covered, OneActive
  <2>3. IdInv'  BY <1>2, <2>1 DEF ActInv, IdInv, Owns
  <2>4. \A s \in Servers : Box(main[s], mgr[s])'
    BY <1>2, <2>1 DEF ActInv, Box
  <2>5. LeadInv'
    <3>1. LeadInv  BY DEF ActInv
    <3> QED  BY <1>2, <2>1, <3>1 DEF LeadInv, Leading, Leads, Fresh, Undisturbed
  <2> QED  BY <1>1, <2>2, <2>3, <2>4, <2>5 DEF ActInv
<1> QED
  BY <1>1, <1>2, AdvanceActs, ManageActs, LeadActs DEF Next, Horizon, vars

LEMMA ActInit == Init /\ Covered => ActInv
<1> SUFFICES ASSUME Init, Covered PROVE ActInv
  OBVIOUS
<1>1. TimeInv  BY CoveredFacts, TimeInit
<1>2. "hang" \notin Faults  BY CoveredFacts
<1>3. /\ settings = Delay /\ sessions = 0 /\ now = 1
      /\ \A n \in Names : rows[n].status = "none"
  BY DEF Init, NoRow
<1>4. ASSUME NEW s \in Servers
      PROVE  /\ main[s] = Off /\ mgr[s].pc = "off" /\ mgr[s].id = 0
             /\ mgr[s].status = "unknown"
  <2>1. main[s] = Off /\ mgr[s] = [NewManager("unknown") EXCEPT !.pc = "off"]  BY DEF Init
  <2> QED  BY <2>1, OffFacts
<1>5. MailInv
  <2>1. ASSUME NEW s \in Servers PROVE Mail(main[s], mgr[s])
    BY <1>4, OffFacts DEF Mail
  <2> QED  BY <1>1, <1>2, <2>1 DEF MailInv, TimeInv
<1>6. IdInv  BY <1>3, <1>4, OffFacts DEF IdInv, Owns, Names
<1>7. OneActive  BY <1>3 DEF OneActive
<1>8. ASSUME NEW s \in Servers PROVE Box(main[s], mgr[s]) /\ ~Leading(main[s], mgr[s])
  BY <1>4, OffFacts DEF Box, Shape, Leading
<1> QED  BY <1>1, <1>5, <1>6, <1>7, <1>8 DEF ActInv, LeadInv

----------------------------------------------------------------------------
(* The theorems. *)

\* A server that acts leads, and the active row is its own.
LEMMA ActingLeads ==
    ASSUME ActInv, NEW s \in Servers, Leading(main[s], mgr[s])
    PROVE  /\ rows[Name[s]].status = "active" /\ rows[Name[s]].session = main[s].session
           /\ \A t \in Servers : Leading(main[t], mgr[t]) => s = t
<1>1. /\ rows[Name[s]].status = "active" /\ rows[Name[s]].session = main[s].session
      /\ Name[s] \in Names
  BY ActFacts DEF Leads
<1>2. ASSUME NEW t \in Servers, Leading(main[t], mgr[t]) PROVE s = t
  <2>1. rows[Name[t]].status = "active" /\ Name[t] \in Names  BY <1>2, ActFacts DEF Leads
  <2>2. Name[s] = Name[t]  BY <1>1, <2>1, ActFacts DEF OneActive
  <2> QED  BY <2>2, ActFacts DEF Covered
<1> QED  BY <1>1, <1>2

LEMMA CoveredActs == Spec /\ Covered => []ActInv
BY ActInit, ActNext, PTL DEF Spec

\* Two servers of a cluster never act at the same time, whatever their number,
\* with a database that is down, transactions that fail or are slow, servers
\* that crash, stop and start again.
THEOREM OneActs == Spec /\ Covered => []SingleActing
<1>1. ActInv => SingleActing
  BY ActingLeads DEF SingleActing, Acting, Leading
<1> QED  BY <1>1, CoveredActs, PTL

\* The registry of such a cluster never has two active nodes, and a server that
\* acts owns the active one, under its session.
THEOREM ActsOnOwnRow == Spec /\ Covered => []ActingOwnsRow
<1>1. ActInv => ActingOwnsRow
  <2> SUFFICES ASSUME ActInv PROVE ActingOwnsRow
    OBVIOUS
  <2>1. \A n, k \in Present : rows[n].status = "active" /\ rows[k].status = "active" => n = k
    BY DEF ActInv, OneActive, Present
  <2>2. ASSUME NEW s \in Servers, Acting(s)
        PROVE  rows[Name[s]].status = "active" /\ rows[Name[s]].session = main[s].session
    BY <2>2, ActingLeads DEF Acting, Leading
  <2> QED  BY <2>1, <2>2 DEF ActingOwnsRow
<1> QED  BY <1>1, CoveredActs, PTL

\* While the database answers and no transaction fails, the row of an active
\* server that shuts down keeps every other from acting, for as long as the
\* shutdown takes: its manager notes that it lives to the end (the loop of
\* ha_manager_thread after ZBX_IPC_SERVICE_HA_PAUSE).
THEOREM StopsUndisturbed == Spec /\ Covered /\ Undisturbed => []StoppingHolds
<1>1. ActInv /\ Undisturbed => StoppingHolds
  <2> SUFFICES ASSUME ActInv, Undisturbed, NEW s \in Servers, NEW t \in Servers,
                      main[s].pc = "stopping", mgr[s].status = "active", Acting(t)
               PROVE  s = t
    BY DEF StoppingHolds
  <2> QED  BY ActingLeads DEF Acting, Leading
<1>2. Undisturbed /\ [Next]_vars => Undisturbed'
  BY DEF Next, vars, Faults, Undisturbed
<1> QED  BY <1>1, <1>2, CoveredActs, PTL DEF Spec
=============================================================================
