----------------------------- MODULE HAManager -----------------------------
(***************************************************************************)
(* The high availability cluster of Zabbix servers (zabbix_server/ha and   *)
(* the main loop of server.c): the registry table ha_node in the shared    *)
(* database, and on every server the HA manager, which keeps the server's  *)
(* row and decides whether it is the active one, and the main process,     *)
(* which starts and stops the server's other processes accordingly.        *)
(*                                                                         *)
(* Time is counted in seconds.  A transaction that locks the registry is   *)
(* one step.  A behaviour begins with the choice of a setup: which servers *)
(* there are, and what may go wrong (see Outcomes and Timely).             *)
(***************************************************************************)
EXTENDS Integers, FiniteSets, SequencesExt

CONSTANTS
    Servers,        \* server processes
    Poll,           \* ZBX_HA_POLL_PERIOD
    Delays,         \* failover delays that may be set
    DefaultDelay,   \* ZBX_HA_DEFAULT_FAILOVER_DELAY, until the table is read
    Setups          \* see Setup

FaultNames == {"down", "late", "lost", "fail", "slow", "hang", "slowstart",
               "crash", "stop", "remove", "delay"}

\* name: HANodeName of each server, "" for a standalone one; delay: the failover
\* delay in the settings table at first; faults: what may happen besides the
\* normal course; bounds: the last second of a behaviour, and starts of servers
IsSetup(u) ==
    /\ DOMAIN u.name = Servers /\ u.delay \in Delays /\ u.faults \subseteq FaultNames
    /\ u.maxTime \in Nat /\ u.maxStarts \in Nat

ASSUME HAAssumption ==
    /\ Poll \in Nat \ {0} /\ Delays \subseteq Nat /\ DefaultDelay \in Delays
    /\ \A d \in Delays : d >= 2 * Poll       \* enforced by rtc_ha_failover_delay
    /\ \A u \in Setups : IsSetup(u)

VARIABLES
    setup,      \* a member of Setups, chosen at the start
    now,        \* database time
    settings,   \* ha_failover_delay in the settings table
    rows,       \* ha_node, by name
    mgr,        \* HA managers
    main,       \* main processes
    sessions,   \* session ids given out
    quiet       \* history: seconds for which a standby server saw none at work

vars == <<setup, now, settings, rows, mgr, main, sessions, quiet>>

Name == setup.name
Names == {Name[s] : s \in Servers}
Delay == setup.delay
Faults == setup.faults

NoRow == [status |-> "none", id |-> 0, session |-> 0, lastaccess |-> 0]
Present == {n \in Names : rows[n].status # "none"}
Cluster(s) == Name[s] # ""

\* A transaction succeeds; or the connection is lost when it begins ("down"),
\* after it has read the table ("late"), or when it commits, the commit being
\* carried out all the same ("lost"); or a statement fails for good ("fail").
Outcomes == {"ok"} \cup (Faults \cap {"down", "late", "lost", "fail"})

DbStatus(out) == IF out = "ok" THEN "ok" ELSE "down"
Applied(out, new) == IF out \in {"ok", "lost"} THEN new ELSE rows

----------------------------------------------------------------------------
(* Messages from the manager to the main process. *)

Heartbeat == [status |-> "heartbeat", delay |-> 0]
StatusUpdate(m) == [status |-> m.status, delay |-> m.delay]

\* heartbeats that wait together are as good as one; of the messages sent at a
\* time only the last is a heartbeat
Queued(inbox, msgs) ==
    IF msgs = <<Heartbeat>> /\ inbox # <<>> /\ Last(inbox) = Heartbeat THEN inbox
    ELSE inbox \o msgs

Send(s, msgs) ==
    main' = IF main[s].pc = "stopping" THEN main
            ELSE [main EXCEPT ![s].inbox = Queued(@, msgs)]

\* mutant: the heartbeat does not depend on the database
HeartbeatsAlways(m) == <<Heartbeat>>

\* an active manager that has lost the database stops sending heartbeats
Heartbeats(m) ==
    IF m.db = "ok" \/ m.status # "active" THEN <<Heartbeat>> ELSE <<>>

----------------------------------------------------------------------------
(* The manager's start and registration. *)

FirstCheck(status) == IF status = "standby" THEN 3 * Poll ELSE Poll

\* the manager process at its start; init is TRUE until its loop begins
NewManager(status) ==
    [pc |-> IF status = "unknown" THEN "create" ELSE "run",
     init |-> status = "unknown", status |-> status, db |-> "down", id |-> 0,
     delay |-> DefaultDelay, seen |-> 0, ticks |-> 0, wait |-> FirstCheck(status),
     ticked |-> FALSE, target |-> 0]

\* What follows a registration or a check that leaves the manager as m: the
\* parent is told of a new status, the next check is set, a heartbeat is sent.
\* A manager in error waits to be stopped.
Concluded(s, m) ==
    LET news == m.status # mgr[s].status /\ m.status # "unknown"
        told == IF news THEN <<StatusUpdate(m)>> ELSE <<>>
        wait == IF m.init THEN FirstCheck(m.status) ELSE IF m.db = "ok" THEN Poll ELSE 1
    IN  /\ mgr' = [mgr EXCEPT ![s] =
                      [m EXCEPT !.pc = IF m.status = "error" THEN "paused" ELSE "run",
                                !.init = FALSE, !.wait = wait, !.ticked = ~m.init]]
        /\ IF m.init THEN UNCHANGED main
           ELSE Send(s, told \o (IF m.status = "error" THEN <<>> ELSE Heartbeats(m)))

\* ha_is_available: nodes in use according to the failover delay
InUse(delay) ==
    {n \in Present : rows[n].status # "stopped" /\ rows[n].lastaccess + delay > now}

\* mutant: a standalone server in use does not forbid a cluster node
ConflictNamed(s, delay) ==
    IF Cluster(s) THEN Name[s] \in InUse(delay) ELSE InUse(delay) \ {""} # {}

\* ha_check_cluster_config and ha_check_standalone_config: what forbids a start
Conflict(s, delay) ==
    IF Cluster(s) THEN {"", Name[s]} \cap InUse(delay) # {}
    ELSE InUse(delay) \ {""} # {}

\* ha_check_cluster_config: the server may start in active mode
Activate(s, delay) ==
    Cluster(s) => \A n \in InUse(delay) : rows[n].status \notin {"active", "standby"}

\* ha_db_create_node, which does not lock the table
CreateNode(s, out) ==
    LET m == [mgr[s] EXCEPT !.db = DbStatus(out),
                            !.delay = IF out = "down" THEN @ ELSE settings]
        new == [status |-> "stopped", id |-> main[s].session, session |-> 0,
                lastaccess |-> now]
        found == Name[s] \in Present
        error == out = "fail" \/ (out # "down" /\ ~found /\ Conflict(s, m.delay))
    IN  /\ mgr[s].pc = "create"
        /\ rows' = IF found \/ error THEN rows
                   ELSE Applied(out, [rows EXCEPT ![Name[s]] = new])
        /\ \/ /\ error
              /\ Concluded(s, [m EXCEPT !.status = "error"])
           \/ /\ ~error /\ out # "ok" /\ m.id = 0
              /\ Concluded(s, m)
           \/ /\ ~error /\ (out = "ok" \/ m.id # 0)
              /\ mgr' = [mgr EXCEPT ![s] =
                            [m EXCEPT !.pc = "register",
                                      !.id = IF out = "ok" THEN rows'[Name[s]].id ELSE @]]
              /\ UNCHANGED main
        /\ UNCHANGED <<now, settings, sessions, quiet>>

\* ha_db_check_unavailable_nodes: the rows r with the nodes that have not been
\* updated for the failover delay marked unavailable, except the one with id
Unavailable(r, id, delay) ==
    [n \in Names |->
        IF /\ rows[n].status \in {"standby", "active"} /\ rows[n].id # id
           /\ now >= rows[n].lastaccess + delay
           /\ r[n].status # "none"
        THEN [r[n] EXCEPT !.status = "unavailable"] ELSE r[n]]

\* the registry without the rows of the other kind of server
OwnKind(s, r) == [n \in Names |-> IF (n # "") = Cluster(s) THEN r[n] ELSE NoRow]

\* update ha_node ... where ha_nodeid = id
Updated(r, n, id, row) ==
    IF r[n].status # "none" /\ r[n].id = id THEN [r EXCEPT ![n] = row] ELSE r

\* mutant: the status the manager had is written, not the new one
RegisteredUnknown(s, id, status, delay) ==
    Updated(rows, Name[s], id,
            [rows[Name[s]] EXCEPT !.status = mgr[s].status, !.lastaccess = now,
                                  !.session = main[s].session])

Registered(s, id, status, delay) ==
    LET r == OwnKind(s, Updated(rows, Name[s], id,
                 [rows[Name[s]] EXCEPT !.status = status, !.lastaccess = now,
                                       !.session = main[s].session]))
    IN  IF Cluster(s) /\ status = "active" THEN Unavailable(r, id, delay) ELSE r

\* ha_db_register_node after the row exists, with the table locked
RegisterNode(s, out) ==
    LET m == [mgr[s] EXCEPT !.db = DbStatus(out)]
        error == \/ out = "fail"
                 \/ out # "down" /\ (Conflict(s, m.delay) \/ Name[s] \notin Present)
        status == IF Activate(s, m.delay) THEN "active" ELSE "standby"
    IN  /\ mgr[s].pc = "register"
        /\ rows' = IF error THEN rows ELSE Applied(out, Registered(s, m.id, status, m.delay))
        /\ Concluded(s, [m EXCEPT !.status = IF error THEN "error"
                                             ELSE IF out = "ok" THEN status ELSE @])
        /\ UNCHANGED <<now, settings, sessions, quiet>>

----------------------------------------------------------------------------
(* The manager's loop. *)

\* a second without a check
Tick(s) ==
    /\ mgr[s].pc = "run" /\ ~mgr[s].ticked /\ mgr[s].wait > 1
    /\ mgr' = [mgr EXCEPT ![s].wait = @ - 1, ![s].ticked = TRUE]
    /\ Send(s, Heartbeats(mgr[s]))
    /\ UNCHANGED <<now, settings, rows, sessions, quiet>>

\* the check is due, and once begun keeps the manager from anything else
CheckDue(s) == mgr[s].pc = "run" /\ ~mgr[s].ticked /\ mgr[s].wait <= 1

\* the node is not registered yet: try again
RetryRegister(s) ==
    /\ CheckDue(s) /\ mgr[s].status = "unknown"
    /\ mgr' = [mgr EXCEPT ![s].pc = "create", ![s].ticked = TRUE]
    /\ UNCHANGED <<now, settings, rows, main, sessions, quiet>>

\* mutant: one check is enough for a takeover
TakeoverDueAtOnce(m) == m.ticks > 0

\* mutant: one more missed update is needed for a takeover
TakeoverDueLate(m) == m.delay \div Poll + 1 < m.ticks

TakeoverDue(m) == m.delay \div Poll < m.ticks

\* the manager has seen the lastaccess of the active node
Observed(m, lastaccess) ==
    IF lastaccess # m.seen THEN [m EXCEPT !.seen = lastaccess, !.ticks = 0]
    ELSE [m EXCEPT !.ticks = @ + 1]

Ownership(s) == Name[s] \in Present /\ rows[Name[s]].session = main[s].session

Kept(s, m, status) ==
    Updated(rows, Name[s], m.id,
            [rows[Name[s]] EXCEPT !.status = status, !.lastaccess = now])

\* how ha_check_nodes ends: rows new, status if it committed
Checked(s, m, out, status, new) ==
    /\ rows' = Applied(out, new)
    /\ Concluded(s, [m EXCEPT !.status = IF out = "ok" THEN status ELSE @])

\* ha_check_nodes.  a is the first active node in the order of the node ids,
\* which is arbitrary.
CheckNodes(s, out) ==
    LET m0 == mgr[s]
        m == [m0 EXCEPT !.db = DbStatus(out), !.delay = settings,
                        !.id = IF @ = 0 THEN rows[Name[s]].id ELSE @]
        actives == {n \in Present : rows[n].status = "active"}
        own == {n \in actives : rows[n].id = m.id}
        Error == rows' = rows /\ Concluded(s, [m0 EXCEPT !.status = "error"])
    IN  /\ CheckDue(s) /\ m0.status # "unknown"
        /\ \/ out = "down" /\ rows' = rows /\ Concluded(s, [m0 EXCEPT !.db = "down"])
           \/ out = "fail" /\ Error
           \/ out \notin {"down", "fail"} /\ ~Ownership(s) /\ Error
           \/ /\ out \notin {"down", "fail"} /\ Ownership(s)
              /\ \/ /\ ~Cluster(s)
                    /\ Checked(s, m, out, m.status, Kept(s, m, m.status))
                 \/ /\ Cluster(s) /\ m.status = "active"
                    /\ Checked(s, m, out, "active",
                               Unavailable(Kept(s, m, "active"), m.id, m.delay))
                 \/ /\ Cluster(s) /\ m.status # "active" /\ actives = {}
                    /\ Checked(s, m, out, "active", Kept(s, m, "active"))
                 \/ /\ Cluster(s) /\ m.status # "active"
                    /\ \E a \in actives :
                          \/ a = "" /\ Error
                          \/ a \in own /\ a # "" /\ Checked(s, m, out, "active", Kept(s, m, "active"))
                          \/ /\ a # "" /\ a \notin own
                             /\ LET o == Observed(m, rows[a].lastaccess)
                                IN  IF TakeoverDue(o)
                                    THEN Checked(s, o, out, "active",
                                                 [Kept(s, m, "active") EXCEPT ![a].status = "unavailable"])
                                    ELSE Checked(s, o, out, m.status, Kept(s, m, m.status))
        /\ UNCHANGED <<now, settings, sessions, quiet>>

----------------------------------------------------------------------------
(* Runtime commands, which only an active server carries out. *)

Commanded(s) ==
    /\ main[s].pc = "run" /\ main[s].status = "active"
    /\ mgr[s].pc = "run" /\ mgr[s].db = "ok" /\ ~CheckDue(s)

\* mutant: the status of the node is not looked at
RemoveSelectAny(s, n) ==
    /\ "remove" \in Faults /\ Commanded(s)
    /\ n \in Present
    /\ mgr' = [mgr EXCEPT ![s].pc = "removing", ![s].target = rows[n].id]
    /\ UNCHANGED <<now, settings, rows, main, sessions, quiet>>

\* ha_remove_node_impl: the row is read without a lock ...
RemoveSelect(s, n) ==
    /\ "remove" \in Faults /\ Commanded(s)
    /\ n \in Present /\ rows[n].status \notin {"active", "standby"}
    /\ mgr' = [mgr EXCEPT ![s].pc = "removing", ![s].target = rows[n].id]
    /\ UNCHANGED <<now, settings, rows, main, sessions, quiet>>

\* ... and deleted by its id
RemoveDelete(s, out) ==
    /\ mgr[s].pc = "removing"
    /\ rows' = Applied(out, [n \in Names |-> IF rows[n].id = mgr[s].target THEN NoRow ELSE rows[n]])
    /\ mgr' = [mgr EXCEPT ![s].pc = "run", ![s].target = 0, ![s].db = DbStatus(out)]
    /\ UNCHANGED <<now, settings, main, sessions, quiet>>

\* mutant: the main process is not told
SetFailoverDelayUntold(s, d) ==
    /\ "delay" \in Faults /\ Commanded(s) /\ settings = Delay /\ d # Delay
    /\ settings' = d
    /\ mgr' = [mgr EXCEPT ![s].delay = d]
    /\ UNCHANGED <<now, rows, main, sessions, quiet>>

\* ha_set_failover_delay and ha_update_parent (bound: the delay is changed once)
SetFailoverDelay(s, d) ==
    /\ "delay" \in Faults /\ Commanded(s) /\ settings = Delay /\ d # Delay
    /\ settings' = d
    /\ mgr' = [mgr EXCEPT ![s].delay = d]
    /\ Send(s, <<StatusUpdate(mgr'[s])>>)
    /\ UNCHANGED <<now, rows, sessions, quiet>>

----------------------------------------------------------------------------
(* The main process. *)

Off == [pc |-> "off", status |-> "unknown", old |-> "unknown", hb |-> 0,
        delay |-> DefaultDelay, inbox |-> <<>>, session |-> 0]

\* zbx_init_library_ha and zbx_ha_start
Start(s) ==
    /\ main[s].pc = "off" /\ sessions < setup.maxStarts
    /\ sessions' = sessions + 1
    /\ main' = [main EXCEPT ![s] = [Off EXCEPT !.pc = "boot", !.session = sessions + 1]]
    /\ mgr' = [mgr EXCEPT ![s] = NewManager("unknown")]
    /\ quiet' = [quiet EXCEPT ![s] = 0]
    /\ UNCHANGED <<now, settings, rows>>

\* mutant: the manager is not restarted
RestartMainOnly(s, p, old) ==
    /\ main' = [main EXCEPT ![s] = [p EXCEPT !.pc = "run", !.status = "standby",
                                             !.old = old, !.inbox = <<>>]]
    /\ UNCHANGED mgr

\* server_teardown and server_restart_ha: the manager is killed and started
\* again in standby mode; what the killed one sent is read and dropped
Restart(s, p, old) ==
    /\ main' = [main EXCEPT ![s] = [p EXCEPT !.pc = "run", !.status = "standby",
                                             !.old = old, !.inbox = <<>>]]
    /\ mgr' = [mgr EXCEPT ![s] = NewManager("standby")]

Stopping(s) ==
    /\ main' = [main EXCEPT ![s].pc = "stopping", ![s].inbox = <<>>]
    /\ UNCHANGED mgr

Answers(s) == mgr[s].pc \in {"run", "paused", "removing"}

\* zbx_ha_get_status: the manager's answer, or what a timeout stands for
StatusAnswer(s) == [status |-> mgr[s].status, delay |-> mgr[s].delay]
NoAnswer(s) == [status |-> IF Cluster(s) THEN "standby" ELSE "active", delay |-> main[s].delay]

\* the main process learns its first status from answer a
Boot(s, a) ==
    /\ main[s].pc = "boot"
    /\ \/ a = StatusAnswer(s) /\ Answers(s)
       \/ a = NoAnswer(s) /\ ~Answers(s) /\ "hang" \in Faults
    /\ IF a.status = "error" THEN Stopping(s)
       ELSE /\ main' = [main EXCEPT ![s].pc = IF a.status = "active" THEN "starting" ELSE "run",
                                    ![s].status = a.status, ![s].old = a.status,
                                    ![s].delay = a.delay]
            /\ UNCHANGED mgr
    /\ UNCHANGED <<now, settings, rows, sessions, quiet>>

\* server_startup has ended: it asks for the status again
Started(s, a) ==
    LET p == [main[s] EXCEPT !.delay = a.delay]
    IN  /\ main[s].pc = "starting"
        /\ \/ a = StatusAnswer(s) /\ Answers(s)
           \/ a = NoAnswer(s) /\ "hang" \in Faults
        /\ \/ a.status = "error" /\ Stopping(s)
           \/ a.status = "standby" /\ Restart(s, p, "standby")
           \/ /\ a.status = "active"
              /\ main' = [main EXCEPT ![s] = [p EXCEPT !.pc = "run", !.hb = now,
                                                       !.status = "active", !.old = "active"]]
              /\ UNCHANGED mgr
        /\ UNCHANGED <<now, settings, rows, sessions, quiet>>

\* mutant: the main process waits for the whole failover delay
ExpiredLate(s, p) == Cluster(s) /\ p.hb # 0 /\ p.hb + p.delay + Poll <= now

\* no heartbeat for the failover delay less the poll period
Expired(s, p) == Cluster(s) /\ p.hb # 0 /\ p.hb + p.delay - Poll <= now

\* what the main loop does with the state p zbx_ha_dispatch_message leaves
Loop(s, p) ==
    LET q == [p EXCEPT !.hb = 0]
    IN  \/ /\ Expired(s, p)                      \* standby, or HA manager timeout
           /\ Restart(s, q, IF p.status = "active" THEN "standby" ELSE p.old)
        \/ /\ ~Expired(s, p) /\ p.status \notin {p.old, "unknown"}
           /\ IF p.status = "standby" THEN Restart(s, p, "standby")
              ELSE /\ main' = [main EXCEPT ![s] = [p EXCEPT !.pc = "starting", !.old = "active"]]
                   /\ UNCHANGED mgr
        \/ /\ ~Expired(s, p) /\ p.status \in {p.old, "unknown"}
           /\ main' = [main EXCEPT ![s] = p]
           /\ UNCHANGED mgr

\* zbx_ha_dispatch_message with a message
Receive(s) ==
    LET msg == Head(main[s].inbox)
        p == [main[s] EXCEPT !.inbox = Tail(@)]
        hb == IF msg = Heartbeat \/ msg.status # p.status THEN now ELSE p.hb
    IN  /\ main[s].pc = "run" /\ main[s].inbox # <<>>
        /\ \/ msg.status = "error" /\ Stopping(s)
           \/ msg = Heartbeat /\ Loop(s, [p EXCEPT !.hb = hb])
           \/ /\ msg # Heartbeat /\ msg.status # "error"
              /\ Loop(s, [p EXCEPT !.status = msg.status, !.delay = msg.delay, !.hb = hb])
        /\ UNCHANGED <<now, settings, rows, sessions, quiet>>

\* zbx_ha_dispatch_message when there was none
Timeout(s) ==
    /\ main[s].pc = "run" /\ main[s].inbox = <<>> /\ Expired(s, main[s])
    /\ Loop(s, main[s])
    /\ UNCHANGED <<now, settings, rows, sessions, quiet>>

\* a signal, or a startup that fails
Stop(s) ==
    /\ "stop" \in Faults /\ main[s].pc \in {"run", "starting"}
    /\ Stopping(s)
    /\ UNCHANGED <<now, settings, rows, sessions, quiet>>

\* zbx_ha_pause
Pause(s) ==
    /\ main[s].pc = "stopping" /\ mgr[s].pc = "run" /\ ~CheckDue(s)
    /\ mgr' = [mgr EXCEPT ![s].pc = "paused", ![s].wait = Poll]
    /\ UNCHANGED <<now, settings, rows, main, sessions, quiet>>

\* a paused manager keeps its row: at least once in every poll period
Keeping(s) == mgr[s].pc = "paused" /\ mgr[s].status \in {"active", "standby"}

\* mutant: a paused manager leaves its row alone
UpdateLastaccessNot(s, out) ==
    /\ Keeping(s) /\ ~mgr[s].ticked
    /\ mgr' = [mgr EXCEPT ![s].ticked = TRUE, ![s].wait = Poll]
    /\ UNCHANGED <<now, settings, rows, main, sessions, quiet>>

\* ha_db_update_lastaccess, after a poll period or because of a message.  A lock
\* or an update that fails is rolled back and leaves the manager as it is; a
\* begin or a commit that fails puts it in error.
UpdateLastaccess(s, out) ==
    /\ Keeping(s) /\ ~mgr[s].ticked
    /\ rows' = Applied(out, Updated(rows, Name[s], mgr[s].id,
                                    [rows[Name[s]] EXCEPT !.lastaccess = now]))
    /\ \E error \in {FALSE, out = "fail"} :
          mgr' = [mgr EXCEPT ![s].ticked = TRUE, ![s].wait = Poll,
                             ![s].db = IF out = "fail" /\ ~error THEN "ok" ELSE DbStatus(out),
                             ![s].status = IF error THEN "error" ELSE @]
    /\ UNCHANGED <<now, settings, main, sessions, quiet>>

\* zbx_ha_stop: ha_db_update_exit_status, then both processes end
Stopped(s, out) ==
    /\ main[s].pc = "stopping" /\ mgr[s].pc = "paused"
    /\ rows' = IF mgr[s].status \notin {"active", "standby"} THEN rows
               ELSE Applied(out, Updated(rows, Name[s], mgr[s].id,
                                         [rows[Name[s]] EXCEPT !.status = "stopped"]))
    /\ main' = [main EXCEPT ![s] = Off]
    /\ mgr' = [mgr EXCEPT ![s] = [NewManager("unknown") EXCEPT !.pc = "off"]]
    /\ UNCHANGED <<now, settings, sessions, quiet>>

\* the server's processes, or its machine, die
Crash(s) ==
    /\ "crash" \in Faults /\ main[s].pc # "off"
    /\ main' = [main EXCEPT ![s] = Off]
    /\ mgr' = [mgr EXCEPT ![s] = [NewManager("unknown") EXCEPT !.pc = "off"]]
    /\ UNCHANGED <<now, settings, rows, sessions, quiet>>

----------------------------------------------------------------------------
(* Time. *)

\* the server's processes collect and process data
Acting(s) == main[s].pc = "starting" \/ (main[s].pc = "run" /\ main[s].status = "active")

Idle(s) ==
    /\ mgr[s].pc = "run" /\ mgr[s].status = "standby"
    /\ ~\E t \in Servers : Acting(t) \/ main[t].pc = "stopping"

\* A main process answers within the second, unless it is in server_startup
\* ("slowstart").  A manager does something every second, except that the
\* database may keep it waiting in a check or a registration ("slow").
Timely(s) ==
    /\ main[s].pc = "boot" => ~Answers(s)
    /\ main[s].pc = "starting" => "slowstart" \in Faults
    /\ main[s].pc = "run" => main[s].inbox = <<>> /\ ~Expired(s, main[s])
    /\ mgr[s].pc = "run" => \/ mgr[s].ticked /\ main[s].pc # "stopping"
                            \/ mgr[s].wait <= 1 /\ "slow" \in Faults
    /\ mgr[s].pc \in {"create", "register"} => "slow" \in Faults
    /\ mgr[s].pc # "removing" /\ (Keeping(s) => mgr[s].wait > 0)

Advance ==
    /\ now < setup.maxTime
    /\ \A s \in Servers : Timely(s)
    /\ now' = now + 1
    /\ mgr' = [s \in Servers |-> [mgr[s] EXCEPT !.ticked = FALSE,
                                                !.wait = IF Keeping(s) THEN @ - 1 ELSE @]]
    /\ quiet' = [s \in Servers |-> IF Idle(s) THEN quiet[s] + 1 ELSE 0]
    /\ UNCHANGED <<settings, rows, main, sessions>>

\* the bounded time is over
Horizon == now = setup.maxTime /\ UNCHANGED <<now, settings, rows, mgr, main, sessions, quiet>>

----------------------------------------------------------------------------
Init ==
    /\ setup \in Setups
    /\ now = 1 /\ settings = Delay /\ sessions = 0
    /\ rows = [n \in Names |-> NoRow]
    /\ mgr = [s \in Servers |-> [NewManager("unknown") EXCEPT !.pc = "off"]]
    /\ main = [s \in Servers |-> Off]
    /\ quiet = [s \in Servers |-> 0]

Manage(s) ==
    \/ Tick(s) \/ RetryRegister(s) \/ Pause(s)
    \/ \E out \in Outcomes :
          \/ CreateNode(s, out) \/ RegisterNode(s, out) \/ CheckNodes(s, out)
          \/ RemoveDelete(s, out) \/ UpdateLastaccess(s, out) \/ Stopped(s, out)
    \/ \E n \in Names : RemoveSelect(s, n)
    \/ \E d \in Delays : SetFailoverDelay(s, d)

Lead(s) ==
    \/ Start(s) \/ Receive(s) \/ Timeout(s) \/ Stop(s) \/ Crash(s)
    \/ \E a \in {StatusAnswer(s), NoAnswer(s)} : Boot(s, a) \/ Started(s, a)

Next ==
    /\ \/ Advance \/ Horizon
       \/ \E s \in Servers : Manage(s) \/ Lead(s)
    /\ UNCHANGED setup

Spec == Init /\ [][Next]_vars

----------------------------------------------------------------------------
(* Properties. *)

NodeStatuses == {"standby", "stopped", "unavailable", "active"}
Statuses == {"unknown", "standby", "active", "error"}

Node == [status : NodeStatuses \cup {"none"}, id : Nat, session : Nat, lastaccess : Nat]

Manager ==
    [pc : {"off", "create", "register", "run", "removing", "paused"},
     init : BOOLEAN, status : Statuses, db : {"ok", "down"}, id : Nat, delay : Delays,
     seen : Nat, ticks : Nat, wait : Nat, ticked : BOOLEAN, target : Nat]

Message == {Heartbeat} \cup [status : Statuses, delay : Delays]

MainProcess ==
    [pc : {"off", "boot", "run", "starting", "stopping"}, status : Statuses, old : Statuses,
     hb : Nat, delay : Delays, inbox : Seq(Message), session : Nat]

\* Every variable has its type.
TypeOK ==
    /\ setup \in Setups /\ now \in Nat /\ settings \in Delays /\ sessions \in Nat
    /\ rows \in [Names -> Node]
    /\ mgr \in [Servers -> Manager]
    /\ main \in [Servers -> MainProcess]
    /\ quiet \in [Servers -> Nat]

\* Two servers never collect and process data at the same time: the main
\* process of the old active server has stood down before another takes over.
SingleActing == \A s, t \in Servers : Acting(s) /\ Acting(t) => s = t

\* While an active server shuts down, its processes still writing, its manager
\* keeps the row and no other server takes over.
StoppingHolds ==
    \A s, t \in Servers :
        main[s].pc = "stopping" /\ main[s].status = "active" /\ mgr[s].status = "active"
        => s = t \/ ~Acting(t)

\* The registry never has two active nodes, and a server that acts owns the
\* active one, under its session.
ActingOwnsRow ==
    /\ \A n, k \in Present : rows[n].status = "active" /\ rows[k].status = "active" => n = k
    /\ \A s \in Servers : Acting(s) =>
           rows[Name[s]].status = "active" /\ rows[Name[s]].session = main[s].session

\* A node is marked unavailable only when it has not been updated for the
\* failover delay.
TakeoverAfterDelay ==
    [][\A n \in Names :
          rows[n].status \in {"active", "standby"} /\ rows'[n].status = "unavailable"
          => rows[n].lastaccess + settings <= now]_vars

\* When all messages have been read, a server whose manager is active acts,
\* unless the manager may keep its main process waiting for the first status.
StatusAgrees ==
    "hang" \notin Faults => \A s \in Servers :
        mgr[s].pc = "run" /\ mgr[s].status = "active" /\ main[s].pc = "run" /\ main[s].inbox = <<>>
        => main[s].status = "active"

\* While a healthy standby server is there, a server acts again at the latest
\* after the failover delay and the checks that notice it.
FailoverInTime == \A s \in Servers : quiet[s] <= Delay + 4 * Poll
=============================================================================
