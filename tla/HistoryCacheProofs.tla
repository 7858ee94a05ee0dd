------------------------- MODULE HistoryCacheProofs -------------------------
(* Theorems about HistoryCache, for all values of its constants: the locks   *)
(* of triggers, and the timers of trend functions.                           *)
EXTENDS HistoryCache, FiniteSetTheorems, TLAPS

PCs == {"off", "pop", "lock", "return", "write", "timers", "evaluate", "push", "done"}

\* the state of a process; B bounds what it holds, whatever that is
States(B) ==
    [pc : PCs, batch : SUBSET B, ready : SUBSET B, trig : SUBSET B,
     held : SUBSET Timed, mine : SUBSET Timed, failed : BOOLEAN, last : BOOLEAN]

Shape == \E B : syncer \in [Procs -> States(B)]

\* what the place of a process in its pass says about the locks and timers it has
Own(x) ==
    /\ x.pc \in {"off", "pop", "lock", "return", "push", "done"} => x.trig = {}
    /\ x.pc # "evaluate" => x.mine = {} /\ x.held = {}
    /\ x.ready = {} => x.trig = {}
    /\ x.mine \subseteq x.held

LockInv ==
    /\ Shape
    /\ \A s \in Procs : Own(syncer[s])
    /\ LocksHeld
    /\ Abandoned => \A s \in Syncers : At(s, "done")

----------------------------------------------------------------------------
(* Steps of one process. *)

\* A process gives back what it held and takes what nobody has.
LEMMA LockStep ==
    ASSUME LockInv, ~Abandoned, NEW s \in Procs, NEW x,
           Shape', syncer' = [syncer EXCEPT ![s] = x], Own(x), x.pc # "off",
           server' = server,
           LET h == x.trig \cup x.mine
           IN  (h \ Holds(s)) \cap locked = {} /\ locked' = (locked \ Holds(s)) \cup h
    PROVE  LockInv'
<1> DEFINE h == x.trig \cup x.mine
<1>1. PICK B : syncer \in [Procs -> States(B)]
  BY DEF LockInv, Shape
<1>2. syncer'[s] = x /\ \A r \in Procs \ {s} : syncer'[r] = syncer[r]
  BY <1>1
<1>3. Holds(s)' = h /\ \A r \in Procs \ {s} : Holds(r)' = Holds(r)
  BY <1>2 DEF Holds
<1>4. \A r \in Procs : Own(syncer'[r])
  BY <1>2 DEF LockInv
<1>5. ~Abandoned'
  <2>1. CASE s = Main  BY <1>2, <2>1 DEF Abandoned, At
  <2>2. CASE s # Main
    <3>1. syncer'[Main] = syncer[Main]  BY <1>2, <2>2 DEF Procs
    <3> QED  BY <3>1 DEF Abandoned, At
  <2> QED  BY <2>1, <2>2
<1>6. locked = UNION {Holds(r) : r \in Procs}
  BY DEF LockInv, LocksHeld
<1>7. \A r \in Procs : Holds(r) \subseteq locked
  BY <1>6
<1>8. \A r, u \in Procs : r # u => Holds(r)' \cap Holds(u)' = {}
  <2> SUFFICES ASSUME NEW r \in Procs, NEW u \in Procs, r # u
               PROVE  Holds(r)' \cap Holds(u)' = {}
    OBVIOUS
  <2>1. Holds(r) \cap Holds(u) = {}  BY DEF LockInv, LocksHeld
  <2>2. CASE r = s  BY <1>3, <1>7, <2>1, <2>2
  <2>3. CASE u = s  BY <1>3, <1>7, <2>1, <2>3
  <2>4. CASE r # s /\ u # s  BY <1>3, <2>1, <2>4
  <2> QED  BY <2>2, <2>3, <2>4
<1>9. locked' = UNION {Holds(r)' : r \in Procs}
  <2>1. ASSUME NEW t \in locked' PROVE \E r \in Procs : t \in Holds(r)'
    <3>1. CASE t \in h  BY <1>3, <3>1
    <3>2. CASE t \in locked /\ t \notin Holds(s)
      <4>1. PICK r \in Procs : t \in Holds(r)  BY <1>6, <3>2
      <4>2. r # s  BY <3>2, <4>1
      <4> QED  BY <1>3, <4>1, <4>2
    <3> QED  BY <2>1, <3>1, <3>2
  <2>2. ASSUME NEW r \in Procs, NEW t \in Holds(r)' PROVE t \in locked'
    <3>1. CASE r = s  BY <1>3, <2>2, <3>1
    <3>2. CASE r # s
      <4>1. t \in Holds(r) /\ Holds(r) \cap Holds(s) = {}
        BY <1>3, <2>2, <3>2 DEF LockInv, LocksHeld
      <4> QED  BY <1>7, <4>1
    <3> QED  BY <3>1, <3>2
  <2> QED  BY <2>1, <2>2
<1> QED  BY <1>4, <1>5, <1>8, <1>9 DEF LockInv, LocksHeld

\* The state in which a process begins its next pass, or ends.
LEMMA NextPassShape ==
    ASSUME NEW s \in Procs, NEW more \in BOOLEAN, NEW B, syncer \in [Procs -> States(B)]
    PROVE  /\ NextPass(s, more) \in States(B)
           /\ Own(NextPass(s, more))
           /\ NextPass(s, more).pc \in {"pop", "done"}
           /\ NextPass(s, more).trig = {} /\ NextPass(s, more).mine = {}
           /\ NextPass(s, more).held = {}
BY DEF NextPass, Idle, States, PCs, Own

\* Every step of a pass keeps the locks in order.
LEMMA PassLocks ==
    ASSUME LockInv, NEW s \in Procs, Pass(s)
    PROVE  LockInv'
<1>1. PICK B : syncer \in [Procs -> States(B)]
  BY DEF LockInv, Shape
<1>2. Own(syncer[s]) /\ syncer[s] \in States(B)
  BY <1>1 DEF LockInv
<1>3. syncer[s].pc \in {"pop", "lock", "return", "write", "timers", "evaluate", "push"}
  BY DEF Pass, PopItems, LockTriggers, ReturnItems, WriteHistory, GetTimers, Evaluate, PushItems, At
<1>4. ~Abandoned
  BY <1>3 DEF LockInv, Abandoned, At, Procs
<1>5. Holds(s) \subseteq locked
  BY <1>4 DEF LockInv, LocksHeld
<1>6. server' = server
  BY DEF Pass, PopItems, LockTriggers, ReturnItems, WriteHistory, GetTimers, Evaluate, PushItems
\* a step that leaves the locks alone
<1>7. ASSUME NEW x, NEW C, x \in States(C), B \subseteq C, syncer' = [syncer EXCEPT ![s] = x],
             Own(x), x.pc # "off", x.trig \cup x.mine = Holds(s), locked' = locked
      PROVE  LockInv'
  <2>1. Shape'
    <3>1. \A r \in Procs : syncer[r] \in States(C)  BY <1>1, <1>7 DEF States
    <3> QED  BY <1>1, <1>7, <3>1 DEF Shape
  <2> QED  BY <1>4, <1>5, <1>6, <1>7, <2>1, LockStep
<1>8. CASE PopItems(s)
  <2>1. PICK b \in SUBSET history_queue :
            syncer' = [syncer EXCEPT ![s].pc = IF b = {} THEN "timers" ELSE "lock", ![s].batch = b]
    BY <1>8 DEF PopItems
  <2> DEFINE x == [syncer[s] EXCEPT !.pc = IF b = {} THEN "timers" ELSE "lock", !.batch = b]
  <2>2. syncer' = [syncer EXCEPT ![s] = x]  BY <2>1
  <2>3. x \in States(B \cup history_queue)  BY <1>2 DEF States, PCs
  <2>4. syncer[s].pc = "pop" /\ locked' = locked  BY <1>8 DEF PopItems, At
  <2>5. /\ x.pc \in {"timers", "lock"} /\ x.trig = syncer[s].trig /\ x.mine = syncer[s].mine
        /\ x.held = syncer[s].held
    BY <1>2 DEF States
  <2>6. Own(x) /\ x.pc # "off" /\ x.trig \cup x.mine = Holds(s)
    BY <1>2, <2>4, <2>5 DEF Own, Holds
  <2> QED  BY <1>7, <2>2, <2>3, <2>4, <2>6
<1>9. CASE LockTriggers(s)
  <2>1. PICK ready \in Lockable(syncer[s].batch) :
            LET trig == UNION {TriggersOf(i) : i \in ready}
            IN  /\ locked' = locked \cup trig
                /\ syncer' = [syncer EXCEPT ![s].pc = IF ready = {} THEN "return" ELSE "write",
                                            ![s].ready = ready, ![s].trig = trig]
    BY <1>9 DEF LockTriggers
  <2> DEFINE trig == UNION {TriggersOf(i) : i \in ready}
             x == [syncer[s] EXCEPT !.pc = IF ready = {} THEN "return" ELSE "write",
                                    !.ready = ready, !.trig = trig]
             C == B \cup trig
  <2>2. ready \subseteq syncer[s].batch /\ Compatible(ready)  BY <2>1 DEF Lockable
  <2>3. trig \cap locked = {}
    <3>1. \A i \in ready : TriggersOf(i) \cap locked = {}  BY <2>2 DEF Compatible
    <3> QED  BY <3>1
  <2>4. ready = {} => trig = {}  OBVIOUS
  <2>5. syncer' = [syncer EXCEPT ![s] = x]  BY <2>1
  <2> HIDE DEF trig
  <2>6. x \in States(C)  BY <1>2, <2>2 DEF States, PCs
  <2>7. syncer[s].pc = "lock"  BY <1>9 DEF LockTriggers, At
  <2>8. /\ x.pc = (IF ready = {} THEN "return" ELSE "write")
        /\ x.trig = trig /\ x.mine = syncer[s].mine /\ x.held = syncer[s].held /\ x.ready = ready
    BY <1>2 DEF States
  <2>9. Holds(s) = {} /\ x.mine = {} /\ x.held = {}  BY <1>2, <2>7, <2>8 DEF Own, Holds
  <2>10. Own(x) /\ x.pc # "off"  BY <2>4, <2>8, <2>9 DEF Own
  <2>11. Shape'
    <3>1. \A r \in Procs : syncer[r] \in States(C)  BY <1>1 DEF States
    <3> QED  BY <1>1, <2>5, <2>6, <3>1 DEF Shape
  <2>12. locked' = locked \cup trig  BY <2>1 DEF trig
  <2>13. LET h == x.trig \cup x.mine
         IN  (h \ Holds(s)) \cap locked = {} /\ locked' = (locked \ Holds(s)) \cup h
    BY <2>3, <2>8, <2>9, <2>12
  <2> HIDE DEF x
  <2> QED  BY <1>4, <1>6, <2>5, <2>10, <2>11, <2>13, LockStep
<1>10. CASE ReturnItems(s)
  <2> DEFINE x == [syncer[s] EXCEPT !.pc = "timers", !.batch = {}]
  <2>1. syncer' = [syncer EXCEPT ![s] = x] /\ syncer[s].pc = "return" /\ locked' = locked
    BY <1>10 DEF ReturnItems, At
  <2>2. x \in States(B)  BY <1>2 DEF States, PCs
  <2>3. /\ x.pc = "timers" /\ x.trig = syncer[s].trig /\ x.mine = syncer[s].mine
        /\ x.held = syncer[s].held
    BY <1>2 DEF States
  <2>4. Own(x) /\ x.pc # "off" /\ x.trig \cup x.mine = Holds(s)
    BY <1>2, <2>1, <2>3 DEF Own, Holds
  <2> QED  BY <1>7, <2>1, <2>2, <2>4
<1>11. ASSUME NEW off, NEW written \in BOOLEAN, WriteHistory(s, off, written)  PROVE LockInv'
  <2> DEFINE x == [syncer[s] EXCEPT !.pc = "timers", !.failed = ~written]
  <2>1. syncer' = [syncer EXCEPT ![s] = x] /\ syncer[s].pc = "write" /\ locked' = locked
    BY <1>11 DEF WriteHistory, At
  <2>2. x \in States(B)  BY <1>2 DEF States, PCs
  <2>3. /\ x.pc = "timers" /\ x.trig = syncer[s].trig /\ x.mine = syncer[s].mine
        /\ x.held = syncer[s].held /\ x.ready = syncer[s].ready
    BY <1>2 DEF States
  <2>4. Own(x) /\ x.pc # "off" /\ x.trig \cup x.mine = Holds(s)
    BY <1>2, <2>1, <2>3 DEF Own, Holds
  <2> QED  BY <1>7, <2>1, <2>2, <2>4
\* the end of a pass of a process that has no locks, or gives them all back
<1>12. ASSUME NEW more \in BOOLEAN, syncer' = [syncer EXCEPT ![s] = NextPass(s, more)],
              locked' = locked \ Holds(s)
       PROVE  LockInv'
  <2> DEFINE x == NextPass(s, more)
  <2>1. x \in States(B) /\ Own(x) /\ x.pc # "off" /\ x.trig = {} /\ x.mine = {}
    BY <1>1, NextPassShape
  <2> HIDE DEF x
  <2>2. syncer' = [syncer EXCEPT ![s] = x]  BY <1>12 DEF x
  <2>3. Shape'  BY <1>1, <2>1, <2>2 DEF Shape
  <2> QED  BY <1>4, <1>6, <1>12, <2>1, <2>2, <2>3, LockStep
<1>13. CASE GetTimers(s)
  <2> DEFINE due == IF server = "running" /\ ~syncer[s].failed THEN Due ELSE {}
             mine == due \ locked
             x == [syncer[s] EXCEPT !.pc = "evaluate", !.held = due, !.mine = mine]
  <2>1. syncer[s].pc = "timers" /\ locked' = locked \cup mine
    BY <1>13 DEF GetTimers, At
  <2>2. due \subseteq Timed  BY DEF Due
  <2>3. syncer[s].mine = {}  BY <1>2, <2>1 DEF Own
  <2>4. CASE syncer[s].ready # {} \/ due # {}
    <3>1. syncer' = [syncer EXCEPT ![s] = x]  BY <1>13, <2>4 DEF GetTimers
    <3> HIDE DEF due
    <3>2. x \in States(B)  BY <1>2, <2>2 DEF States, PCs
    <3>3. /\ x.pc = "evaluate" /\ x.trig = syncer[s].trig /\ x.mine = mine
          /\ x.held = due /\ x.ready = syncer[s].ready
      BY <1>2 DEF States
    <3>4. Own(x) /\ x.pc # "off"  BY <1>2, <3>3 DEF Own
    <3>5. Shape'  BY <1>1, <3>1, <3>2 DEF Shape
    <3>6. LET h == x.trig \cup x.mine
          IN  (h \ Holds(s)) \cap locked = {} /\ locked' = (locked \ Holds(s)) \cup h
      BY <1>5, <2>1, <2>3, <3>3 DEF Holds
    <3> HIDE DEF x
    <3> QED  BY <1>4, <1>6, <3>1, <3>4, <3>5, <3>6, LockStep
  <2>5. CASE syncer[s].ready = {} /\ due = {}
    <3>1. syncer' = [syncer EXCEPT ![s] = NextPass(s, FALSE)]
      BY <1>13, <2>5 DEF GetTimers, EndPass
    <3>2. Holds(s) = {}  BY <1>2, <2>3, <2>5 DEF Own, Holds
    <3>3. locked' = locked \ Holds(s)  BY <2>1, <2>5, <3>2
    <3> QED  BY <1>12, <3>1, <3>3
  <2> QED  BY <2>4, <2>5
<1>14. CASE Evaluate(s)
  <2> DEFINE x == [syncer[s] EXCEPT !.pc = "push", !.trig = {}, !.held = {}, !.mine = {},
                                    !.failed = FALSE]
  <2>1. locked' = locked \ Holds(s)  BY <1>14 DEF Evaluate, Unlock, Holds
  <2>2. CASE syncer[s].ready = {}
    <3>1. syncer' = [syncer EXCEPT ![s] = NextPass(s, FALSE)]
      BY <1>14, <2>2 DEF Evaluate, EndPass
    <3> QED  BY <1>12, <2>1, <3>1
  <2>3. CASE syncer[s].ready # {}
    <3>1. syncer' = [syncer EXCEPT ![s] = x]  BY <1>14, <2>3 DEF Evaluate
    <3>2. x \in States(B)  BY <1>2 DEF States, PCs
    <3>3. x.pc = "push" /\ x.trig = {} /\ x.mine = {} /\ x.held = {}  BY <1>2 DEF States
    <3>4. Own(x) /\ x.pc # "off"  BY <3>3 DEF Own
    <3>5. Shape'  BY <1>1, <3>1, <3>2 DEF Shape
    <3> HIDE DEF x
    <3> QED  BY <1>4, <1>6, <2>1, <3>1, <3>3, <3>4, <3>5, LockStep
  <2> QED  BY <2>2, <2>3
<1>15. CASE PushItems(s)
  <2> DEFINE more == /\ history_queue' # {}
                     /\ 10 * Cardinality(syncer[s].batch) <= 100 * Cardinality(syncer[s].ready)
  <2>1. syncer' = [syncer EXCEPT ![s] = NextPass(s, more)] /\ locked' = locked
    BY <1>15 DEF PushItems, EndPass
  <2>2. more \in BOOLEAN  OBVIOUS
  <2> HIDE DEF more
  <2>3. Holds(s) = {}  BY <1>2, <1>15 DEF PushItems, At, Own, Holds
  <2>4. locked' = locked \ Holds(s)  BY <2>1, <2>3
  <2> QED  BY <1>12, <2>1, <2>2, <2>4
<1> QED  BY <1>8, <1>9, <1>10, <1>11, <1>13, <1>14, <1>15 DEF Pass

----------------------------------------------------------------------------

LEMMA LockInit == Init => LockInv
<1> SUFFICES ASSUME Init PROVE LockInv
  OBVIOUS
<1>1. syncer \in [Procs -> States({})]
  BY DEF Init, Idle, States, PCs
<1>2. \A s \in Procs : Own(syncer[s]) /\ Holds(s) = {}
  BY DEF Init, Idle, Own, Holds
<1>3. locked = {} /\ ~Abandoned
  BY DEF Init, Abandoned
<1> QED  BY <1>1, <1>2, <1>3 DEF LockInv, LocksHeld, Shape

LEMMA LockNext == LockInv /\ [Next]_vars => LockInv'
<1> SUFFICES ASSUME LockInv, [Next]_vars PROVE LockInv'
  OBVIOUS
<1>1. PICK B : syncer \in [Procs -> States(B)]
  BY DEF LockInv, Shape
\* steps of others leave the locks and the processes alone
<1>2. ASSUME UNCHANGED <<syncer, locked>>, Abandoned' <=> Abandoned
      PROVE  LockInv'
  <2>1. \A s \in Procs : Holds(s)' = Holds(s)  BY <1>2 DEF Holds
  <2>2. LocksHeld'  BY <1>2, <2>1 DEF LockInv, LocksHeld
  <2> QED  BY <1>2, <2>2 DEF LockInv, Shape, At
<1>3. ASSUME UNCHANGED <<syncer, locked, server>> PROVE LockInv'
  BY <1>2, <1>3 DEF Abandoned, At
<1>4. ASSUME NEW w, NEW records, NEW total, Add(w, records, total) PROVE LockInv'
  BY <1>3, <1>4 DEF Add
<1>5. ASSUME NEW w \in Writers,
             RetryAdd(w) \/ SleepOn(w) \/ \E records \in Batches : FlushHistory(w, records)
      PROVE  LockInv'
  <2>1. CASE RetryAdd(w)  BY <1>4, <2>1 DEF RetryAdd
  <2>2. CASE SleepOn(w)  BY <1>3, <2>2 DEF SleepOn, vars
  <2>3. CASE \E records \in Batches : FlushHistory(w, records)
    BY <1>4, <2>3 DEF FlushHistory
  <2> QED  BY <1>5, <2>1, <2>2, <2>3
<1>6. ASSUME NEW i \in Items, HistoryCacheClear(i) PROVE LockInv'
  BY <1>3, <1>6 DEF HistoryCacheClear
<1>7. ASSUME NEW t \in Timed, TimerDue(t) PROVE LockInv'
  BY <1>3, <1>7 DEF TimerDue
<1>8. CASE Stop
  BY <1>2, <1>8 DEF Stop, Abandoned, At
<1>9. CASE Kill
  <2> DEFINE x == [Idle EXCEPT !.pc = "done"]
  <2>1. syncer' = [s \in Procs |-> IF s = Main THEN syncer[s] ELSE x]  BY <1>9 DEF Kill
  <2>2. x \in States(B) /\ Own(x) /\ x.pc = "done" /\ x.trig = {} /\ x.mine = {}
    BY DEF Idle, States, PCs, Own
  <2> HIDE DEF x
  <2>3. Shape'
    <3>1. syncer' \in [Procs -> States(B)]  BY <1>1, <2>1, <2>2
    <3> QED  BY <3>1 DEF Shape
  <2>4. syncer[Main].pc = "off" /\ Main \in Procs  BY <1>9 DEF Kill, At, Procs
  <2>5. syncer[Main].trig = {} /\ syncer[Main].mine = {} /\ Own(syncer[Main])
    BY <2>4 DEF LockInv, Own
  <2>6. \A s \in Procs : Own(syncer'[s]) /\ syncer'[s].trig = {} /\ syncer'[s].mine = {}
    BY <2>1, <2>2, <2>5
  <2>7. Abandoned' /\ \A s \in Syncers : At(s, "done")'
    BY <1>9, <2>1, <2>2, <2>4, HistoryCacheAssumption
       DEF Kill, Abandoned, At, Procs, HistoryCacheAssumption
  <2> QED  BY <2>3, <2>6, <2>7 DEF LockInv, LocksHeld, Holds
<1>10. CASE FullSync
  <2> DEFINE pc == IF Cached = {} THEN "done" ELSE "pop"
             x == [syncer[Main] EXCEPT !.pc = pc]
  <2>1. /\ syncer' = [syncer EXCEPT ![Main] = x] /\ locked' = {}
        /\ syncer[Main].pc = "off" /\ \A s \in Syncers : syncer[s].pc = "done"
    BY <1>10 DEF FullSync, At
  <2>2. Main \in Procs /\ pc \in {"done", "pop"}  BY DEF Procs
  <2> HIDE DEF pc
  <2>3. /\ x \in States(B) /\ x.pc = pc /\ x.trig = syncer[Main].trig
        /\ x.mine = syncer[Main].mine /\ x.held = syncer[Main].held
    BY <1>1, <2>2 DEF States, PCs
  <2>4. Own(x) /\ x.trig = {} /\ x.mine = {}
    BY <2>1, <2>2, <2>3 DEF LockInv, Own
  <2> HIDE DEF x
  <2>5. syncer' \in [Procs -> States(B)]  BY <1>1, <2>1, <2>3
  <2>6. \A s \in Procs : syncer[s].pc \in {"off", "done"}  BY <2>1 DEF Procs
  <2>7. \A s \in Procs : Own(syncer'[s]) /\ syncer'[s].trig = {} /\ syncer'[s].mine = {}
    <3> SUFFICES ASSUME NEW s \in Procs
                 PROVE  Own(syncer'[s]) /\ syncer'[s].trig = {} /\ syncer'[s].mine = {}
      OBVIOUS
    <3>1. CASE s = Main  BY <1>1, <2>1, <2>2, <2>4, <3>1
    <3>2. CASE s # Main
      <4>1. syncer'[s] = syncer[s]  BY <1>1, <2>1, <3>2
      <4> QED  BY <2>6, <4>1 DEF LockInv, Own
    <3> QED  BY <3>1, <3>2
  <2>8. ~Abandoned'
    <3>1. syncer'[Main] = x  BY <1>1, <2>1, <2>2
    <3> QED  BY <2>2, <2>3, <3>1 DEF Abandoned, At
  <2>9. LocksHeld'
    <3>1. \A s \in Procs : Holds(s)' = {}  BY <2>7 DEF Holds
    <3> QED  BY <2>1, <3>1 DEF LocksHeld
  <2> QED  BY <2>5, <2>7, <2>8, <2>9 DEF LockInv, Shape
<1>11. CASE Ended \/ UNCHANGED vars
  BY <1>3, <1>11 DEF Ended, vars
<1> QED
  BY <1>5, <1>6, <1>7, <1>8, <1>9, <1>10, <1>11, PassLocks DEF Next

\* Trigger locks: for any number of syncers, items, triggers and timers, a trigger
\* is locked exactly as long as one syncer holds it, whatever the others do,
\* also when all are killed and the main process starts over.
THEOREM Locks == Spec => []LocksHeld
<1>1. LockInv => LocksHeld
  BY DEF LockInv
<1> QED  BY <1>1, LockInit, LockNext, PTL DEF Spec

----------------------------------------------------------------------------
(* Timers. *)

TimerStates == {"future", "due", "held", "saved", "dropped"}

\* the log has counters of timers, and whatever else it records
LogShape ==
    \E X : log \in [received : X, given : X, merged : X, stale : X,
                     fired : [Timed -> Nat], evaluated : [Timed -> Nat]]

\* tm are states of timers, evaluated and fired the counters that go with them
Fits(tm, evaluated, fired) ==
    \A t \in Trend :
        /\ tm[t] = "future" => evaluated[t] = fired[t]
        /\ tm[t] \in {"due", "held"} => fired[t] = evaluated[t] + 1
        /\ tm[t] # "dropped"

\* a timer that is held is held by one process
OneEach ==
    /\ \A s, r \in Procs : s # r => syncer[s].held \cap syncer[r].held = {}
    /\ \A s \in Procs : \A t \in syncer[s].held : timers[t] = "held"
    /\ server # "killed" =>
         \A t \in Timed : timers[t] = "held" => \E s \in Procs : t \in syncer[s].held

TimerInv ==
    /\ LockInv
    /\ LogShape
    /\ timers \in [Timed -> TimerStates]
    /\ Fits(timers, log.evaluated, log.fired)
    /\ OneEach

\* Saving the timers at shutdown.
LEMMA FlushedFits ==
    ASSUME NEW tm \in [Timed -> TimerStates], NEW e, NEW f, Fits(tm, e, f)
    PROVE  /\ Flushed(tm) \in [Timed -> TimerStates]
           /\ Fits(Flushed(tm), e, f)
           /\ \A t \in Timed : Flushed(tm)[t] = "held" <=> tm[t] = "held"
<1>1. Flushed(tm) = [t \in Timed |-> IF tm[t] \notin {"future", "due"} THEN tm[t]
                                    ELSE IF t \in Trend THEN "saved" ELSE "dropped"]
  BY DEF Flushed
<1>2. Trend \subseteq Timed  BY HistoryCacheAssumption DEF HistoryCacheAssumption
<1>3. Flushed(tm) \in [Timed -> TimerStates]  BY <1>1 DEF TimerStates
<1>4. \A t \in Timed : Flushed(tm)[t] = "held" <=> tm[t] = "held"  BY <1>1
<1>5. Fits(Flushed(tm), e, f)  BY <1>1, <1>2 DEF Fits
<1> QED  BY <1>3, <1>4, <1>5

\* Steps that change neither a timer nor who holds it.
LEMMA TimersSame ==
    ASSUME TimerInv, LockInv', LogShape', timers' = timers,
           log'.fired = log.fired, log'.evaluated = log.evaluated,
           \A s \in Procs : syncer'[s].held = syncer[s].held,
           server' # "killed" => server # "killed"
    PROVE  TimerInv'
BY DEF TimerInv, OneEach, Fits

\* A pass ends: the process holds no timer any more, tm is what it leaves.
LEMMA PassEnds ==
    ASSUME TimerInv, LockInv', LogShape', server' = server, NEW s \in Procs,
           NEW tm \in [Timed -> TimerStates], NEW flush, NEW x,
           timers' = IF flush THEN Flushed(tm) ELSE tm,
           syncer' = [syncer EXCEPT ![s] = x], x.held = {},
           Fits(tm, log'.evaluated, log'.fired),
           \A t \in Timed : t \notin syncer[s].held => tm[t] = timers[t],
           \A t \in syncer[s].held : tm[t] # "held"
    PROVE  TimerInv'
<1>1. /\ timers' \in [Timed -> TimerStates]
      /\ Fits(timers, log.evaluated, log.fired)'
      /\ \A t \in Timed : timers'[t] = "held" <=> tm[t] = "held"
  BY FlushedFits DEF Fits
<1>2. PICK B : syncer \in [Procs -> States(B)]
  BY DEF TimerInv, LockInv, Shape
<1>3. syncer'[s].held = {} /\ \A r \in Procs \ {s} : syncer'[r] = syncer[r]
  BY <1>2
<1>4. \A r \in Procs : syncer[r].held \subseteq Timed
  BY <1>2 DEF States
<1>5. OneEach'
  <2>1. \A r, u \in Procs : r # u => syncer'[r].held \cap syncer'[u].held = {}
    BY <1>3 DEF TimerInv, OneEach
  <2>2. ASSUME NEW r \in Procs, NEW t \in syncer'[r].held PROVE timers'[t] = "held"
    <3>1. r # s /\ t \in syncer[r].held  BY <1>3, <2>2
    <3>2. t \in Timed /\ timers[t] = "held" /\ t \notin syncer[s].held
      BY <1>4, <3>1 DEF TimerInv, OneEach
    <3> QED  BY <1>1, <3>2
  <2>3. ASSUME server' # "killed", NEW t \in Timed, timers'[t] = "held"
        PROVE  \E r \in Procs : t \in syncer'[r].held
    <3>1. tm[t] = "held"  BY <1>1, <2>3
    <3>2. t \notin syncer[s].held /\ timers[t] = "held"  BY <3>1
    <3>3. PICK r \in Procs : t \in syncer[r].held  BY <2>3, <3>2 DEF TimerInv, OneEach
    <3> QED  BY <1>3, <3>2, <3>3
  <2> QED  BY <2>1, <2>2, <2>3 DEF OneEach
<1> QED  BY <1>1, <1>5 DEF TimerInv

\* Every step of a pass keeps the timers in order.
LEMMA PassTimers ==
    ASSUME TimerInv, NEW s \in Procs, Pass(s)
    PROVE  TimerInv'
<1>1. LockInv'  BY PassLocks DEF TimerInv
<1>2. PICK B : syncer \in [Procs -> States(B)]
  BY DEF TimerInv, LockInv, Shape
<1>3. Own(syncer[s]) /\ syncer[s] \in States(B)
  BY <1>2 DEF TimerInv, LockInv
<1>4. PICK X : log \in [received : X, given : X, merged : X, stale : X,
                       fired : [Timed -> Nat], evaluated : [Timed -> Nat]]
  BY DEF TimerInv, LogShape
<1>5. timers \in [Timed -> TimerStates] /\ Trend \subseteq Timed
  BY HistoryCacheAssumption DEF TimerInv, HistoryCacheAssumption
<1>6. server' = server
  BY DEF Pass, PopItems, LockTriggers, ReturnItems, WriteHistory, GetTimers, Evaluate, PushItems
\* records may be given up meanwhile
<1>7. ASSUME NEW g, NEW st, log' = [log EXCEPT !.given = g, !.stale = st]
      PROVE  LogShape' /\ log'.fired = log.fired /\ log'.evaluated = log.evaluated
  <2>1. log' \in [received : X \cup {g, st}, given : X \cup {g, st}, merged : X \cup {g, st},
                  stale : X \cup {g, st}, fired : [Timed -> Nat], evaluated : [Timed -> Nat]]
    BY <1>4, <1>7
  <2> QED  BY <1>4, <1>7, <2>1 DEF LogShape
<1>8. ASSUME NEW g, log' = [log EXCEPT !.given = g]
      PROVE  LogShape' /\ log'.fired = log.fired /\ log'.evaluated = log.evaluated
  <2>1. log' = [log EXCEPT !.given = g, !.stale = log.stale]  BY <1>4, <1>8
  <2> QED  BY <1>7, <2>1
<1>9. ASSUME log' = log
      PROVE  LogShape' /\ log'.fired = log.fired /\ log'.evaluated = log.evaluated
  BY <1>9 DEF TimerInv, LogShape
<1>10. CASE PopItems(s)
  <2>1. PICK b \in SUBSET history_queue :
            syncer' = [syncer EXCEPT ![s].pc = IF b = {} THEN "timers" ELSE "lock", ![s].batch = b]
    BY <1>10 DEF PopItems
  <2>2. \A r \in Procs : syncer'[r].held = syncer[r].held  BY <1>2, <2>1 DEF States
  <2>3. timers' = timers /\ log' = log  BY <1>10 DEF PopItems
  <2> QED  BY <1>1, <1>6, <1>9, <2>2, <2>3, TimersSame
<1>11. CASE LockTriggers(s)
  <2>1. PICK ready, trig :
            syncer' = [syncer EXCEPT ![s].pc = IF ready = {} THEN "return" ELSE "write",
                                     ![s].ready = ready, ![s].trig = trig]
    BY <1>11 DEF LockTriggers
  <2>2. \A r \in Procs : syncer'[r].held = syncer[r].held  BY <1>2, <2>1 DEF States
  <2>3. timers' = timers /\ log' = log  BY <1>11 DEF LockTriggers
  <2> QED  BY <1>1, <1>6, <1>9, <2>2, <2>3, TimersSame
<1>12. CASE ReturnItems(s)
  <2>1. syncer' = [syncer EXCEPT ![s].pc = "timers", ![s].batch = {}] /\ timers' = timers
    BY <1>12 DEF ReturnItems
  <2>2. \A r \in Procs : syncer'[r].held = syncer[r].held  BY <1>2, <2>1 DEF States
  <2>3. log' = [log EXCEPT !.given = GivenUp]  BY <1>12 DEF ReturnItems, Pushed
  <2> QED  BY <1>1, <1>6, <1>8, <2>1, <2>2, <2>3, TimersSame
<1>13. ASSUME NEW off, NEW written, WriteHistory(s, off, written) PROVE TimerInv'
  <2>1. syncer' = [syncer EXCEPT ![s].pc = "timers", ![s].failed = ~written] /\ timers' = timers
    BY <1>13 DEF WriteHistory
  <2>2. \A r \in Procs : syncer'[r].held = syncer[r].held  BY <1>2, <2>1 DEF States
  <2>3. PICK st : log' = [log EXCEPT !.given = GivenUp, !.stale = st]
    BY <1>4, <1>13 DEF WriteHistory
  <2> QED  BY <1>1, <1>6, <1>7, <2>1, <2>2, <2>3, TimersSame
<1>14. CASE GetTimers(s)
  <2> DEFINE due == IF server = "running" /\ ~syncer[s].failed THEN Due ELSE {}
             mine == due \ locked
             x == [syncer[s] EXCEPT !.pc = "evaluate", !.held = due, !.mine = mine]
  <2>1. syncer[s].held = {}  BY <1>3, <1>14 DEF GetTimers, At, Own
  <2>2. log' = log  BY <1>14 DEF GetTimers
  <2>3. CASE syncer[s].ready # {} \/ due # {}
    <3>1. /\ syncer' = [syncer EXCEPT ![s] = x]
          /\ timers' = [t \in Timed |-> IF t \in due THEN "held" ELSE timers[t]]
      BY <1>14, <2>3 DEF GetTimers
    <3>2. due \subseteq Timed /\ \A t \in due : timers[t] = "due"  BY DEF Due
    <3> HIDE DEF due
    <3>3. syncer'[s].held = due /\ \A r \in Procs \ {s} : syncer'[r] = syncer[r]
      BY <1>2, <3>1 DEF States
    <3>4. timers' \in [Timed -> TimerStates]  BY <1>5, <3>1 DEF TimerStates
    <3>5. Fits(timers, log.evaluated, log.fired)'
      BY <1>5, <2>2, <3>1, <3>2 DEF TimerInv, Fits
    <3>6. \A r \in Procs : syncer[r].held \subseteq Timed \ due
      BY <1>2, <3>2 DEF TimerInv, OneEach, States
    <3>7. OneEach'
      <4>1. \A r, u \in Procs : r # u => syncer'[r].held \cap syncer'[u].held = {}
        BY <3>3, <3>6 DEF TimerInv, OneEach
      <4>2. \A r \in Procs : \A t \in syncer'[r].held : timers'[t] = "held"
        BY <3>1, <3>2, <3>3, <3>6 DEF TimerInv, OneEach
      <4>3. ASSUME server' # "killed", NEW t \in Timed, timers'[t] = "held"
            PROVE  \E r \in Procs : t \in syncer'[r].held
        <5>1. CASE t \in due  BY <3>3, <5>1
        <5>2. CASE t \notin due
          <6>1. PICK r \in Procs : t \in syncer[r].held
            BY <1>6, <3>1, <4>3, <5>2 DEF TimerInv, OneEach
          <6> QED  BY <2>1, <3>3, <6>1
        <5> QED  BY <5>1, <5>2
      <4> QED  BY <4>1, <4>2, <4>3 DEF OneEach
    <3> QED  BY <1>1, <1>9, <2>2, <3>4, <3>5, <3>7 DEF TimerInv
  <2>4. CASE syncer[s].ready = {} /\ due = {}
    <3>1. PICK flush : /\ syncer' = [syncer EXCEPT ![s] = NextPass(s, FALSE)]
                       /\ timers' = IF flush THEN Flushed(timers) ELSE timers
      BY <1>14, <2>4 DEF GetTimers, EndPass
    <3>2. NextPass(s, FALSE).held = {}  BY <1>2, NextPassShape
    <3>3. Fits(timers, log'.evaluated, log'.fired)  BY <2>2 DEF TimerInv
    <3> QED  BY <1>1, <1>5, <1>6, <1>9, <2>1, <2>2, <3>1, <3>2, <3>3, PassEnds
  <2> QED  BY <2>3, <2>4
<1>15. CASE PushItems(s)
  <2> DEFINE more == /\ history_queue' # {}
                     /\ 10 * Cardinality(syncer[s].batch) <= 100 * Cardinality(syncer[s].ready)
  <2>1. PICK flush : /\ syncer' = [syncer EXCEPT ![s] = NextPass(s, more)]
                     /\ timers' = IF flush THEN Flushed(timers) ELSE timers
    BY <1>15 DEF PushItems, EndPass
  <2>2. more \in BOOLEAN  OBVIOUS
  <2> HIDE DEF more
  <2>3. NextPass(s, more).held = {}  BY <1>2, <2>2, NextPassShape
  <2>4. log' = [log EXCEPT !.given = GivenUp]  BY <1>15 DEF PushItems, Pushed
  <2>5. syncer[s].held = {}  BY <1>3, <1>15 DEF PushItems, At, Own
  <2>6. LogShape' /\ log'.fired = log.fired /\ log'.evaluated = log.evaluated
    BY <1>8, <2>4
  <2>7. Fits(timers, log'.evaluated, log'.fired)  BY <2>6 DEF TimerInv
  <2> QED  BY <1>1, <1>5, <1>6, <2>1, <2>3, <2>5, <2>6, <2>7, PassEnds
<1>16. CASE Evaluate(s)
  <2> DEFINE tm == [t \in Timed |-> IF t \in Recalculated(s) THEN "future"
                                   ELSE IF t \in syncer[s].held THEN "due" ELSE timers[t]]
             ev == [t \in Timed |-> IF t \in syncer[s].mine THEN log.evaluated[t] + 1
                                   ELSE log.evaluated[t]]
             x == [syncer[s] EXCEPT !.pc = "push", !.trig = {}, !.held = {}, !.mine = {},
                                    !.failed = FALSE]
  <2>1. log' = [log EXCEPT !.evaluated = ev]  BY <1>16 DEF Evaluate
  <2>2. ev \in [Timed -> Nat]  BY <1>4
  <2>3. LogShape' /\ log'.evaluated = ev /\ log'.fired = log.fired
    <3> HIDE DEF ev
    <3>1. log' \in [received : X, given : X, merged : X, stale : X,
                    fired : [Timed -> Nat], evaluated : [Timed -> Nat]]
      BY <1>4, <2>1, <2>2
    <3> QED  BY <1>4, <2>1, <3>1 DEF LogShape
  <2>4. /\ syncer[s].held \subseteq Timed /\ syncer[s].mine \subseteq syncer[s].held
        /\ Recalculated(s) \subseteq syncer[s].held
    BY <1>3 DEF Own, States, Recalculated
  <2>5. tm \in [Timed -> TimerStates]  BY <1>5 DEF TimerStates
  <2>6. \A t \in Timed : t \notin syncer[s].held => tm[t] = timers[t]  BY <2>4
  <2>7. \A t \in syncer[s].held : tm[t] # "held"  BY <2>4
  <2>8. Fits(tm, log'.evaluated, log'.fired)
    <3> SUFFICES ASSUME NEW t \in Trend
                 PROVE  /\ tm[t] = "future" => ev[t] = log.fired[t]
                        /\ tm[t] \in {"due", "held"} => log.fired[t] = ev[t] + 1
                        /\ tm[t] # "dropped"
      BY <2>3 DEF Fits
    <3>1. /\ timers[t] = "future" => log.evaluated[t] = log.fired[t]
          /\ timers[t] \in {"due", "held"} => log.fired[t] = log.evaluated[t] + 1
          /\ timers[t] # "dropped"
      BY DEF TimerInv, Fits
    <3>2. t \in Timed /\ log.evaluated[t] \in Nat /\ log.fired[t] \in Nat
      BY <1>4, <1>5
    <3>3. CASE t \in syncer[s].mine
      <4>1. timers[t] = "held" /\ t \in Recalculated(s)
        BY <2>4, <3>3 DEF TimerInv, OneEach, Recalculated
      <4> QED  BY <3>1, <3>2, <3>3, <4>1
    <3>4. CASE t \in syncer[s].held /\ t \notin syncer[s].mine
      <4>1. timers[t] = "held" /\ t \notin Recalculated(s)
        BY <3>4 DEF TimerInv, OneEach, Recalculated
      <4> QED  BY <3>1, <3>2, <3>4, <4>1
    <3>5. CASE t \notin syncer[s].held
      <4>1. t \notin Recalculated(s) /\ t \notin syncer[s].mine  BY <2>4, <3>5
      <4> QED  BY <3>1, <3>2, <3>5, <4>1
    <3> QED  BY <3>3, <3>4, <3>5
  <2>9. PICK flush, y : /\ syncer' = [syncer EXCEPT ![s] = y] /\ y.held = {}
                        /\ timers' = IF flush THEN Flushed(tm) ELSE tm
    <3>1. CASE syncer[s].ready = {}
      <4>1. /\ syncer' = [syncer EXCEPT ![s] = NextPass(s, FALSE)]
            /\ \E flush : timers' = IF flush THEN Flushed(tm) ELSE tm
        BY <1>16, <3>1 DEF Evaluate, EndPass
      <4>2. NextPass(s, FALSE).held = {}  BY <1>2, NextPassShape
      <4> HIDE DEF tm
      <4> QED  BY <4>1, <4>2
    <3>2. CASE syncer[s].ready # {}
      <4>1. syncer' = [syncer EXCEPT ![s] = x] /\ timers' = tm
        BY <1>16, <3>2 DEF Evaluate
      <4>2. x.held = {}  BY <1>3 DEF States
      <4> HIDE DEF tm, x
      <4> QED  BY <4>1, <4>2
    <3> QED  BY <3>1, <3>2
  <2> HIDE DEF tm
  <2> QED  BY <1>1, <1>6, <2>3, <2>5, <2>6, <2>7, <2>8, <2>9, PassEnds
<1> QED  BY <1>10, <1>11, <1>12, <1>13, <1>14, <1>15, <1>16 DEF Pass

LEMMA TimerInit == Init => TimerInv
<1> SUFFICES ASSUME Init PROVE TimerInv
  OBVIOUS
<1>1. LockInv  BY LockInit
<1>2. timers = [t \in Timed |-> "future"]  BY DEF Init
<1>3. log = [received |-> [i \in Items |-> 0], given |-> [i \in Items |-> {}], merged |-> 0,
             stale |-> {}, fired |-> [t \in Timed |-> 0], evaluated |-> [t \in Timed |-> 0]]
  BY DEF Init
<1>4. LogShape
  <2> DEFINE X == {[i \in Items |-> 0], [i \in Items |-> {}], 0, {}}
  <2>1. log \in [received : X, given : X, merged : X, stale : X,
                 fired : [Timed -> Nat], evaluated : [Timed -> Nat]]
    BY <1>3
  <2> QED  BY <2>1 DEF LogShape
<1>5. Fits(timers, log.evaluated, log.fired)
  BY <1>2, <1>3, HistoryCacheAssumption DEF Fits, HistoryCacheAssumption
<1>6. \A s \in Procs : syncer[s].held = {}  BY DEF Init, Idle
<1>7. OneEach  BY <1>2, <1>6 DEF OneEach
<1> QED  BY <1>1, <1>2, <1>4, <1>5, <1>7 DEF TimerInv, TimerStates

LEMMA TimerNext == TimerInv /\ [Next]_vars => TimerInv'
<1> SUFFICES ASSUME TimerInv, [Next]_vars PROVE TimerInv'
  OBVIOUS
<1>1. LockInv'  BY LockNext DEF TimerInv
<1>2. PICK B : syncer \in [Procs -> States(B)]
  BY DEF TimerInv, LockInv, Shape
<1>3. PICK X : log \in [received : X, given : X, merged : X, stale : X,
                       fired : [Timed -> Nat], evaluated : [Timed -> Nat]]
  BY DEF TimerInv, LogShape
<1>4. ASSUME UNCHANGED <<syncer, timers, server>>, LogShape',
             log'.fired = log.fired, log'.evaluated = log.evaluated
      PROVE  TimerInv'
  BY <1>1, <1>4, TimersSame
<1>5. ASSUME UNCHANGED <<syncer, timers, server, log>> PROVE TimerInv'
  BY <1>4, <1>5 DEF TimerInv, LogShape
<1>6. ASSUME NEW w, NEW records, NEW total, Add(w, records, total) PROVE TimerInv'
  <2>1. PICK r, m : log' = [log EXCEPT !.received = r, !.merged = m]
    BY <1>6 DEF Add
  <2>2. log' \in [received : X \cup {r, m}, given : X \cup {r, m}, merged : X \cup {r, m},
                  stale : X \cup {r, m}, fired : [Timed -> Nat], evaluated : [Timed -> Nat]]
    BY <1>3, <2>1
  <2>3. log'.fired = log.fired /\ log'.evaluated = log.evaluated  BY <1>3, <2>1
  <2>4. UNCHANGED <<syncer, timers, server>>  BY <1>6 DEF Add
  <2> QED  BY <1>4, <2>2, <2>3, <2>4 DEF LogShape
<1>7. ASSUME NEW w \in Writers,
             RetryAdd(w) \/ SleepOn(w) \/ \E records \in Batches : FlushHistory(w, records)
      PROVE  TimerInv'
  <2>1. CASE RetryAdd(w)  BY <1>6, <2>1 DEF RetryAdd
  <2>2. CASE SleepOn(w)  BY <1>5, <2>2 DEF SleepOn, vars
  <2>3. CASE \E records \in Batches : FlushHistory(w, records)
    BY <1>6, <2>3 DEF FlushHistory
  <2> QED  BY <1>7, <2>1, <2>2, <2>3
<1>8. ASSUME NEW i \in Items, HistoryCacheClear(i) PROVE TimerInv'
  <2>1. PICK g : log' = [log EXCEPT !.given = g]  BY <1>8 DEF HistoryCacheClear
  <2>2. log' \in [received : X \cup {g}, given : X \cup {g}, merged : X \cup {g},
                  stale : X \cup {g}, fired : [Timed -> Nat], evaluated : [Timed -> Nat]]
    BY <1>3, <2>1
  <2>3. log'.fired = log.fired /\ log'.evaluated = log.evaluated  BY <1>3, <2>1
  <2>4. UNCHANGED <<syncer, timers, server>>  BY <1>8 DEF HistoryCacheClear
  <2> QED  BY <1>4, <2>2, <2>3, <2>4 DEF LogShape
<1>9. ASSUME NEW t \in Timed, TimerDue(t) PROVE TimerInv'
  <2>1. /\ timers[t] = "future" /\ timers' = [timers EXCEPT ![t] = "due"]
        /\ log' = [log EXCEPT !.fired[t] = @ + 1] /\ UNCHANGED <<syncer, server>>
    BY <1>9 DEF TimerDue
  <2>2. /\ log' \in [received : X, given : X, merged : X, stale : X,
                     fired : [Timed -> Nat], evaluated : [Timed -> Nat]]
        /\ log'.fired = [log.fired EXCEPT ![t] = @ + 1] /\ log'.evaluated = log.evaluated
    BY <1>3, <2>1
  <2>3. timers' \in [Timed -> TimerStates]  BY <2>1 DEF TimerInv, TimerStates
  <2>4. Fits(timers, log.evaluated, log.fired)'
    <3>1. Trend \subseteq Timed  BY HistoryCacheAssumption DEF HistoryCacheAssumption
    <3>2. log.fired \in [Timed -> Nat] /\ timers \in [Timed -> TimerStates]
      BY <1>3 DEF TimerInv
    <3> QED  BY <2>1, <2>2, <3>1, <3>2 DEF TimerInv, Fits
  <2>5. OneEach'
    <3>1. \A s \in Procs : t \notin syncer[s].held  BY <2>1 DEF TimerInv, OneEach
    <3>2. \A u \in Timed : timers'[u] = "held" <=> timers[u] = "held"
      BY <2>1 DEF TimerInv
    <3>3. \A s \in Procs : syncer[s].held \subseteq Timed  BY <1>2 DEF States
    <3> QED  BY <2>1, <3>1, <3>2, <3>3 DEF TimerInv, OneEach
  <2> QED  BY <1>1, <2>2, <2>3, <2>4, <2>5 DEF TimerInv, LogShape
<1>10. CASE Stop
  <2>1. UNCHANGED <<syncer, timers, log>> /\ server = "running"  BY <1>10 DEF Stop
  <2> QED  BY <1>1, <2>1, TimersSame DEF TimerInv, LogShape
<1>11. CASE Kill
  <2>1. /\ syncer' = [s \in Procs |-> IF s = Main THEN syncer[s] ELSE [Idle EXCEPT !.pc = "done"]]
        /\ UNCHANGED <<timers, log>> /\ server' = "killed" /\ syncer[Main].pc = "off"
    BY <1>11 DEF Kill, At
  <2>2. syncer[Main].held = {}  BY <2>1 DEF TimerInv, LockInv, Own, Procs
  <2>3. \A s \in Procs : syncer'[s].held = {}  BY <2>1, <2>2 DEF Idle
  <2>4. OneEach'  BY <2>1, <2>3 DEF OneEach
  <2> QED  BY <1>1, <2>1, <2>4 DEF TimerInv, LogShape, Fits
<1>12. CASE FullSync
  <2>1. /\ syncer' = [syncer EXCEPT ![Main].pc = IF Cached = {} THEN "done" ELSE "pop"]
        /\ UNCHANGED <<timers, log, server>>
    BY <1>12 DEF FullSync
  <2>2. \A s \in Procs : syncer'[s].held = syncer[s].held  BY <1>2, <2>1 DEF States
  <2> QED  BY <1>1, <2>1, <2>2, TimersSame DEF TimerInv, LogShape
<1>13. CASE Ended \/ UNCHANGED vars
  BY <1>5, <1>13 DEF Ended, vars
<1> QED
  BY <1>7, <1>8, <1>9, <1>10, <1>11, <1>12, <1>13, PassTimers DEF Next

\* Trend timers: for any number of syncers, triggers and timers, a trend
\* function's timer that was due is not put off to its next time before it has
\* been evaluated under the trigger's lock, is with one syncer at most, and is
\* not dropped at shutdown.
THEOREM TrendTimers == Spec => []TrendKept
<1>1. TimerInv => TrendKept
  <2> SUFFICES ASSUME TimerInv, NEW t \in Trend
               PROVE  /\ timers[t] = "future" => log.evaluated[t] = log.fired[t]
                      /\ timers[t] # "dropped"
                      /\ server # "killed" =>
                           (timers[t] = "held")
                             = (Cardinality({s \in Procs : t \in syncer[s].held}) = 1)
    BY DEF TrendKept
  <2> DEFINE S == {s \in Procs : t \in syncer[s].held}
  <2>1. t \in Timed  BY HistoryCacheAssumption DEF HistoryCacheAssumption
  <2>2. ASSUME server # "killed", timers[t] = "held" PROVE Cardinality(S) = 1
    <3>1. PICK s \in Procs : t \in syncer[s].held
      BY <2>1, <2>2 DEF TimerInv, OneEach
    <3>2. S = {s}  BY <3>1 DEF TimerInv, OneEach
    <3> QED  BY <3>2, FS_Singleton
  <2>3. ASSUME timers[t] # "held" PROVE Cardinality(S) # 1
    <3>1. S = {}  BY <2>3 DEF TimerInv, OneEach
    <3>2. Cardinality({}) = 0  BY FS_EmptySet
    <3> HIDE DEF S
    <3> QED  BY <3>1, <3>2
  <2>4. (timers[t] = "future" => log.evaluated[t] = log.fired[t]) /\ timers[t] # "dropped"
    BY DEF TimerInv, Fits
  <2> QED  BY <2>2, <2>3, <2>4
<1> QED  BY <1>1, TimerInit, TimerNext, PTL DEF Spec
=============================================================================
