---------------------------- MODULE HistoryCache ----------------------------
(***************************************************************************)
(* The history cache of a server (libs/zbxcachehistory) and the history    *)
(* syncers (libs/zbxdbsyncer, zabbix_server/cachehistory): processes that  *)
(* collect values append them to the cache, syncers take items out of the  *)
(* cache's queue, lock the triggers of the items in the configuration      *)
(* cache, write one value of each item to the database, evaluate the       *)
(* triggers and the trigger timers that are due, unlock the triggers and   *)
(* put the items back.  When the server stops, the syncers end when they   *)
(* find nothing more to do, and the main process writes what is left.      *)
(*                                                                         *)
(* A section under the mutex of the history cache or the lock of the       *)
(* configuration cache is one step, and so is the work between two of      *)
(* them.                                                                   *)
(***************************************************************************)
EXTENDS Integers, FiniteSets, SequencesExt

CONSTANTS
    Items,          \* items
    Log,            \* items whose records carry metadata (lastlogsize, mtime)
    Removable,      \* items that may be disabled or deleted
    Triggers,       \* enabled triggers
    Uses,           \* triggers that refer to an item
    Timed,          \* triggers with a timer
    Trend,          \* those of them whose timer belongs to a trend function
    Writers,        \* processes that add values to the cache
    Syncers,        \* history syncers
    Main,           \* the main process
    MemSize,        \* records that fit into the cache
    SyncMax,        \* ZBX_HC_SYNC_MAX: items in a batch
    MaxFlush,       \* bound: records added at a time
    MaxRecords,     \* bound: records added, by item
    MaxFired,       \* bound: times a timer is due
    Faults          \* what may go wrong: "write", "kill"

ASSUME HistoryCacheAssumption ==
    /\ Log \cup Removable \subseteq Items /\ IsFiniteSet(Items)
    /\ Uses \in [Items -> SUBSET Triggers]
    /\ Trend \subseteq Timed /\ Timed \subseteq Triggers
    /\ Main \notin Syncers /\ Syncers # {} /\ IsFiniteSet(Syncers) /\ IsFiniteSet(Writers)
    /\ {MemSize, SyncMax, MaxFlush} \subseteq Nat \ {0}
    /\ MaxFlush <= MemSize
    /\ MaxRecords \in [Items -> Nat] /\ MaxFired \in Nat

VARIABLES
    history_items,  \* records of each item, the oldest first
    busy,           \* items with status ZBX_HC_ITEM_STATUS_BUSY
    history_queue,  \* items in the queue
    history_num,    \* the cache's counter of values
    processing_num, \* the cache's counter of batches under way
    locked,         \* triggers locked in the configuration cache
    timers,         \* state of each trigger's timer
    writer,         \* what a writer has still to add
    syncer,         \* the syncers and the main process
    server,         \* "running", "stopping" or "killed"
    db,             \* values stored, metadata stored
    log             \* history: records received, given up, merged; timers

cache == <<history_items, busy, history_queue, history_num, processing_num>>
vars == <<cache, locked, timers, writer, syncer, server, db, log>>

Procs == Syncers \cup {Main}

Size(items) == Cardinality(UNION {{i} \X DOMAIN items[i] : i \in Items})

\* numbers of the records of a sequence that hold a value
Values(records) == {r.n : r \in {r \in Range(records) : r.value}}

----------------------------------------------------------------------------
(* Adding values. *)

NothingToAdd == [rest |-> <<>>, total |-> 0]

\* what a writer adds: an item's value, or the metadata of a log item alone
Record == {r \in [item : Items, value : BOOLEAN, waited : {FALSE}] : r.value \/ r.item \in Log}

\* one turn of the loop in hc_add_item_values; c is the cache, the records
\* received by item and merged, and the records that did not fit
AddRecord(c, r, merged) ==
    LET i == r.item
        q == c.items[i]
        n == c.received[i] + 1
        meta == IF i \in Log THEN n ELSE 0
    IN  IF c.rest # <<>> THEN [c EXCEPT !.rest = Append(@, r)]
        ELSE IF merged THEN
            [c EXCEPT !.items[i][Len(q)].meta = IF i \in Log THEN n ELSE @,
                      !.received[i] = n, !.merged = @ + 1]
        ELSE IF Size(c.items) >= MemSize THEN
            [c EXCEPT !.rest = <<[r EXCEPT !.waited = TRUE]>>]
        ELSE
            [c EXCEPT !.items[i] = Append(@, [n |-> n, value |-> r.value, meta |-> meta]),
                      !.queue = IF q = <<>> THEN @ \cup {i} ELSE @,
                      !.received[i] = n]

AddItemValueMerged(c, r) == AddRecord(c, r, ~r.value /\ ~r.waited /\ c.items[r.item] # <<>>)

\* metadata alone is merged into the newest value, unless that is the oldest too
AddItemValue(c, r) == AddRecord(c, r, ~r.value /\ ~r.waited /\ Len(c.items[r.item]) > 1)

\* the cache after the first k of the records
AddItemValues(records) ==
    LET added[k \in 0 .. Len(records)] ==
            IF k = 0
            THEN [items |-> history_items, queue |-> history_queue, rest |-> <<>>,
                  received |-> log.received, merged |-> log.merged]
            ELSE AddItemValue(added[k - 1], records[k])
    IN  added[Len(records)]

\* adds records until the cache is full; total is counted when all are in
Add(w, records, total) ==
    LET c == AddItemValues(records)
    IN  /\ history_items' = c.items
        /\ history_queue' = c.queue
        /\ log' = [log EXCEPT !.received = c.received, !.merged = c.merged]
        /\ IF c.rest = <<>>
           THEN /\ writer' = [writer EXCEPT ![w] = NothingToAdd]
                /\ history_num' = history_num + total
           ELSE /\ writer' = [writer EXCEPT ![w] = [rest |-> c.rest, total |-> total]]
                /\ UNCHANGED history_num
        /\ UNCHANGED <<busy, processing_num, locked, timers, syncer, server, db>>

\* zbx_dc_flush_history; a process that has been told to stop may do it once more
FlushHistory(w, records) ==
    /\ server # "killed" /\ syncer[Main].pc = "off"
    /\ writer[w] = NothingToAdd
    /\ \A i \in Items : log.received[i] + Len(SelectSeq(records, LAMBDA r : r.item = i))
                          <= MaxRecords[i]
    /\ Add(w, records, Len(records))

\* the cache was full: the writer has slept for a second without the mutex
RetryAdd(w) ==
    /\ server # "killed"
    /\ writer[w] # NothingToAdd
    /\ Size(history_items) < MemSize
    /\ Add(w, writer[w].rest, writer[w].total)

\* it is still full
SleepOn(w) ==
    /\ writer[w] # NothingToAdd
    /\ Size(history_items) >= MemSize
    /\ UNCHANGED vars

----------------------------------------------------------------------------
(* Removing the values in the middle, by a runtime command or because the  *)
(* item is no longer monitored.                                            *)

Cleared(records) ==
    IF Len(records) > 2 THEN <<Head(records), Last(records)>> ELSE records

ClearItemMiddle(S) ==
    /\ history_items' = [i \in Items |->
            IF i \in S THEN Cleared(history_items[i]) ELSE history_items[i]]
    /\ history_num' = history_num - (Size(history_items) - Size(history_items'))

\* values that leave the cache and have not been stored are given up
GivenUp == [i \in Items |-> log.given[i] \cup
    ((Values(history_items[i]) \ Values(history_items'[i])) \ Range(db.stored[i]))]

\* zbx_hc_clear_item_middle called for the runtime command
HistoryCacheClear(i) ==
    /\ server = "running"
    /\ Len(history_items[i]) > 2
    /\ ClearItemMiddle({i})
    /\ log' = [log EXCEPT !.given = GivenUp]
    /\ UNCHANGED <<busy, history_queue, processing_num, locked, timers, writer, syncer, server, db>>

----------------------------------------------------------------------------
(* Trigger timers.  A timer waits in the trigger queue for its time        *)
(* ("future"), is due, is held by a syncer, has been saved in the table    *)
(* trigger_queue, or has been dropped.                                     *)

TimerDue(t) ==
    /\ server = "running"
    /\ timers[t] = "future"
    /\ log.fired[t] < MaxFired
    /\ timers' = [timers EXCEPT ![t] = "due"]
    /\ log' = [log EXCEPT !.fired[t] = @ + 1]
    /\ UNCHANGED <<cache, locked, writer, syncer, server, db>>

\* zbx_db_flush_timer_queue: what is in the queue is saved if it belongs to a
\* trend function and dropped otherwise
Flushed(queue) ==
    [t \in Timed |-> IF queue[t] \notin {"future", "due"} THEN queue[t]
                     ELSE IF t \in Trend THEN "saved" ELSE "dropped"]

----------------------------------------------------------------------------
(* One pass of zbx_sync_history_cache_server. *)

Idle == [pc |-> "pop", batch |-> {}, ready |-> {}, trig |-> {}, held |-> {}, mine |-> {},
         failed |-> FALSE, last |-> FALSE]

At(s, pc) == syncer[s].pc = pc

\* The end of a pass, in zbx_dbsyncer_thread: with nothing more to do at once,
\* a syncer that has been told to stop saves the timers and makes one last pass.
\* The main process goes on until the queue is empty.
NextPass(s, more) ==
    [Idle EXCEPT
        !.pc = IF s = Main THEN IF history_queue' = {} THEN "done" ELSE "pop"
               ELSE IF syncer[s].last /\ ~more THEN "done" ELSE "pop",
        !.last = syncer[s].last \/ (server # "running" /\ ~more)]

EndPass(s, more, queued) ==
    /\ syncer' = [syncer EXCEPT ![s] = NextPass(s, more)]
    /\ \E flush \in IF server = "running" \/ s = Main THEN {FALSE}
                    ELSE IF more THEN BOOLEAN ELSE {TRUE} :
         timers' = IF flush THEN Flushed(queued) ELSE queued

Due == {t \in Timed : timers[t] = "due"}

\* a pass that would find nothing to do is left out while the server runs
PassDue == history_queue # {} \/ Due # {} \/ server # "running"

\* zbx_hc_pop_items: the oldest items are taken; which they are depends on
\* time stamps
PopItems(s) ==
    /\ At(s, "pop")
    /\ PassDue
    /\ LET size == IF Cardinality(history_queue) < SyncMax
                   THEN Cardinality(history_queue) ELSE SyncMax
       IN  \E batch \in {b \in SUBSET history_queue : Cardinality(b) = size} :
             /\ history_queue' = history_queue \ batch
             /\ processing_num' = processing_num + (IF batch = {} THEN 0 ELSE 1)
             /\ syncer' = [syncer EXCEPT ![s].pc = IF batch = {} THEN "timers" ELSE "lock",
                                         ![s].batch = batch]
    /\ UNCHANGED <<history_items, busy, history_num, locked, timers, writer, server, db, log>>

\* the triggers that the oldest record of an item makes necessary to evaluate
TriggersOf(i) == IF Head(history_items[i]).value THEN Uses[i] ELSE {}

CompatibleWithin(S) == \A i, j \in S : i # j => TriggersOf(i) \cap TriggersOf(j) = {}

\* items whose triggers may be locked together, nobody else having locked them
Compatible(S) ==
    /\ \A i \in S : TriggersOf(i) \cap locked = {}
    /\ \A i, j \in S : i # j => TriggersOf(i) \cap TriggersOf(j) = {}

\* locked one item after the other, in any order: as many as possible
Lockable(batch) ==
    {S \in SUBSET batch : /\ Compatible(S)
                          /\ \A i \in batch \ S : ~Compatible(S \cup {i})}

\* zbx_dc_config_lock_triggers_by_history_items
LockTriggers(s) ==
    /\ At(s, "lock")
    /\ \E ready \in Lockable(syncer[s].batch) :
         LET trig == UNION {TriggersOf(i) : i \in ready}
         IN  /\ busy' = busy \cup (syncer[s].batch \ ready)
             /\ locked' = locked \cup trig
             /\ syncer' = [syncer EXCEPT ![s].pc = IF ready = {} THEN "return" ELSE "write",
                                         ![s].ready = ready, ![s].trig = trig]
    /\ UNCHANGED <<history_items, history_queue, history_num, processing_num, timers, writer,
                   server, db, log>>

PushedUncounted(s) ==
    /\ history_items' = [i \in Items |-> IF i \in syncer[s].batch \ busy
                                         THEN Tail(history_items[i]) ELSE history_items[i]]
    /\ history_queue' = history_queue \cup {i \in syncer[s].batch : history_items'[i] # <<>>}
    /\ busy' = busy \ syncer[s].batch
    /\ processing_num' = processing_num
    /\ log' = [log EXCEPT !.given = GivenUp]

PushedNonempty(s) ==
    /\ history_items' = [i \in Items |-> IF i \in syncer[s].batch \ busy
                                         THEN Tail(history_items[i]) ELSE history_items[i]]
    /\ history_queue' = history_queue \cup (syncer[s].batch \cap busy)
    /\ busy' = busy \ syncer[s].batch
    /\ processing_num' = processing_num - 1
    /\ log' = [log EXCEPT !.given = GivenUp]

\* zbx_hc_push_items
Pushed(s) ==
    /\ history_items' = [i \in Items |-> IF i \in syncer[s].batch \ busy
                                         THEN Tail(history_items[i]) ELSE history_items[i]]
    /\ history_queue' = history_queue \cup {i \in syncer[s].batch : history_items'[i] # <<>>}
    /\ busy' = busy \ syncer[s].batch
    /\ processing_num' = processing_num - 1
    /\ log' = [log EXCEPT !.given = GivenUp]

\* all items are busy
ReturnItems(s) ==
    /\ At(s, "return")
    /\ Pushed(s)
    /\ syncer' = [syncer EXCEPT ![s].pc = "timers", ![s].batch = {}]
    /\ UNCHANGED <<history_num, locked, timers, writer, server, db>>

----------------------------------------------------------------------------

\* the oldest record of each item is copied, without the mutex
Oldest(i) == Head(history_items[i])

NewAlways(i) == Oldest(i).value

\* values that are not in the database yet; a value that is there because a
\* process was killed before it removed it from the cache is a duplicate
New(i) == Oldest(i).value /\ Oldest(i).n \notin Range(db.stored[i])

\* DCmass_prepare_history, DBmass_add_history and the update of items: the
\* values of items in off are discarded; the others are written and their
\* items updated, or not
WriteHistory(s, off, written) ==
    LET ready == syncer[s].ready
        on == ready \ off
        kept == IF written THEN {i \in on : New(i)} ELSE {}
        applied == IF written THEN on ELSE {}
    IN  /\ At(s, "write")
        /\ off \subseteq ready \cap Removable
        /\ written \/ "write" \in Faults
        /\ ClearItemMiddle(off)
        /\ db' = [stored |-> [i \in Items |-> IF i \in kept THEN Append(db.stored[i], Oldest(i).n)
                                                            ELSE db.stored[i]],
                  meta |-> [i \in Items |-> IF i \in applied \cap Log THEN Oldest(i).meta
                                                                      ELSE db.meta[i]]]
        /\ log' = [log EXCEPT !.given = GivenUp, !.stale = (@ \ applied) \cup (Log \cap (ready \ applied))]
        /\ syncer' = [syncer EXCEPT ![s].pc = "timers", ![s].failed = ~written]
        /\ UNCHANGED <<busy, history_queue, processing_num, locked, timers, writer, server>>

\* zbx_dc_get_trigger_timers: due timers are taken, and their triggers locked
\* that nobody has locked
GetTimers(s) ==
    LET due == IF server = "running" /\ ~syncer[s].failed THEN Due ELSE {}
        mine == due \ locked
        work == syncer[s].ready # {} \/ due # {}
    IN  /\ At(s, "timers")
        /\ locked' = locked \cup mine
        /\ UNCHANGED <<cache, writer, server, db, log>>
        /\ IF work
           THEN /\ timers' = [t \in Timed |-> IF t \in due THEN "held" ELSE timers[t]]
                /\ syncer' = [syncer EXCEPT ![s].pc = "evaluate",
                                            ![s].held = due, ![s].mine = mine]
           ELSE EndPass(s, FALSE, timers)

\* the triggers a syncer is evaluating
Evaluating(s) ==
    IF At(s, "evaluate") /\ ~syncer[s].failed
    THEN (UNION {TriggersOf(i) : i \in syncer[s].ready}) \cup syncer[s].mine
    ELSE {}

\* timers whose next time is calculated: all but trend function timers that
\* found the trigger locked
RecalculatedAll(s) == syncer[s].held

Recalculated(s) == {t \in syncer[s].held : t \in syncer[s].mine \/ t \notin Trend}

UnlockOwn(s) == syncer[s].trig

Unlock(s) == syncer[s].trig \cup syncer[s].mine

\* recalculate_triggers ends; the triggers are unlocked, the timers put back
Evaluate(s) ==
    /\ At(s, "evaluate")
    /\ locked' = locked \ Unlock(s)
    /\ UNCHANGED <<cache, writer, server, db>>
    /\ log' = [log EXCEPT !.evaluated = [t \in Timed |->
                    IF t \in syncer[s].mine THEN @[t] + 1 ELSE @[t]]]
    /\ LET queued == [t \in Timed |-> IF t \in Recalculated(s) THEN "future"
                                      ELSE IF t \in syncer[s].held THEN "due" ELSE timers[t]]
       IN  IF syncer[s].ready = {} THEN EndPass(s, FALSE, queued)
           ELSE /\ timers' = queued
                /\ syncer' = [syncer EXCEPT ![s].pc = "push", ![s].trig = {}, ![s].held = {},
                                            ![s].mine = {}, ![s].failed = FALSE]

ProcessedBatch(s) == Cardinality(syncer[s].batch)

Processed(s) == Cardinality(syncer[s].ready)

\* the items are put back; another pass follows at once if values are left and
\* most items were not busy
PushItems(s) ==
    /\ At(s, "push")
    /\ Pushed(s)
    /\ history_num' = history_num - Processed(s)
    /\ EndPass(s, /\ history_queue' # {}
                  /\ 10 * Cardinality(syncer[s].batch) <= 100 * Cardinality(syncer[s].ready),
               timers)
    /\ UNCHANGED <<locked, writer, server, db>>

----------------------------------------------------------------------------
(* The stop of the server, and the last sync. *)

\* zbx_threads_kill_and_wait asks the processes to end
Stop ==
    /\ server = "running"
    /\ server' = "stopping"
    /\ UNCHANGED <<cache, locked, timers, writer, syncer, db, log>>

\* a process of the server has died: all others are killed at once
Kill ==
    /\ "kill" \in Faults
    /\ server # "killed" /\ At(Main, "off")
    /\ server' = "killed"
    /\ writer' = [w \in Writers |-> NothingToAdd]
    /\ syncer' = [s \in Procs |-> IF s = Main THEN syncer[s] ELSE [Idle EXCEPT !.pc = "done"]]
    /\ UNCHANGED <<cache, locked, timers, db, log>>

Cached == {i \in Items : history_items[i] # <<>>}

\* sync_history_cache_full starts when all other processes have ended
FullSyncLocked ==
    /\ At(Main, "off")
    /\ \A s \in Syncers : At(s, "done")
    /\ \A w \in Writers : writer[w] = NothingToAdd
    /\ busy' = {}
    /\ history_queue' = Cached
    /\ syncer' = [syncer EXCEPT ![Main].pc = IF Cached = {} THEN "done" ELSE "pop"]
    /\ UNCHANGED <<history_items, history_num, processing_num, timers, writer, server, db, log, locked>>

FullSync ==
    /\ At(Main, "off")
    /\ \A s \in Syncers : At(s, "done")
    /\ \A w \in Writers : writer[w] = NothingToAdd
    /\ locked' = {}
    /\ busy' = {}
    /\ history_queue' = Cached
    /\ syncer' = [syncer EXCEPT ![Main].pc = IF Cached = {} THEN "done" ELSE "pop"]
    /\ UNCHANGED <<history_items, history_num, processing_num, timers, writer, server, db, log>>

Ended == At(Main, "done") /\ UNCHANGED vars

----------------------------------------------------------------------------

Init ==
    /\ history_items = [i \in Items |-> <<>>]
    /\ busy = {} /\ history_queue = {}
    /\ history_num = 0 /\ processing_num = 0
    /\ locked = {}
    /\ timers = [t \in Timed |-> "future"]
    /\ writer = [w \in Writers |-> NothingToAdd]
    /\ syncer = [s \in Procs |-> [Idle EXCEPT !.pc = IF s = Main THEN "off" ELSE "pop"]]
    /\ server = "running"
    /\ db = [stored |-> [i \in Items |-> <<>>], meta |-> [i \in Items |-> 0]]
    /\ log = [received |-> [i \in Items |-> 0], given |-> [i \in Items |-> {}], merged |-> 0,
              stale |-> {}, fired |-> [t \in Timed |-> 0], evaluated |-> [t \in Timed |-> 0]]

Batches == UNION {[1 .. n -> Record] : n \in 1 .. MaxFlush}

Pass(s) ==
    \/ PopItems(s) \/ LockTriggers(s) \/ ReturnItems(s)
    \/ \E off \in SUBSET Removable, written \in BOOLEAN : WriteHistory(s, off, written)
    \/ GetTimers(s) \/ Evaluate(s) \/ PushItems(s)

Next ==
    \/ \E w \in Writers : RetryAdd(w) \/ SleepOn(w) \/ \E records \in Batches : FlushHistory(w, records)
    \/ \E i \in Items : HistoryCacheClear(i)
    \/ \E t \in Timed : TimerDue(t)
    \/ \E s \in Procs : Pass(s)
    \/ Stop \/ Kill \/ FullSync \/ Ended

Spec == Init /\ [][Next]_vars

\* every process runs; a writer that sleeps looks again; a stop is not fair
Fairness ==
    /\ \A s \in Procs : WF_vars(Pass(s))
    /\ \A w \in Writers : WF_vars(RetryAdd(w))
    /\ WF_vars(FullSync)

LiveSpec == Spec /\ Fairness

----------------------------------------------------------------------------
(* Properties. *)

State == [pc : {"off", "pop", "lock", "return", "write", "timers", "evaluate", "push", "done"},
          batch : SUBSET Items, ready : SUBSET Items, trig : SUBSET Triggers,
          held : SUBSET Timed, mine : SUBSET Timed,
          failed : BOOLEAN, last : BOOLEAN]

\* Every variable has its type; the number of batches under way, the cache's
\* processing_num, is never negative, and the cache never holds more records
\* than it has memory for.
TypeOK ==
    /\ history_items \in [Items -> Seq([n : Nat \ {0}, value : BOOLEAN, meta : Nat])]
    /\ Size(history_items) <= MemSize
    /\ busy \subseteq Items /\ history_queue \subseteq Items
    /\ history_num \in Int /\ processing_num \in 0 .. Cardinality(Procs)
    /\ locked \subseteq Triggers
    /\ timers \in [Timed -> {"future", "due", "held", "saved", "dropped"}]
    /\ \A w \in Writers : writer[w].total \in 0 .. MaxFlush /\ Len(writer[w].rest) <= writer[w].total
    /\ syncer \in [Procs -> State]
    /\ server \in {"running", "stopping", "killed"}

\* between the death of the other processes and the last sync nobody looks at
\* the cache
Abandoned == server = "killed" /\ At(Main, "off")

\* An item with values is in the queue or in the batch of one syncer, never in
\* both, in two batches, or forgotten (zbx_hc_pop_items and zbx_hc_push_items
\* say that nobody else touches an item that is taken out); busy items are in
\* a batch.
OneHolder ==
    ~Abandoned =>
        /\ \A i \in Items :
             LET holders == {s \in Procs : i \in syncer[s].batch}
             IN  Cardinality(holders) + (IF i \in history_queue THEN 1 ELSE 0)
                   = (IF i \in Cached THEN 1 ELSE 0)
        /\ busy \subseteq UNION {syncer[s].batch : s \in Procs}

\* No two syncers evaluate one trigger at the same time: what a syncer has locked
\* covers what it evaluates, also when records are added to its items meanwhile.
TriggerAlone ==
    \A s, r \in Procs : s # r => Evaluating(s) \cap Evaluating(r) = {}

Holds(s) == syncer[s].trig \cup syncer[s].mine

\* A trigger is locked exactly as long as one syncer holds it, for its items or
\* for its timers: the comment on zbx_dc_config_lock_triggers_by_history_items
\* says that it works without any problems on a stable configuration.
LocksHeld ==
    /\ \A s, r \in Procs : s # r => Holds(s) \cap Holds(r) = {}
    /\ ~Abandoned => locked = UNION {Holds(s) : s \in Procs}

\* what writers that wait for memory have added and not counted yet
Uncounted == UNION {{w} \X (Len(writer[w].rest) + 1 .. writer[w].total) : w \in Writers}

\* history_num is the number of records in the cache, plus the metadata records
\* that were merged and are counted all the same for ever, less what a writer
\* that waits for memory has added and not counted.
HistoryNum ==
    server # "killed" =>
        history_num = Size(history_items) + log.merged - Cardinality(Uncounted)

\* The newest metadata received for a log item is in the newest record of the
\* cache or, when the cache has no more of the item, in the database, unless the
\* item's last write failed or the item is not monitored: metadata that is merged
\* into a value in the cache is not lost to the syncer that has copied it.
MetaKept ==
    \A i \in Log :
        IF i \in Cached THEN Last(history_items[i]).meta = log.received[i]
        ELSE i \notin log.stale => db.meta[i] = log.received[i]

\* A trend function's timer that was due is evaluated under the trigger's lock
\* before its time is calculated anew, whoever holds the trigger meanwhile, and
\* it is not dropped at shutdown.
TrendKept ==
    \A t \in Trend :
        /\ timers[t] = "future" => log.evaluated[t] = log.fired[t]
        /\ timers[t] # "dropped"
        /\ server # "killed" =>
             (timers[t] = "held") = (Cardinality({s \in Procs : t \in syncer[s].held}) = 1)

Unsettled(i) ==
    LET left == SelectSeq(history_items[i], LAMBDA r :
                    /\ r.value
                    /\ r.n \notin Range(db.stored[i]) \cup log.given[i])
    IN  [k \in DOMAIN left |-> left[k].n]

Fifo == INSTANCE HistoryFifo WITH
    pending <- [i \in Items |-> Unsettled(i)], stored <- db.stored, given <- log.given

\* The values of an item are stored in the order in which they were added, each
\* once and none lost, with any number of syncers, a full cache, failed writes,
\* clearing, and processes that are killed between a write and the removal from
\* the cache.
KeepsFifo == Fifo!Spec

\* nobody is left to make room for a writer that waits for memory
Stuck == (\A s \in Syncers : At(s, "done")) /\ \E w \in Writers : writer[w] # NothingToAdd

\* Every value leaves the cache, and a writer that waits for memory gets it,
\* unless the server has been stopped and the syncers have ended before.
Drains ==
    LET Work == Cached # {} \/ \E w \in Writers : writer[w] # NothingToAdd
    IN  Work ~> ~Work \/ Stuck

\* A server that is told to stop, or whose processes were killed, writes
\* everything that is in the cache and ends, unless a writer waits for memory
\* when the syncers have ended; after a kill it ends in any case.
LastSync ==
    /\ server = "stopping" ~> At(Main, "done") \/ Stuck \/ server = "killed"
    /\ server = "killed" ~> At(Main, "done")

\* A server that is told to stop ends: the comment on hc_add_item_values says
\* that a writer waits until history syncers have freed enough space.
ServerStops == server # "running" ~> At(Main, "done")
=============================================================================
