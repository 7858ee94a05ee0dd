# Zabbix proxy and server: verification project

TLA+ models of the parts of Zabbix whose correctness depends on the order in
which processes, transactions, messages, crashes and timeouts happen. Every
definition is translated from the C source; `PROJECT.json` says from which
lines. This README describes the whole system, what is modelled so far, what
the model-checking runs and the proofs show, and what comes next.

## 1. Inventory

| Component | State it keeps | Operations | Hard behaviour |
|---|---|---|---|
| proxy buffer (`libs/zbxproxybuffer`) | `zbx_pb_t` in shared memory: mode, state, three lists of rows, last sent and last written ids, open handles; the tables `proxy_history`, `proxy_dhistory`, `proxy_autoreg_host` and `ids` | open / write / close a handle, read rows for a packet, acknowledge, change state, flush | several writing processes, ids taken in one order and committed in another, four states with transitions at both ends, full memory, age limits, crash and shutdown |
| data sender, trapper (`zabbix_proxy/datasender`, `trapper`) | the packet under way | collect rows, send, acknowledge | lost replies, a commit that may fail, rows sent twice |
| proxy housekeeper | none of its own | delete uploaded or expired rows | runs beside writers and uploader; ids restart from what it leaves |
| server: reception of proxy data (`libs/zbxdbwrap/proxy.c`) | last value id per session | accept or discard history values | duplicates are told only by their id |
| HA manager (`zabbix_server/ha`) | registry rows in `ha_node`, own status, clock offsets | register, check nodes, take over, heartbeat, pause, stop | several nodes on one table, timeouts, a node that loses the database while active |
| proxy groups (`zabbix_server/pgmanager`, `libs/zbxpgservice`) | groups, proxies, host assignment revision | status update, rebalance, failover | delays, a proxy that returns, concurrent configuration changes |
| history cache (`libs/zbxcachehistory`) | item queue, per item values, "in process" marks | add values, check out, return | several syncers on one queue, triggers locked across items, cache full |
| value cache (`libs/zbxcachevalue`) | chunks per item, ranges known to be cached | add, get by count or time, free space | eviction while readers refer to items |
| preprocessing (`libs/zbxpreproc`) | task queue, value sequences, dependent tasks | queue, run on worker threads, finish | order of the values of an item, worker threads |
| alerter, connector, LLD, report and discoverer managers | queues and pools of workers | dispatch, retry, finish | limits, retries, worker loss |
| configuration cache, escalator, service manager, task manager, availability | large caches or database rows | mostly data transformation | little concurrency of their own |
| trappers, pollers, agents, database drivers, front end, templates | none or I/O | I/O, parsing, formatting | out of scope |

Interaction around the buffer: history syncers, discoverers and trappers call
`zbx_pb_*_open` / `close` and `zbx_pb_autoreg_write_host`; the data sender
(active proxy) or a trapper (passive proxy) calls `zbx_pb_*_get_rows`, sends the
packet and calls `zbx_pb_set_*_lastid` and `zbx_pb_update_state`; the
housekeeper reads `ids` and deletes rows; the main process calls `zbx_pb_init`
at start, `zbx_pb_disable` and `zbx_pb_flush` on exit. They share the memory
under one mutex and the database without one.

Interaction around the HA manager: the main process of a server starts the
manager, asks it for its status, and receives status updates and a heartbeat
every second; it starts the server's other processes when the status is active
and kills them, and the manager, when it is not or when no heartbeat comes.
Managers of different servers meet only in the tables `ha_node` and `settings`,
under a lock on the rows. Runtime commands reach the active server's manager.

Interaction around preprocessing: pollers and trappers send values to the
manager over a socket; the manager queues them as tasks, worker threads of the
same process take tasks and give back results under one mutex, and the manager
queues the tasks of dependent items from the results and hands all values on to
the history cache. The configuration cache tells it which items exist.

Interaction around the history cache: the preprocessing manager and a few other
processes append values under the cache's mutex and sleep while it is full; the
history syncers take items out, lock triggers in the configuration cache under
that cache's lock, write values, evaluate triggers and timers and put the items
back. A runtime command clears items. At the stop the main process signals all
of them, waits, and writes what is left.

Interaction around proxy groups: the manager thread and the service thread of
the proxy group manager share one cache under a lock. The configuration syncer
sends host relocations to the service; trappers and proxy pollers report when a
proxy was heard and ask what part of the host map to send to it. The map itself
they read from the table `host_proxy`, which only the manager writes. A proxy
stores its copy in its own database and remembers the revision.

What makes proxy groups correct: every host of an online group has one proxy, an
online one; memory, database and the proxies' copies of the map agree whenever
nothing is under way; a group that hears enough of its proxies gets online.

What makes preprocessing correct: every value comes out once, values (with data) of an item
that is preprocessed serially come out in order, each result reaches each
dependent item once, no task waits while a worker is idle, the stop ends.

What makes the history cache correct: an item is with one syncer at a time, its
values are stored in order, once, none is lost but those given up on purpose;
two syncers never evaluate one trigger together, and no lock is left behind;
everything drains, also at the stop.

What makes the cluster correct: two servers never act together, whatever
happens to a connection, a manager or a machine; a server does not take over
from one that is updating its row; somebody acts again in bounded time.

What makes the buffer correct: every value written is uploaded, or is discarded
by a rule the configuration documents; nothing is uploaded in a way that makes
the server discard a value it does not have, or store one it has; the buffer
moves between memory and database without leaving rows behind; the upload never
stops for good.

## 2. Plan

1. **`ProxyBuffer`** (done): buffer, writers, uploader, housekeeper, server
   session, crash, shutdown, restart. Runs for the three modes, proofs of the
   types, the handle count and the switch to memory in every mode, of the disk mode
   and of the memory mode. Left: what hybrid mode keeps.
2. **`HAManager`** (done): registry, managers, main processes, seconds as steps.
   All its safety properties but `FailoverInTime` are proved. Left: an abstract
   specification, one lease that moves between servers.
3. **`HistoryCache`** (done): item queue, check out and return by several
   syncers, trigger locks and timers, stop and last sync; implements the abstract
   specification `HistoryFifo`. All its invariants are proved. Left: the proof of
   the refinement, and the variant of a proxy.
4. **`Preproc`** (done): task order per item with parallel workers; implements
   the abstract specification `PreprocOrder`. All its invariants are proved. Left:
   the proof of the refinement.
5. **`ProxyGroups`** (done): states of proxies and group, rebalancing, the flush
   of the map, and the copies of the map that the proxies keep. All its
   invariants are proved. Left: several groups and proxies that move between them.
6. `ValueCache`, `AlertManager`.
7. An abstract buffer (one queue per table with delivery at least once) that
   `ProxyBuffer` implements in disk mode, and the proof of the implementation
   from the invariant of `ProxyBufferDisk`.
8. The locks left out of `ProxyBuffer` (mutex held over a transaction, SQLite's
   database lock) as a small module about deadlock.

## 3. Modules

| Module | Contents |
|---|---|
| `ProxyBuffer` | the specification and its properties |
| `MCProxyBuffer` | writers and tables for TLC |
| `ProxyBufferProofs` | facts on ids, sets of rows and lists; all modes: handle count, types, the switch to memory; memory mode: nothing lost |
| `ProxyBufferDisk` | the invariants of the disk mode |
| `HAManager` | the HA cluster: specification and properties |
| `MCHAManager` | setups (names of the servers, faults, bounds) for TLC |
| `HAManagerProofs` | types, takeovers in time, messages between manager and main process |
| `HASingleActing` | the invariant by which one server of a cluster acts |
| `Preproc` | the preprocessing manager, its queue and its workers |
| `PreprocOrder` | what preprocessing promises; `Preproc` implements it |
| `MCPreproc` | items for TLC |
| `PreprocProofs` | types, counters, signals, serial items, values in one place |
| `HistoryCache` | history cache, syncers, trigger locks and timers, the stop |
| `HistoryFifo` | what the history cache promises; `HistoryCache` implements it |
| `MCHistoryCache` | items and triggers for TLC |
| `HistoryCacheProofs` | the trigger locks and the trend timers |
| `HistoryItems` | items in one place, metadata, and the cache's counters |
| `ProxyGroups` | a proxy group: manager, service, copies of the map at the proxies |
| `MCProxyGroups` | setups (hosts, passive proxies, bounds) for TLC |
| `ProxyGroupsProofs` | the lists of the proxies, the map, the table and the service of an online group |

### How `ProxyBuffer` corresponds to the code

*State.* `mode`, `state`, `mem`, `lastid_sent`, `lastid_db`, `db_handles_num`,
`handleid`, `history_handleids` are the fields of `zbx_pb_t`. `dc_ids` is the id
cache of `cachehistory.c`, `idcache` the one of `dbmisc.c`. `db` and `ids` are
the committed rows of the three tables and of `ids`. `wr` has one record per
writing process: where it is, where its handle was opened to write, the
handle's number, the rows it has ready. `up` is the uploader: the table it is
at, the fetch cursor and the gap it met (`cur`, `gapid`), the handle it waits
for, the rows fetched, the packet, and the updates of `ids` not yet committed.
`server` is the session: last value id, values taken, values refused. `written`,
`dropped`, `restarts` and the value sets of `server` record history for the
properties.

*Steps.* A section under the buffer's mutex, a database statement outside it and
a commit are one step each. `zbx_pb_history_close` of a database handle is
therefore three steps, `AllocIds` (the insert takes its ids), `Commit` and
`Finish` (the second critical section), and the uploader's fetch is one step per
`select`. `CloseMemory` is the whole first critical section of a memory handle:
ids, age check, store, fallback or transition included.

| Code | Actions |
|---|---|
| `zbx_pb_history_open`, `zbx_pb_discovery_open` | `Open` |
| `zbx_pb_history_close`, `zbx_pb_discovery_close` | `CloseEmpty`, `CloseMemory`, `AllocIds`, `Commit`, `Finish` |
| `zbx_pb_autoreg_write_host` | `WriteHost`, `AllocIds`, `Commit`, `Finish` |
| `pb_history_get_mem` and siblings | `ReadMemory` |
| `pb_history_get_db`, `pb_history_get_rows_db`, `pb_wait_handles` | `ReadLastid`, `SelectHistoryGap`, `CollectHandles`, `WaitHandles`, `SelectHistory` |
| `pb_get_rows_db` | `ReadLastid`, `SelectOther`, `SkipTable` |
| sending, `process_history_data_by_itemids` | `Deliver`, `SendFails`, `ReplyReceived` |
| `zbx_pb_set_*_lastid`, commit, `pb_update_state` | `SetLastid`, `CommitLastids`, `SkipUpdate`, `UpdateState` |
| `delete_history` | `Housekeep` |
| `zbx_pb_create`, `zbx_pb_init` after a crash or a stop | `Crash`, `Stop` (both end in `Start`) |
| `zbx_pb_disable`, `zbx_pb_flush` | `Disable`, `Stop` |

*Abstractions.*
- Rows have equal size, so the memory limit is a number of rows. Clocks are not
  modelled: which rows are too old, and which list has the oldest row, is a free
  choice where the code compares clocks.
- The packet is full after any row: the JSON size limit and the limit on the
  number of records are one free choice `full`. Rows of deleted items are
  exported like the others.
- A failed insert (ids already in the table) loses its transaction. A database
  that is down is retried by the code until it is up, so it is only a delay; the
  two commits whose result the code ignores (`CommitLastids`, and the one in
  `UpdateState` that ends `memory_database`) may be lost. A commit that was
  carried out although its reply got lost, which the code repeats with new ids
  (`pb_history.c:810-815`), is not modelled.
- `pb_update_state`'s `more` of a passive proxy is uninitialised when the packet
  was full before its turn; `SkipTable` takes both values.
- The flush waits for the uploader's row locks on `ids` (`NoIdsLocks`); other
  locks are not modelled.
- On shutdown the other processes end, then the buffer is flushed (`Stop` waits
  for all to be idle).
- Statistics, logging, the JSON layout, tasks and availability sent in the same
  packet are left out.

### How `HAManager` corresponds to the code

*State.* `rows` is the table `ha_node`, one row per name, `settings` the failover
delay in the table `settings`, `now` the database's clock. `mgr[s]` is
`zbx_ha_info_t` of a server's manager (`status`, `db`, `id`, `delay`, `seen` for
`lastaccess_active`, `ticks` for `offline_ticks_active`) with its place in the
code (`pc`), the seconds to its next check (`wait`), and whether it has had its
turn in this second (`ticked`). `main[s]` is the main process: `status` and
`old` for `ha_status` and `ha_status_old`, `hb` for `last_hb`, its copy of the
delay, the unread messages of the manager, the session id. `quiet` counts the
seconds a standby server has been up with nobody acting.

*Steps.* A transaction that locks the registry is one step; so is
`ha_db_create_node`, which does not lock it but inserts a row that nobody counts
(status stopped) and that a unique index keeps single. `ha_remove_node_impl`,
which has no lock, is two. A message is received in a step of its own. `Advance`
lets a second pass when everybody has had his turn.

| Code | Actions |
|---|---|
| `zbx_ha_start`, `ha_manager_thread` before its loop | `Start`, `CreateNode`, `RegisterNode` |
| the manager's loop, a tick | `Tick`, `RetryRegister`, `CheckNodes` |
| `ha_remove_node`, `ha_set_failover_delay` | `RemoveSelect`, `RemoveDelete`, `SetFailoverDelay` |
| `zbx_ha_get_status` at start and at the end of `server_startup` | `Boot`, `Started` |
| `zbx_ha_dispatch_message`, the main loop | `Receive`, `Timeout` with `Loop` |
| `server_teardown`, `server_restart_ha` | `Restart` in these |
| signals, `zbx_ha_pause`, the paused manager, `zbx_on_exit` | `Stop`, `Pause`, `UpdateLastaccess`, `Stopped` |
| a process or machine that dies | `Crash` |

*What may go wrong* is part of the variable `setup`, chosen at the start and
never changed, which has the node names of the servers, the failover delay, the
faults and the bounds. The faults are a set of names: the connection is lost when a
transaction begins (`down`), after the registry was read (`late`), or at the
commit, which is carried out all the same (`lost`); a statement fails for good
(`fail`); the database keeps a manager waiting in a check or a registration
(`slow`); a manager does not answer a status request in time (`hang`);
`server_startup` takes seconds (`slowstart`); `crash`, `stop`,
and the commands `remove` and `delay`.

*Abstractions.*
- A row's id is the session that created it. Addresses, ports and the audit log
  are left out, and so are the commands that only report.
- One clock: `time(NULL)` of the main process and the database's time agree and
  never go back. A main process handles a message in the second it arrives, and
  a manager has its turn every second, unless a fault of the list says not.
- Heartbeats that wait in the queue together count as one. Messages that arrive
  during `server_startup` stay in the queue; the code may read and drop some of
  them there, and asks for the status at the end.
- With `fail`, a paused manager (`UpdateLastaccess`) either goes into error, when
  the transaction cannot be begun or committed, or rolls back and keeps its
  status, when the registry cannot be locked or the row not be updated.
- The commands' own failures (the statement fails, the answer cannot be sent)
  change nothing and are left out. The delay is changed once in a behaviour.
- A server acts (`Acting`) from the beginning of `server_startup` until it is
  told to stop or stands down. The final write of the caches in `zbx_on_exit`,
  which comes after the row is set to stopped, is not counted.

### How `Preproc` corresponds to the code

*State.* `q` is `zbx_pp_queue_t`: the lists `pending`, `immediate`, `finished`,
the registered `sequences`, the three counters, and, for the condition variable,
how many of the waiting workers have been signalled (`woken`). `worker` has each
thread's state and task, `items` is what the manager knows of the configuration,
`pc` its place in its loop. `accepted`, `flushed` and `tests` record what came
in and went out; of each value received, `accepted` has the item and whether it
is a value without data (`ZBX_VARIANT_NONE`, as of an item that only reports new
metadata).

| Code | Actions and operators |
|---|---|
| `pp_task_queue_push`, `_push_immediate`, `_push_test` | `Push`, `PushImmediate`, `PushTest` |
| `pp_task_queue_pop_new` and the move of pending tasks into sequences | `PopNew`, `Startable`, `Moved` |
| `pp_task_queue_push_finished`, `_notify`, `_wait` | `PushFinished`, `Notify`, `Waiting` |
| `pp_worker_entry` | `StartWorker`, `Finish`, `Wake` with `Loop`; `SpuriousWake` for what `pthread_cond_wait` allows |
| `zbx_pp_manager_create`, `zbx_pp_manager_free` | `Create`, `Stop`, `Free` |
| `preprocessor_add_request`, `zbx_pp_manager_create_task` and queueing | `Request`, `AddValue` with `Received`, `Queueable`; `EndRequest`, `TestRequest` |
| `zbx_pp_manager_process_finished`, `pp_manager_queue_*`, `preprocessor_flush_tasks` | `NoMessage`, `BeginFinished`, `ProcessFinished`, `EndFinished` with `ValueTaskResult`, `DependentTaskResult`, `Requeue` |

*Steps.* A stretch under the mutex is one step, except that the manager takes one
value of a request, or one finished task, per step; nobody else moves meanwhile.
The mutex is free between the end of a request and `BeginFinished`, where workers
may go on.
Running the steps of an item is outside the mutex, between `PopNew` and `Finish`.

*Abstractions.*
- What the steps compute is left out; a value has a result or is discarded. Step
  histories, statistics, the 10 s limit on the start of the workers and the
  memory of tasks are left out too.
- An item's attributes are fixed; a configuration change removes or restores an
  item. The order promised by `PreprocOrder` ends with the first change, since
  the code then may queue values of one item in two ways; `AcceptedOnce` and the
  others hold beyond.
- A value without data is never queued (`zbx_pp_manager_create_task`): it is
  handed on as it comes, and so overtakes the values of its item that are in the
  queue, also those of a serial item. The order that `PreprocOrder` promises is
  one of the values with data; its action `Pass` says which others do not wait.
- `SerialAlone` is about root and dependent items alike; a test runs beside
  anything.
- A task that runs a dependent item with a cache is only ever queued inside a
  sequence, never as a task of its own.
- Values in the queue when the manager stops are given up; the code frees them.

### How `HistoryCache` corresponds to the code

*State.* `history_items`, `busy`, `history_queue`, `history_num` and
`processing_num` are the fields of `ZBX_DC_CACHE`; an item's records are numbered
in the order of receipt and carry the number up to which they hold metadata.
`locked` is the lock flag of the triggers in the configuration cache, `timers`
the place of each trigger's timer (queue, syncer, table `trigger_queue`). `writer`
is what a process in `hc_add_item_values` has still to add, `syncer` the local
variables of `zbx_sync_history_cache_server`, for each syncer and for the main
process. `db` has what was stored, `log` what was received, given up or merged.

| Code | Actions |
|---|---|
| `zbx_dc_flush_history`, `hc_add_item_values` | `FlushHistory`, `RetryAdd`, `SleepOn` |
| `zbx_hc_clear_item_middle` by runtime command | `HistoryCacheClear` |
| a timer's time comes | `TimerDue` |
| `zbx_hc_pop_items` | `PopItems` |
| `zbx_dc_config_lock_triggers_by_history_items` | `LockTriggers` |
| `zbx_hc_push_items` | `Pushed` in `ReturnItems` (all busy) and `PushItems` |
| `zbx_hc_get_item_values`, `DCmass_prepare_history`, `DBmass_add_history`, item updates | `WriteHistory` |
| `zbx_dc_get_trigger_timers` | `GetTimers` |
| `recalculate_triggers`, unlocking, `zbx_dc_reschedule_trigger_timers` | `Evaluate` |
| the loop of `dbsyncer_thread` | `EndPass`, `NextPass` |
| `zbx_threads_kill_and_wait`, `sync_history_cache_full`, end | `Stop`, `Kill`, `FullSync`, `Ended` |

*Steps.* A section under the mutex of the history cache or the lock of the
configuration cache is one step, and so is the work between two of them. The
unlocking of triggers and the rescheduling of timers, two sections in a row, are
one step, and the end of a pass belongs to its last step.

*Abstractions.*
- Records have equal size, and the memory for the index is not modelled. Which
  items are the oldest depends on time stamps: any batch of the right size may
  be taken. Items are locked in any order.
- One timer per trigger. The time limits of a pass, trends, events, exports,
  proxies' throttling (`zbx_hc_check_proxy`) and statistics are left out, and so
  is the variant of a proxy (`cachehistory_proxy.c`). Records without a value
  occur with metadata of log items only; those of other items, which just carry a
  time (`dc_local_add_history_empty`), are left out.
- The configuration of triggers is stable, as the comment on
  `zbx_dc_config_lock_triggers_by_history_items` assumes; items may be disabled.
- A failed write (`"write"`) loses the values of its batch and the updates of its
  items; a database that is down is only a delay. The history tables have
  primary keys, so that a value written again after a kill is a duplicate.
- A kill does not hit a process inside a critical section. The cache is not
  synced by a server that loses its active status: it is freed on purpose.
- `MaxFlush <= MemSize`: a writer with more at once than fits waits for its own
  values to be synced, which the syncers then do; only at the stop this is the
  hang that `history_stop` shows.
- While the server runs, passes that find nothing to do are left out.

### How `ProxyGroups` corresponds to the code

*State.* `cache` is `zbx_pg_cache_t` with its one group: `map` is `hostmap`,
`updates` is `hostmap_updates`, `last` is `hostmap_revision`; `state`, `since`,
`hosts`, `unassigned`, `shown` (`hostmap_revision` of the group), `wait` (time
left to `balance_time`) and `unbalanced` belong to the group; `pstate`, `alive`
(age of `firstaccess`), `refs` (`hosts`), `synced` and `deleted` to its proxies;
`queued` says that the group is in `group_updates`. `pgm` is the manager thread:
its place in the loop and what it has to write. `rows` and `ids` are the tables,
`mail` the relocations sent to the service, `conf` the hosts, `sync` the answer
under way to each proxy, `remote` what a proxy has: revision, rows and, if it is
passive, the sync lock, and whether it has stored an answer of this server that
had every row (`served`). `known` are the sessions of `zbx_dc_register_config_session`.
`left` is the chosen setup: hosts, passive proxies, and how often the environment
may still do each thing. `based`, `refused`, `crossed` and the field `served`
record history for the properties.

*Steps.* What happens under the cache's lock is one step, and so are the
manager's transaction, a proxy's select on the map, and a proxy's transaction.

| Code | Actions |
|---|---|
| `pgm_update` every `PG_STATE_CHECK_INTERVAL` | `Update` |
| `pgm_rebalance_and_flush_updates` | `Rebalance`, `Commit`, `Publish`; `NothingQueued` if there is nothing to do |
| `pg_update_host_pgroup` | `UpdateHostPgroup` |
| `zbx_proxyconfig_get_data`, `pg_get_proxy_sync_data` | `GetProxySyncData` |
| `proxyconfig_get_hostmap` | `GetHostmap` |
| `zbx_proxyconfig_process` | `SyncProxyGroup`, `CommitFails` |
| `process_configuration_sync`, `zbx_recv_proxyconfig` when the transfer fails | `Lose` |
| `pgm_init`, `pgm_db_get_hosts` | `RestartServer` |
| users, network, a proxy's restart | `EditHost`, `Hear`, `RestartProxy` |

*Abstractions.*
- Time is counted in check intervals and kept as ages, cut at the largest value
  the code tells apart. An edit of a host and the configuration sync that reports
  it are one step.
- The proxies of the group are fixed and have the server's version. The limit of
  24 hours on kept deletions, other groups and statistics are left out. Of the
  answer to a proxy only the map is followed; an empty answer is not lost.
- The restart of the manager is one step, although its service thread starts
  (`pg_service_init`) before the first `pgm_update` and `pgm_db_get_hosts`.
- Left out: a failure to reach the service, after which the server answers in
  full mode with the revision the proxy had (`proxyconfigread.c:1083-1110`); the
  purge of the copy when an answer has no group (`proxyconfigwrite.c:2226-2246`),
  as the proxies of the group are fixed; and the repetition of a flush whose
  commit was carried out although the connection was lost, which would meet the
  unique index.
- The first distribution sorts the proxies by lists that are still empty, and
  hash sets have no order: any order is taken there.
- `Distribute` says what comes out of the passes of
  `pg_cache_group_distribute_hosts` instead of repeating them: every pass fills
  the proxies up to the next level (`Level`, the most hosts of a proxy so far in
  the order) and ends at the first that has as many already. So the levels of the
  proxies before one that is given a host end no lower than its own, and those
  after it at most one lower. Which host goes to which proxy is open, as the
  hosts come from a hash set.

*What the properties leave out.* The following are facts of the code that the
model shows when the exemptions are dropped.
- After a restart of the server, a host that had left the group while its row was
  still there is marked for removal, but is not in the map. If it joins again
  before the first rebalance, the manager inserts a second row for it, which the
  unique index on `hostid` refuses. The whole flush is lost and not repeated
  (`refused`); the properties are claimed as long as this has not happened.
- For a proxy that the manager has not synced with, the service answers in full
  mode, as the comments at `pg_service.c:171` and `pg_cache.c:954` promise. But
  the tag that tells the proxy so is inside the group's object, and the proxy
  reads only the one at the top, which is sent for a new session. If the first
  answer to that session was taken between `Rebalance` and `Commit`, or while the
  group had no revision, or was not stored, then rows deleted meanwhile stay in
  the proxy's copy. `CopyExact` therefore speaks of proxies that got everything
  in one stored answer that had no such row (`based`).
- The relocation that tells of a rename is lost with the service's mail when the
  server restarts, and the rebuilt map keeps its revisions. A proxy is then given
  everything in the answer to its first request. But its session is registered as
  that request comes in (`zbx_dc_register_config_session`, `dbconfig.c:15167`): if
  the proxy does not store the answer, it is known, asks with the revision it had,
  and, when that is the group's revision, is sent no row. It keeps the old name
  until the row is written again. TLC found this when the setup `LostRestart` was
  added; `CopyCurrent` therefore speaks of proxies that stored an answer of this
  server that had every row (`served`).
- A host that leaves the group and returns before the map is flushed, for
  instance while the group is not online, is among the unassigned hosts and
  still in the map, with its removal pending. If it is renamed then,
  `pg_update_host_pgroup` takes the removal back and gives the host to its old
  proxy, but leaves it unassigned: the flush puts it into that proxy's list, and
  the next rebalance gives it to a proxy again, perhaps another one, in whose
  list it is as well from then on. A list then has a host that the map has
  elsewhere, and a host that leaves the group stays in one. `RefsValid`,
  `AllServed` and a part of `TypeOK` are claimed until a rename meets such a host
  (`crossed`), which setup `Again` reaches.

## 4. Runs

| Run | Mode | Question | Result |
|---|---|---|---|
| `disk_history` | disk | two history syncers, a crash or a shutdown: is a value skipped, or refused as a duplicate it is not? Does every row in the database reach the server? | no, no, yes |
| `memory_discard` | memory | full buffer, expiry, lost replies, a restart: are rows lost other than by the documented rules? | no |
| `hybrid_switch` | hybrid | all four states, age limit, passive proxy: is the handle count exact, is the database drained at the switch to memory, is a value stored twice? | yes, yes, no |
| `hybrid_loss` | hybrid | is a history value lost? | violated |

| Run | Faults | Question | Result |
|---|---|---|---|
| `ha_cluster` | by setup, below | do two servers act together, does an acting one not own its row, are there two active rows, do a main process and its manager disagree when all messages are read, is a node marked unavailable before the delay, does a server take over while the active one is still shutting down? How long does nobody act while a standby server is up? | no; at most the delay and four poll periods |
| `ha_slow_start` | down, slowstart | do two servers act together? | violated |

| Setup of `ha_cluster` | Servers | Faults | Seconds | Starts |
|---|---|---|---|---|
| `Failover` | two nodes | down, crash | 13 | 2 |
| `Shutdown` | two nodes | stop, crash | 15 | 2 |
| `Slow` | two nodes, delay 8 | slow, hang, delay | 12 | 2 |
| `Removal` | a standalone server and a node | crash, remove, fail | 9 | 3 |
| `InDoubt` | a standalone server and a node | crash, lost | 7 | 3 |
| `SameName` | two servers of one node name | down | 11 | 2 |

| Run | Question | Result |
|---|---|---|
| `preproc` | Are the queue's counters exact, is a startable task left while every worker sleeps, do two workers run one serial item, is a value in the queue twice or not at all? Does `Preproc` implement `PreprocOrder`? Does every value leave, and the stop end? | yes, no, no, no; yes; yes |
| `history_cache` | Is an item with two syncers or forgotten, is a trigger evaluated twice at a time or left locked, what is `history_num`, is log metadata or a trend timer lost? Does `HistoryCache` implement `HistoryFifo`? | no, no, see below, no; yes |
| `history_drain` | Does the cache drain, does a writer get memory, does a stop or a kill end with an empty cache? | yes, unless the writer still waits when the syncers have ended |
| `history_stop` | Does a server that is told to stop always end? | violated |
| `proxy_groups` | Do the proxies' host lists fit the map, is the map in the database, does an online group serve every host and no other, does a proxy at the group's revision have the map and nothing else? Does a group that hears enough proxies end up serving all hosts by them? | yes to all |
| `proxy_lock` | Does a passive proxy hold its sync lock only while a sync is in progress? | violated |

| Setup of `proxy_groups` | Hosts at first | What happens |
|---|---|---|
| `Moves` | one | two moves (into the group, out, deletion), three requests of a proxy |
| `Renames` | one | one move, one rename, three requests |
| `Lost`, `LostPassive` | one | one move, three requests, one answer lost or not stored, one restart of a proxy; the proxies are active, or passive |
| `Restart` | one | two moves, three requests, one restart of the server |
| `LostRestart` | one | one rename, three requests, one restart of the server, one answer lost or not stored |
| `Failover` | two | three changes of the set of proxies that are heard |
| `Busy` | two | two such changes and one move |
| `Again` | one | two such changes, two moves and one rename |

`history_num` is exact except that metadata that is merged into a value in the
cache is counted when it comes and never when it goes, so that the counter drifts
upwards by it; only statistics and the log use it.

*Bounds of the buffer runs.* Two writers are enough for ids to be committed out
of order, and two values for a gap: one handle has the first id and has not
committed, the other has committed the second. In `disk_history` a crash at that
moment leaves the gap for good, under a new session and new id caches.
`MaxRecords = 2` makes
full fetches, short fetches and fetches resumed after a gap occur. `MemSize` 1
or 2 makes every store meet a full buffer. One restart covers what survives a
restart; ids, session and caches are reset by each in the same way. `MaxHandles`
bounds the handles opened between two starts and `MaxWritten` the values per
table; the safety of the disk mode beyond these bounds is proved (section 5).

*Bounds of the HA runs.* `Poll = 2` and a delay of 4 keep the proportions of the
code (5 and at least 10): a check is not due every second, while retries after a
lost connection are, and the delay is twice the poll period (setup `Slow` starts
with 8 and may lower it to 4). Two servers are the active one and its successor.
13 seconds are the first at which a server that started last has counted a
takeover to its end; `Shutdown` goes on to 15, and in `Removal` and `InDoubt`,
where only registrations decide, fewer are enough. The number of starts counts
all servers together: 3 leaves one restart. Each setup has the faults whose
combination its question needs; with all of them together the state space is out
of reach. At the last second the behaviour stutters (`Horizon`), so that a
deadlock before it is still found. The servers are symmetric: nodes are named
after their servers.

*Bounds of `preproc`.* Two workers, because one cannot overtake; a serial master
`m` with two dependent items, of which `b` is serial and can use a cache, and a
serial internal item `s` that goes to the immediate list at once. Three values
let a sequence grow while its first value is being run and be requeued; batches
of 2 end in the middle of the finished list. One test and one configuration
change. Deadlock is not checked because a stopped manager does nothing more.

*Bounds of the history runs.* Two syncers; trigger `t` refers to both items, so
that items are busy because of each other, and has a trend timer; `u` refers to
`b` only. Three records of `a` are the fewest with a middle to clear and with
metadata that may be merged while the oldest is being written; `MemSize` 3, or 2
with two records of `a`, makes the cache full while a writer has more. `SyncMax`
2 lets a batch have both items or one.

*Bounds of the proxy group runs.* Two proxies and two hosts are the fewest that
can be unbalanced. `Delay = 2` check intervals separates a proxy that is late
from one that is offline, and "alive for the failover delay" from "just back".
Two moves let a host leave and come back while the first change is still being
written; three requests are a first full answer, a partial one and one more after
a loss. Three outages are enough for a proxy to go, come back and go again, or
for both to go. `Wait = 2` instead of ten delays and `Limit = 1` instead of ten
hosts only shorten what has to happen. The server's first map is empty or has
one row. One proxy's copy is followed: copies do not influence each other.

Combinations that are left out because the answer is known and differs:
- `lost` with `TakeoverAfterDelay`: a commit whose result is unknown is retried
  every second and counted.
- `late` with `TakeoverAfterDelay`: a check that fails after it has read the
  registry still counts as a missed update, and is repeated after one second.
  Three such failures, in three seconds instead of three poll periods, and the
  standby node takes over from an active node that is well; both act then. The
  property is violated in a setup of two nodes with this fault alone.
- `hang` with `StatusAgrees`: when the first registration takes longer than
  `ZBX_HA_SERVICE_TIMEOUT`, the main process goes on as standby; the manager
  becomes active without an update to its parent and sends heartbeats, so
  neither notices. The row is active and no server acts. Setup `Slow` shows
  that this is at least safe.
- `slow` with `stop`: a manager that hangs in a check while its main process is
  shutting down may write its row active again after another has taken over,
  since nobody watches its heartbeats any more.
- `down` or `fail` with `stop`: a paused manager that cannot update its row keeps
  its status while the row ages, so that another node takes over before the
  shutdown is complete. TLC finds `StoppingHolds` violated in a setup with stop and
  fail; setup `Shutdown` has neither `down` nor `fail`, and the theorem
  `StopsUndisturbed` excludes both.
- `slow` with a standalone server, which does not watch heartbeats at all.
- In setup `Slow` the delay is lowered: if it is raised between the two
  transactions of a registration, the new node uses the old value.
- two writers of autoregistration or discovery rows in disk mode: their rows are
  fetched with one short wait at a gap and no wait for the writer, so that an
  insert that takes longer is passed over for good (`BufferNoLoss` is violated).
- after a restart in hybrid mode only the history ids are restored, so unsent
  rows of the other tables do not hold back the switch to memory and stay in the
  database until the buffer falls back again. `DrainedSwitch` claims those tables
  only before the first restart. The run `hybrid_switch` has no restart; the
  theorem `SwitchDrained` has any number.

*Fairness* (`LiveSpec`, run `disk_history`). A process that has opened a handle
goes on to close it, and the uploader loops for ever: weak fairness of `Close`,
`Read`, `Acknowledge`. Network and database fail, but not always: strong
fairness of `Deliver`, `ReplyReceived` and `CommitLastids(TRUE)`, since each
round may end in `SendFails` and try again. Opening handles and writing new
values is not fair, crashes are not either.

*Fairness* of `preproc`: the manager's loop and each worker thread go on as long
as they can (weak fairness of `ManagerStep` and of each `WorkerStep`, which has
no spurious wakeups). Requests, tests and the stop are not fair. *Fairness* of
the history runs: weak fairness of each process's `Pass`, of `RetryAdd` (a
writer that sleeps looks again every second) and of `FullSync`; adding values,
timers, commands, stop and kill are not fair.

*Fairness* of `proxy_groups` (`LiveSpec`): the loop of the manager goes on. In
every state one of its steps is possible, and all but a rebalance that finds
nothing to do change `pgm`; so that `pgm` changes again and again says that the
loop runs and that `pgm_update` is reached, which the loop calls by the clock.
The service thread handles its messages (weak fairness). Users, requests,
outages, losses and restarts are not fair.

*Refinements.* `preproc` checks `KeepsOrder`, that `Preproc` implements
`PreprocOrder` (an inbox per item, a queue if the item is serial and a set if
not, which a value without data does not enter): the inbox of an item is what its sequence, the pending list and the tasks
of its master that share a cache hold for it. `history_cache` checks
`KeepsFifo`, that `HistoryCache` implements `HistoryFifo` (one queue per item):
what is pending is what the cache holds and is neither stored nor given up.

*What the violations show.*
- `hybrid_loss`: memory rows and database rows take their ids from two counters
  that do not know of each other. After a phase in the database, memory rows get
  ids that are already in the table, so that the flush fails and its rows are
  gone, or ids the server has already seen, so that it discards their values.
- `history_stop`: a syncer whose last pass finds all items busy, because the
  other syncer has their trigger, returns them to the queue and ends; the other
  ends when it finds the queue empty before that. A writer that found the cache
  full meanwhile sleeps in `hc_add_item_values` until somebody frees memory. The
  main process, which would write the rest, first waits for the writer.
- `proxy_lock`: a passive proxy takes its sync lock before it answers the server's
  request for its revision. When the configuration then cannot be received or
  parsed, `zbx_recv_proxyconfig` returns without releasing the lock, and every
  later configuration is refused as "already in progress" until a restart.
- `ha_slow_start`: nobody looks at heartbeats during `server_startup`. A server
  whose database connection fails meanwhile is told by its manager at the end
  that it is active, which was true before the other took over.

## 5. Proofs

All proofs are for arbitrary constants. Those about the buffer are under
`BufferAssumption` (the tables have distinct places in the packet, the writers are
finitely many, memory and a fetch have room for at least one row).

*`HandleCount`* (`ProxyBufferProofs`, every mode): `db_handles_num` is the number
of handles that are going to write to the database. The switch from the database
back to memory is decided on this counter. `HandlesCounted` alone is not
inductive: a writer's step changes the counter by looking at where its handle
was opened to write, so the invariant `HandleInv` adds `WriterShape`, what a
writer's record may look like at each point of its program. Each action that
opens or closes a handle changes the set of counted writers by that writer, and
the theorems on cardinality do the rest.

*`BufferTypes`* (`ProxyBufferProofs`, every mode): `TypeOK`. The difficult part is
that `CloseMemory` discards, stores, flushes and changes state in one step, over
operators that choose a largest id or fold over a list. `BufferInv` has one part
per piece of state and says beside the types what those operators need:

| Part | Adds to the types | Needed because |
|---|---|---|
| `UpTyped`, `DbTyped` | the uploader's sets of rows and the tables are finite | a largest id exists |
| `BufferTyped` | the buffer is in memory mode exactly when the proxy is configured so; in the other modes memory is never overfull | the age check and the fallback decide on the space left |
| `IdsTyped`, `WritersTyped`, `RestTyped` | nothing: split off so that an action is asked only about what it changes | |

`AddDiscarding` stores the rows of a batch one by one and discards at the head of
a list whenever memory is full, as a recursive function on the number of rows.
Its equations are derived by well-founded induction (`AddSolvable`), and
`AddDiscardingFacts` says what it may return: nothing but rows that were there
or are in the batch, in the order of their ids.

*`SwitchDrained`* (`ProxyBufferProofs`, every mode): `DrainedSwitch`, an action
property. When `pb_update_state` goes from `database_memory` to `memory`, no
handle is going to write to the database and no row there is above the last id
sent. The code decides this on two numbers, `db_handles_num` and `lastid_db`, and
never looks at a row. The invariant `DbBelow` says why that is enough: every row
of the database is covered by `lastid_db` of its table, or was committed by a
handle that has still to raise it (between the commit and the second critical
section of `pb_history_close`). By `HandlesCounted` that handle is still counted,
so at zero the second case is gone, and the condition `Drained` compares
`lastid_db` with the last id sent. A flush raises `lastid_db` together with the
rows it writes. A restart restores `lastid_db` of history only, hence the
restriction for the other tables.

*`MemoryNoLoss`* (`ProxyBufferProofs`, stated as `Mode = "memory" => ...`):
`BufferNoLoss`, for all tables. The memory is full, rows are discarded to make
room, while the uploader holds a packet with copies of some of them; the reply
then clears by row id. The invariant `MemInv`:

| Part | Says | Needed because |
|---|---|---|
| `MemShape` | the database is unused and every writer and the uploader is at a point of the memory path | the other actions are excluded |
| `MemOrder` | the ids of a list grow and are given out already; the packet has every row of the list below one of its own | `SetLastid` clears all rows up to the last id of the packet, which must be rows that were sent, also after others were discarded meanwhile |
| `MemSession` | the server has the values of the rows up to the last id of the session | what it discards as a duplicate it has |
| `MemSent` | the rows of an answered packet are accepted | the rows are cleared after the answer, not with it |
| `BufferNoLoss` | the property | |

`MemInv` was first checked by TLC on the instance of `memory_discard`.

*`DiskHistoryNoLoss`, `DiskDuplicates`* (`ProxyBufferDisk`), stated as
`Mode = "disk" => (Spec => []P)`: in disk mode `HistoryNoLoss` and
`OnlyDuplicatesDiscarded` hold with any number of writers and tables, lost
replies and commits, the housekeeper, crashes and restarts. They follow from one
inductive invariant, `DiskInv`:

| Part | Says | Needed because |
|---|---|---|
| `DiskType` | the types, and that memory is not used and the state stays database | the memory branches of the actions are excluded |
| `RowsInv` | rows being inserted have ids of their own, not beyond the id cache and ahead of what the server has seen and of `ids`; what the server has seen of the table it has | a commit puts rows into the table whose ids must not be behind the uploader |
| `PacketInv` | the packet has every row of the table up to its last id, and what it acknowledges | the acknowledgement moves `lastid` over everything below it |
| `FetchInv` | the rows fetched so far and the packet are all rows up to the cursor, and every handle that could still fill the gap is not newer than the one waited for | the fetch is several selects, between which writers commit |
| `Registered` | a writer with ids has its handle in the list of handles | `CollectHandles` sees everybody who could fill a gap |
| `HistoryNoLoss`, `OnlyDuplicatesDiscarded` | the properties | |

There is one lemma per action, and `ProxyBufferProofs` has the facts on maximal
ids and on sets of rows cut at an id that they share. The argument, in words: at a gap
the uploader notes the newest open handle and waits until all handles up to it
are closed. Whoever holds an id below the gap had its handle open then; so after
the wait a gap is a gap for ever, the next select is complete up to its last
row, and the packet may be acknowledged as a whole.

*`DiskAcceptedOnce`* (`ProxyBufferDisk`): in disk mode `AcceptedOnce` holds: within
a session the server stores no history value twice, although packets are sent
again after lost replies. The server tells values apart by row id only, so its
invariant `OnceInv` relates ids to values. Among all history rows there are, in
the table, in the packet, with the uploader or being inserted (`HKnown`), the ids
and the values grow together, no value is beyond the number written, and the rows
behind the session's last id have newer values than the session. Only two actions
do more than lose rows from `HKnown`: `AllocIds` adds rows with the next ids and
the next values, behind everything (by `DiskInv`), and `Deliver` moves the last
id to the end of the packet, before which every value is older than those behind
it. A restart empties the session, which is why the property speaks of one
session.

*`Locks`, `TrendTimers`* (`HistoryCacheProofs`), under `HistoryCacheAssumption`,
for any number of syncers, items, triggers and records. `Locks`: `LocksHeld`, a
trigger is locked exactly as long as one process holds it, through failed writes,
kills and the last sync. Its invariant `LockInv` adds the shape of a process's
record at each point of a pass (what it may hold there), that the holdings of
two processes are disjoint, and that after a kill all syncers are done, which is
why the main process may clear all locks. `TrendTimers`: `TrendKept`, a due trend
timer is evaluated under its trigger's lock before it is scheduled anew, and is
not dropped. Its invariant `TimerInv` adds to `LockInv` the types of the counters,
that a timer's place fits the counts of times it was due and evaluated, and that
a timer is held by at most one process.

*`ItemsHeldOnce`, `TriggersAlone`, `MetadataKept`, `ValuesCounted`, `CacheTypes`*
(`HistoryItems`), under the same assumption: `OneHolder`, `TriggerAlone`,
`MetaKept`, `HistoryNum` and `TypeOK`, for any number of syncers, writers, items
and records. The first three follow from `ItemInv`, the others from `CountInv`
(`TypeOK` with `TimerInv` besides):

| Part | Says | Needed because |
|---|---|---|
| `LockInv` | as above | a trigger is evaluated by whoever has its lock |
| `Types` | the records of each item, and that they fit | what is appended, merged and removed |
| `Sound` | what a process's place in its pass says about its batch: every item of it has a record, those not busy are ready, the triggers of their oldest records are among the locks it took, and what it wrote of their metadata is what their oldest records say | records are appended and cleared between the steps of a pass; the oldest record must still be the one that was copied, so nobody but the holder may remove it |
| `Apart`, `Placed` | batches are disjoint; the cached items are those in the queue or in a batch, never in both; busy items are in a batch | between `zbx_hc_pop_items` and `zbx_hc_push_items` no other process gets the item |
| `MetaKept` | the property | |
| `Waiting`, `HistoryNum` | what a waiting writer still has to add is at most what it will count; the property | a full cache splits one call of `hc_add_item_values` into several |
| `Processing` | `processing_num` counts the processes with a batch, and the syncers killed with one | the counter is not corrected by a kill |

`OneHolder` is not inductive: a process returns a batch item by item to the queue
only if it has a record left, and that depends on what the oldest record was when
the batch was taken. The merge of metadata into the newest record is the step
that could break `Sound`: `hc_add_item_values` merges only if that record is not
the oldest one as well. The number of records is a cardinality of a set of pairs
(`Cells`), whose lemmas say how it changes when one row grows or some shrink.
`AddItemValues` is a recursive function, and `Folded` and `AllAdded` prove by
well-founded induction what it does to any sequence of records.

*`Types`, `TakeoverWaits`, `StatusReaches`* (`HAManagerProofs`), under
`HAAssumption`. `Types`: `TypeOK` in every setup. `TakeoverWaits`:
`TakeoverAfterDelay`, where no check fails half-way, no commit's outcome is
unknown and the delay is not raised (`Prompt`; section 4 says what happens
otherwise). Its invariant `TimeInv` bounds the number of checks a standby manager
has counted by the time that has passed since it saw the active row change
(`Counts`), with the delay it knows never above the one in the registry
(`Knows`). `StatusReaches`: `StatusAgrees`; `MailInv` says that the last status in
a main process's queue is the status its manager has, or that the manager has
not sent one since it started.

*`OneActs`, `ActsOnOwnRow`, `StopsUndisturbed`* (`HASingleActing`): `SingleActing`,
`ActingOwnsRow` and `StoppingHolds`. They are stated for the behaviours that
`Covered` describes: all nodes are named, each name belongs to one server, and
the faults are a database that is down, statements that fail, a database that is
slow, crashes and stops, but not slow and stop together. They hold for any number
of servers, poll period and delay that `HAAssumption` allows. `StopsUndisturbed`
needs a database that answers and transactions that do not fail (`Undisturbed`:
neither `"down"` nor `"fail"` among the faults), or the row may not be updated during
the shutdown. The invariant `ActInv`:

| Part | Says | Needed because |
|---|---|---|
| `TimeInv`, `MailInv` | as above | a takeover comes late enough, and a change of status is read |
| `IdInv`, `OneActive` | a session owns one row; one row is active | the registry, not the servers, decides who is next |
| `Box` | what a manager and its main process may think of each other at each point of start, run and shutdown | both have a copy of the status |
| `LeadInv` | a server that acts owns the active row, and its main process has heard from the manager lately enough, counted from the row's last update, that it stands down before the row is old enough to be taken over | the two clocks that decide, `last_hb` here and `lastaccess` there, are related only through the manager's own updates |

With slow and stop together the invariant fails for a reason: a manager that is
kept waiting in a check while its server stops writes its row active over one
that has been taken over. The setups outside `Covered` (commits in doubt, slow
starts, managers that hang, removed nodes, standalone servers) are checked by
`ha_cluster` only.

*`GroupTypes`, `RefsSound`, `MapStored`, `HostsServed`* (`ProxyGroupsProofs`):
`TypeOK`, `RefsValid`, `DbMatches` and `AllServed`, under `Bounds` (finitely many
hosts and proxies, positive delays, a group that has at least `min_online`
proxies), for any setup, so for any number of moves, renames, outages, losses and
restarts. They follow from one inductive invariant, `IInv`:

| Part | Says | Needed because |
|---|---|---|
| `Types` | the types, of the whole cache and of what is to be written | |
| `Counted` | no id and no revision is ahead of its counter | a new row's revision is above the known ones; part of `TypeOK` |
| `OneRow` | a host has one row in the map and one in the table; a deleted host has none there | a host is in the list of one proxy; updates and deletions go by host |
| `Stored` | what is to be written is in the map, and the open transaction makes the table what the map is (`Writing`) | the map is changed in memory first, and hosts are deleted before the commit |
| `DbMatches` | the property | `Flush` is a difference to the last written map |
| `Linked` | the lists, the unassigned hosts and the pending updates fit each other (`Listed`); a pending update gives a host to the proxy that has it, and unassigned hosts of an online group keep it in the queue (`Kind`) | `RefsValid` follows; an update may be overwritten by a relocation before it is flushed |
| `Chained` | the relocations of a host in the mail follow from each other, from the hosts the service knows to the configured ones | the service applies each one without looking at the configuration |

`Kind` holds between two steps only: within a rebalance hosts are taken from one
proxy and given to another, and the lemmas `Rebalanced` and `UpdatesListed` say
that `Listed` is kept on the way and that the flush restores `Kind`. A lemma says
of each operator on the cache which fields it changes and how; the lemma of an
action combines them. `AllServed` is the end of the argument: with an empty
queue nobody is unassigned, with no update every host is in a list, the lists
point into the map, the lists of proxies that are not online are empty, and with
no mail the hosts are the configured ones.

*`CopiesCurrent`, `CopiesExact`* (`ProxyGroupsProofs`): `CopyCurrent` and
`CopyExact`, under `Bounds`, for any setup. On top of `IInv` they need an invariant
on what each proxy has stored, is being sent and has yet to be told. `CopyInv` has
these parts; all but the first are claimed while no flush was refused, the
last while no rename crossed either, as the properties are:

| Part | Says | Needed because |
|---|---|---|
| `CopyTypes` | the types of copies and answers | |
| `Distinct` | an id belongs to one host | a row of a copy is found in the map by its id |
| `Removals` | the deletions kept for a proxy have left the map for good | a deletion that is told again must not take a row that is in use |
| `Raised` | the revision of the group is raised when its rows are in the table, and when the manager has nothing to write there is nothing above it | an answer reads the revision and the table in two steps |
| `Followed(p)`: `Held` | the copy has the rows up to its revision that nothing is on its way about (`Caught`); each row of a copy that is `based` is in the map, or the proxy will be told (`Explained`) | the two properties, for any revision the proxy may ask with |
| `Followed(p)`: `Sent`, `Read` | the same of the answer under way, which starts where the copy ends, and has the deletions in between | an answer is older than the map when it is stored |
| `Followed(p)`: `Tabled` | every row of the table is in the map, or is being deleted and will be told of | an answer may read a row whose deletion is not committed |

`Evolves(p)` says what a step of the manager or of the service does to the map as
a proxy sees it: rows get revisions above the one shown or are told of as removed,
and a host about which nothing is on its way any more has not changed unseen. `FollowedEvolves` carries
`Followed` through every step that evolves the map so; one lemma per action shows
that it does. `StoredCopy` is the step in which answer and copy become the new
copy: a row is in it because the answer read it, or because the copy had it and
the answer neither sent nor deleted its id. After a restart of the server nothing
is known of a copy until the proxy has stored an answer that is not a difference;
this is why `served` and `based` are reset there. With no mail, no update and the
manager idle, `Caught` at the revision shown is `CopyCurrent`, and `Explained`
leaves only rows of the map, which is `CopyExact`.

*`PreprocTypeOK`, `PreprocCountersExact`, `PreprocNoneForgotten`,
`PreprocSerialAlone`, `PreprocAcceptedOnce`* (`PreprocProofs`): the five invariants
that `preproc` checks, under `PreprocAssumption` (each item depends on one other at
most, plain items have neither steps nor dependents, there are finitely many
workers and at least one), for any items, dependencies, workers, batches, values
and configuration changes. They follow from one inductive invariant, `IInv`:

| Part | Says | Needed because |
|---|---|---|
| `Shape` | which tasks a list or a sequence may hold: pending ones are values of items that depend on none, a sequence has values of its own item or tasks that share a cache, and no sequence that is registered is empty. Until the first configuration change, an item that shares its master's cache has no task of its own | a worker looks at the head of a sequence without asking whether there is one; `SerialAlone` follows |
| `WorkerShape` | workers have containers, parallel values or tests | what comes back as finished |
| `Balance` | each registered sequence has one container, in a list or with a worker (`Gap`), and `pending_num` is short by one for each container that a worker has or has given back (`Surplus`) | a container is pushed uncounted, but counted down when it is popped |
| `Turn` | what the number of values in this turn may be; at the end the queue is empty and nobody works | the manager signals at the end of a request only if it queued something |
| `Signals` | no more workers are signalled than wait; while a list has tasks some waiting worker is signalled, or the manager is about to (`Awake`) | `NoneForgotten` is not inductive: a worker that moves a pending task into a sequence, and finds none for itself, must leave nothing behind |
| `Rest` | the types of what remains, and `items = Items` until the first change | |
| `Settled` | each value received is once in a list, in a sequence, with a worker or among those handed on | `AcceptedOnce` follows |

The argument is a book-keeping one. `Effect(Q, P, t, gap, surplus, inside)` says
what an operation that makes queue `P` of queue `Q` for task `t` does to the three
accounts: the containers outside the lists, the tasks counted but not waiting, the
values held. One lemma per operation of `pp_queue.c` gives its effect,
`EffectSum` adds two that follow each other, and `Takes` and `Gives` say what a
worker does that takes a task or gives one back; the accounts of every action sum
up to nothing, or to the value received or handed on. The chain of wakeups
(`LoopSignals`, `ChainedEffect`) rests on `PendingCovers`: `pending_num` is never
less than the number of tasks in the two lists, so that a worker that wakes up and
leaves tasks behind has seen `1 < pending_num` and passed the signal on. `Moved` and
`QueueDependents` are recursive functions on a range of numbers; their equations
are derived by well-founded induction (`MoveSolvable`, `DependSolvable`).

Checked by TLC only, and why:
- liveness under fairness (`HistoryDelivered`, `Drains`, `LastSync`, `EveryValueLeaves`,
  `StopEnds`, `Recovers`): out of the prover's reach;
- the refinements `KeepsFifo` and `KeepsOrder`: what is pending is a selection
  from a sequence, which is defined by recursion over data;
- `FailoverInTime`: a bound on progress. It needs no fairness, since time moves on
  only when everybody has had his turn, but an invariant for it would have to
  follow a standby manager through every way a check may fail;
- `AcceptedOnce` and `OnlyDuplicatesDiscarded` outside disk mode. In hybrid mode
  `HistoryNoLoss` is violated (`hybrid_loss`), so that no invariant like `DiskInv`
  holds there; `BufferNoLoss` in disk mode holds for history only.

## 6. Not modelled

The components listed as `not_modelled` in `PROJECT.json`, with the reason for
each. Front end, templates, database schema and upgrade scripts, item checks
(`zbxsysinfo`, `zbxvmware`, ...), vendored code and generated code hold no
protocol and stay out.
