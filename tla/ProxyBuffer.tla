---------------------------- MODULE ProxyBuffer ----------------------------
(***************************************************************************)
(* The Zabbix proxy's data buffer (src/libs/zbxproxybuffer): the processes *)
(* that write history, discovery and autoregistration rows into it, the    *)
(* process that uploads the rows to the server, the housekeeper, and what  *)
(* the server keeps of the upload session.                                 *)
(*                                                                         *)
(* A row carries the id the proxy gave it and the number of the value it   *)
(* stands for.  Every critical section under the buffer's mutex and every  *)
(* database statement or transaction is one step; what runs between two of *)
(* them interleaves with everything else.                                  *)
(***************************************************************************)
EXTENDS Integers, FiniteSets, SequencesExt

CONSTANTS
    Writers,        \* processes that write rows (history syncers, trappers, ...)
    WriterTable,    \* the table each of them writes
    TableOrder,     \* the tables in use, in the order the uploader reads them
    Mode,           \* ProxyBufferMode: "disk", "memory" or "hybrid"
    MemSize,        \* rows the memory buffer holds (rows have equal size)
    MaxRecords,     \* ZBX_MAX_HRECORDS, the rows of one database fetch
    MaxBatch,       \* bound: rows written through one handle
    MaxWritten,     \* bound: values written to one table
    MaxHandles,     \* bound: handles opened between two starts
    MaxRestarts,    \* bound: crashes and shutdowns
    MayAge,         \* may the oldest row exceed ProxyMemoryBufferAge?
    MayExpire,      \* may rows exceed ProxyOfflineBuffer?
    Passive         \* is the proxy passive (polled by the server)?

TableNames == {"history", "discovery", "autoreg"}
Tables == ToSet(TableOrder)

ASSUME BufferAssumption ==
    /\ TableOrder \in Seq(TableNames) /\ "history" \in Tables
    /\ \A i, j \in DOMAIN TableOrder : TableOrder[i] = TableOrder[j] => i = j
    /\ IsFiniteSet(Writers) /\ WriterTable \in [Writers -> Tables]
    /\ Mode \in {"disk", "memory", "hybrid"}
    /\ MemSize \in Nat \ {0} /\ MaxRecords \in Nat \ {0} /\ MaxBatch \in Nat
    /\ MaxWritten \in Nat /\ MaxHandles \in Nat /\ MaxRestarts \in Nat
    /\ {MayAge, MayExpire, Passive} \subseteq BOOLEAN
    /\ MayAge => Mode = "hybrid"       \* enforced when the configuration is read

VARIABLES
    \* zbx_pb_t, in shared memory
    mode, state, mem, lastid_sent, lastid_db, db_handles_num, handleid,
    history_handleids,
    \* the two shared caches of row ids
    dc_ids, idcache,
    \* the database: the rows of each table and the last uploaded ids
    db, ids,
    \* processes: writers and their handles, the uploader, the server session
    wr, up, server,
    \* history variables and bounds
    stopping, written, dropped, restarts

pbVars   == <<mode, state, mem, lastid_sent, lastid_db, db_handles_num,
              handleid, history_handleids>>
idVars   == <<dc_ids, idcache>>
dbVars   == <<db, ids>>
histVars == <<stopping, written, dropped, restarts>>
vars     == <<pbVars, idVars, dbVars, wr, up, server, histVars>>

Row == [id : Nat, val : Nat, handle : Nat]

Ids(S)  == {r.id : r \in S}
Vals(S) == {r.val : r \in S}

\* mutant: the NULL of an empty table is taken for -1
MaxIdOfNull(S) == IF S = {} THEN -1 ELSE Max(Ids(S))

\* select max(id), 0 for an empty table
MaxId(S) == Max({0} \cup Ids(S))

----------------------------------------------------------------------------
(* The buffer's states, its memory and the flush to the database. *)

States == {"database", "database_memory", "memory", "memory_database"}

\* where new rows go, and where the uploader takes rows from
Dst(s) == IF s \in {"database_memory", "memory"} THEN "memory" ELSE "database"
Src(s) == IF s \in {"memory", "memory_database"} THEN "memory" ELSE "database"

Used(m) == Cardinality(UNION {{t} \X DOMAIN m[t] : t \in Tables})

\* pb_free_space: the buffer discards the row with the oldest clock of the
\* three lists (clocks are not modelled: any list's head), a discovery row
\* together with the rows of its handle that follow
DiscardHead(m, t) ==
    LET other == {i \in DOMAIN m[t] : m[t][i].handle # Head(m[t]).handle}
        next == IF t = "discovery" THEN Min(other \cup {Len(m[t]) + 1}) ELSE 2
    IN  [m EXCEPT ![t] = SubSeq(@, next, Len(@))]

FreeSpace(m) == {DiscardHead(m, t) : t \in {u \in Tables : m[u] # <<>>}}

\* adding rows in memory mode: the possible contents of the buffer
AddDiscarding(m, t, rows) ==
    LET room(x) == IF Used(x) < MemSize THEN {x} ELSE FreeSpace(x)
        added[n \in 0..Len(rows)] ==
            IF n = 0 THEN {m}
            ELSE UNION {{[y EXCEPT ![t] = Append(@, rows[n])] : y \in room(x)} : x \in added[n - 1]}
    IN  added[Len(rows)]

\* how many of n rows fit, in the other modes
Fitting(m, n) == Min({n, MemSize - Used(m)})

MemRows(m) == [t \in Tables |-> ToSet(m[t])]
HasMemRows(m) == \E t \in Tables : m[t] # <<>>
NoRows == [t \in Tables |-> <<>>]

\* an insert of rows whose ids are taken fails, and with it its transaction
Conflict(dbv, rows) == \E t \in Tables : Ids(dbv[t]) \cap Ids(rows[t]) # {}

Inserted(dbv, rows) ==
    IF Conflict(dbv, rows) THEN dbv ELSE [t \in Tables |-> dbv[t] \cup rows[t]]

\* pb_flush_lastids
FlushedLastids(idsv) ==
    [t \in Tables |-> IF lastid_sent[t] # 0 THEN lastid_sent[t] ELSE idsv[t]]

\* pb_flush of the memory contents m: one transaction, lost as a whole if an
\* insert fails; the lists are cleared in either case
FlushDb(m)  == IF mode = "memory" THEN db ELSE Inserted(db, MemRows(m))
FlushIds(m) == IF mode = "memory" \/ ~HasMemRows(m) \/ Conflict(db, MemRows(m))
               THEN ids ELSE FlushedLastids(ids)
FlushLastidDb(m) ==
    [t \in Tables |-> IF mode = "memory" THEN lastid_db[t]
                      ELSE Max({lastid_db[t], MaxId(ToSet(m[t]))})]

\* The uploader holds the locks of the ids rows it has updated until it
\* commits; a flush that updates the same rows waits for it.
NoIdsLocks == \A t \in Tables : up.unsaved[t] = 0

\* pd_fallback_to_database, the memory contents being m
Fallback(m) ==
    /\ NoIdsLocks
    /\ db' = FlushDb(m)
    /\ ids' = FlushIds(m)
    /\ lastid_db' = FlushLastidDb(m)
    /\ mem' = NoRows
    /\ state' = "database"

----------------------------------------------------------------------------
(* Row ids. *)

\* zbx_dc_get_nextid: -1 until the first use, then the last id given out
DcLast(t) == IF dc_ids[t] = -1 THEN MaxId(db[t]) ELSE dc_ids[t]

\* dbconn_get_cached_nextid: initialised from the table while it is 0
CachedLast(t) == IF idcache[t] = 0 THEN MaxId(db[t]) ELSE idcache[t]

\* n new rows of table t, with the ids that follow last
NewRows(t, last, n, h) ==
    [k \in 1..n |-> [id |-> last + k, val |-> written[t] + k, handle |-> h]]

TakeDcIds(t, n) ==
    /\ written[t] + n <= MaxWritten
    /\ dc_ids' = [dc_ids EXCEPT ![t] = DcLast(t) + n]
    /\ written' = [written EXCEPT ![t] = @ + n]

TakeCachedIds(t, n) ==
    /\ written[t] + n <= MaxWritten
    /\ idcache' = IF n = 0 THEN idcache
                  ELSE [idcache EXCEPT ![t] = CachedLast(t) + n]
    /\ written' = [written EXCEPT ![t] = @ + n]

----------------------------------------------------------------------------
(* Writers. *)

Closed == [pc |-> "idle", dst |-> "database", handle |-> 0, rows |-> <<>>]

\* the history handles are registered so that the uploader can wait for them
Deregister(w) == history_handleids \ {wr[w].handle}

\* zbx_pb_history_open, zbx_pb_discovery_open
Open(w) ==
    /\ wr[w].pc = "idle"
    /\ WriterTable[w] # "autoreg"
    /\ handleid < MaxHandles
    /\ handleid' = handleid + 1
    /\ history_handleids' = IF WriterTable[w] = "history"
                            THEN history_handleids \cup {handleid + 1}
                            ELSE history_handleids
    /\ db_handles_num' = IF Dst(state) = "database" THEN db_handles_num + 1
                         ELSE db_handles_num
    /\ wr' = [wr EXCEPT ![w] = [pc |-> "open", dst |-> Dst(state),
                                handle |-> handleid + 1, rows |-> <<>>]]
    /\ UNCHANGED <<mode, state, mem, lastid_sent, lastid_db, idVars, dbVars,
                   up, server, histVars>>

\* closing a memory handle through which nothing was written
CloseEmpty(w) ==
    /\ wr[w].pc = "open" /\ wr[w].dst = "memory"
    /\ history_handleids' = Deregister(w)
    /\ wr' = [wr EXCEPT ![w] = Closed]
    /\ UNCHANGED <<mode, state, mem, lastid_sent, lastid_db, db_handles_num,
                   handleid, idVars, dbVars, up, server, histVars>>

\* the handle is done: all its rows are in memory
Done(w) ==
    /\ history_handleids' = Deregister(w)
    /\ wr' = [wr EXCEPT ![w] = Closed]
    /\ UNCHANGED db_handles_num

\* mutant: the handle is not counted
ToDatabaseUncounted(w, pc, rows) ==
    /\ wr' = [wr EXCEPT ![w].pc = pc, ![w].rows = rows]
    /\ UNCHANGED <<db_handles_num, history_handleids>>

\* the handle goes on outside the mutex, to write rows to the database; pc is
\* "insert" when they have ids and "alloc" when they do not
ToDatabase(w, pc, rows) ==
    /\ wr' = [wr EXCEPT ![w].pc = pc, ![w].rows = rows]
    /\ db_handles_num' = db_handles_num + 1
    /\ UNCHANGED history_handleids

\* *_check_age: rows older than the offline buffer are dropped from the head of
\* the list, then the oldest row left is compared with the maximum age
Unexpired(t) ==
    {[mem EXCEPT ![t] = SubSeq(@, k + 1, Len(@))] :
        k \in 0..(IF MayExpire /\ state = "memory" THEN Len(mem[t]) ELSE 0)}

TooOld(m, t) == MayAge /\ state = "memory" /\ m[t] # <<>>

Lost(m, t, new) == Vals(ToSet(mem[t]) \cup new) \ Vals(ToSet(m[t]))
Discarded(m, t, new) ==
    [u \in Tables |-> dropped[u] \cup Lost(m, u, IF u = t THEN new ELSE {})]

\* Rows of a memory handle (or an autoregistration row) meet a buffer whose
\* oldest row is too old: everything goes to the database.
StoreTooOld(w, t, m, pc, rows) ==
    /\ TooOld(m, t)
    /\ Fallback(m)
    /\ ToDatabase(w, pc, rows)
    /\ dropped' = Discarded(m, t, {})

\* All rows fit, or older rows are discarded to make them fit.
StoreInMemory(w, t, m, rows) ==
    /\ Dst(state) = "memory"
    /\ IF mode = "memory"
       THEN mem' \in AddDiscarding(m, t, rows)
       ELSE Fitting(m, Len(rows)) = Len(rows) /\ mem' = [m EXCEPT ![t] = @ \o rows]
    /\ dropped' = Discarded(mem', t, ToSet(rows))
    /\ Done(w)
    /\ UNCHANGED <<state, lastid_db, dbVars>>

\* Some rows do not fit.  In transition to memory the transition is given up,
\* in memory state the transition to database begins; the rest of the rows go
\* to the database.
StoreOverflow(w, t, m, pc, rows) ==
    LET fit == Fitting(m, Len(rows))
        filled == [m EXCEPT ![t] = @ \o SubSeq(rows, 1, fit)]
        rest == SubSeq(rows, fit + 1, Len(rows))
    IN  /\ Dst(state) = "memory" /\ mode # "memory" /\ fit < Len(rows)
        /\ \/ state = "database_memory" /\ Fallback(filled)
           \/ /\ state = "memory"
              /\ mem' = filled
              /\ state' = "memory_database"
              /\ UNCHANGED <<lastid_db, dbVars>>
        /\ ToDatabase(w, pc, IF pc = "insert" THEN rest ELSE <<>>)
        /\ dropped' = Discarded(m, t, {})

\* The buffer stopped using memory since the handle was opened.
StoreInDatabase(w, pc, rows) ==
    /\ Dst(state) = "database"
    /\ ToDatabase(w, pc, rows)
    /\ UNCHANGED <<state, mem, lastid_db, dbVars, dropped>>

\* zbx_pb_history_close and zbx_pb_discovery_close of a memory handle with rows
CloseMemory(w, n) ==
    LET t == WriterTable[w]
        rows == NewRows(t, DcLast(t), n, wr[w].handle)
    IN  /\ wr[w].pc = "open" /\ wr[w].dst = "memory"
        /\ TakeDcIds(t, n)
        /\ \E m \in Unexpired(t) :
              \/ StoreTooOld(w, t, m, "insert", rows)
              \/ StoreInMemory(w, t, m, rows)
              \/ StoreOverflow(w, t, m, "insert", rows)
              \/ StoreInDatabase(w, "insert", rows)
        /\ UNCHANGED <<mode, lastid_sent, handleid, idcache, up, server,
                       stopping, restarts>>

\* zbx_pb_autoreg_write_host, up to the end of its first critical section: the
\* id is taken only when the row was stored in memory
WriteHost(w) ==
    LET t == WriterTable[w]
        rows == NewRows(t, DcLast(t), 1, 0)
    IN  /\ t = "autoreg" /\ wr[w].pc = "idle"
        /\ written[t] < MaxWritten
        /\ \E m \in Unexpired(t) :
              \/ StoreInMemory(w, t, m, rows) /\ TakeDcIds(t, 1)
              \/ /\ \/ StoreTooOld(w, t, m, "alloc", <<>>)
                    \/ StoreOverflow(w, t, m, "alloc", rows)
                    \/ StoreInDatabase(w, "alloc", <<>>)
                 /\ UNCHANGED <<dc_ids, written>>
        /\ UNCHANGED <<mode, lastid_sent, handleid, idcache, up, server,
                       stopping, restarts>>

\* The row ids of a database handle are taken when its insert is executed,
\* outside the mutex; so is the id of an autoregistration row.
AllocIds(w, n) ==
    LET t == WriterTable[w]
    IN  /\ \/ wr[w].pc = "open" /\ wr[w].dst = "database"
           \/ wr[w].pc = "alloc" /\ n = 1
        /\ TakeCachedIds(t, n)
        /\ wr' = [wr EXCEPT ![w].pc = "insert",
                      ![w].rows = NewRows(t, CachedLast(t), n, wr[w].handle)]
        /\ UNCHANGED <<pbVars, dc_ids, dbVars, up, server, stopping, dropped,
                       restarts>>

\* zbx_db_commit of the insert (retried while the database is down)
Commit(w) ==
    LET rows == [t \in Tables |-> IF t = WriterTable[w] THEN ToSet(wr[w].rows) ELSE {}]
    IN  /\ wr[w].pc = "insert"
        /\ db' = Inserted(db, rows)
        /\ wr' = [wr EXCEPT ![w].pc = "committed"]
        /\ UNCHANGED <<pbVars, idVars, ids, up, server, histVars>>

\* the last critical section of a handle that wrote to the database
Finish(w) ==
    LET t == WriterTable[w]
        lastid == MaxId(ToSet(wr[w].rows))
    IN  /\ wr[w].pc = "committed"
        /\ lastid_db' = [lastid_db EXCEPT ![t] = IF @ < lastid THEN lastid ELSE @]
        /\ db_handles_num' = db_handles_num - 1
        /\ history_handleids' = Deregister(w)
        /\ wr' = [wr EXCEPT ![w] = Closed]
        /\ UNCHANGED <<mode, state, mem, lastid_sent, handleid, idVars, dbVars,
                       up, server, histVars>>

----------------------------------------------------------------------------
(* The uploader: the data sender of an active proxy, the trapper that       *)
(* answers the server's request on a passive one (one at a time).           *)

Uploader(pc, pos) ==
    [pc |-> pc, pos |-> pos, cur |-> 0, gapid |-> 0, waitid |-> 0,
     rows |-> {}, pkt |-> [t \in Tables |-> {}], more |-> FALSE,
     full |-> FALSE, unsaved |-> [t \in Tables |-> 0]]

Reading(pc, t) ==
    up.pc = pc /\ up.pos \in DOMAIN TableOrder /\ TableOrder[up.pos] = t

\* The packet has taken rows of table t, the next table is read.  full is
\* whether the packet has reached ZBX_DATA_JSON_BATCH_LIMIT.
NextTable(t, rows, more, full) ==
    up' = [up EXCEPT !.pc = "read", !.pos = @ + 1, !.rows = {}, !.cur = 0,
                     !.gapid = 0, !.pkt[t] = @ \cup rows,
                     !.more = @ \/ more, !.full = full]

UploadStart ==
    /\ up.pc = "idle"
    /\ up' = Uploader("read", 1)
    /\ UNCHANGED <<pbVars, idVars, dbVars, wr, server, histVars>>

\* *_get_mem.  History goes out in chunks of MaxRecords rows; it says that
\* there is more only when a whole chunk was taken and the packet is full.
ReadMemory(t, k, full) ==
    LET n == Len(mem[t])
        chunk == Min({MaxRecords, n - MaxRecords * ((k - 1) \div MaxRecords)})
    IN  /\ Reading("read", t)
        /\ Src(state) = "memory"
        /\ k \in 0..n
        /\ k = 0 => n = 0 \/ (t # "history" /\ up.full)
        /\ k < n => full
        /\ up.full => full /\ k = 0
        /\ k = 0 => full = up.full
        /\ NextTable(t, ToSet(SubSeq(mem[t], 1, k)),
                     IF t = "history" THEN k > 0 /\ full /\ chunk = MaxRecords
                     ELSE k < n,
                     full)
        /\ UNCHANGED <<pbVars, idVars, dbVars, wr, server, histVars>>

\* pb_get_lastid and the start of the fetch loop
ReadLastid(t) ==
    /\ Reading("read", t)
    /\ Src(state) = "database"
    /\ ~up.full
    /\ up' = [up EXCEPT !.pc = "select", !.cur = ids[t], !.gapid = 0, !.rows = {}]
    /\ UNCHANGED <<pbVars, idVars, dbVars, wr, server, histVars>>

\* Nothing is fetched when the packet is already full.  'more' keeps the value
\* the caller gave it: the trapper of a passive proxy gave it none.
SkipTable(t, more) ==
    /\ Reading("read", t)
    /\ Src(state) = "database"
    /\ up.full
    /\ more => Passive
    /\ NextTable(t, {}, more, TRUE)
    /\ UNCHANGED <<pbVars, idVars, dbVars, wr, server, histVars>>

\* the first n rows after id cur, in the order of their ids
FirstRows(S, cur, n) ==
    LET rest == {r \in S : r.id > cur}
    IN  {r \in rest : Cardinality({q \in rest : q.id < r.id}) < n}

\* mutant: a gap that was waited for is a gap again
BeforeGapAgain(F, cur, gapid) ==
    {r \in F : \A q \in F : q.id <= r.id => q.id - 1 \in Ids(F) \cup {cur}}

\* the rows taken before the first gap in the ids, other than the one before gapid
BeforeGap(F, cur, gapid) ==
    {r \in F : \A q \in F : q.id <= r.id =>
                   q.id - 1 \in Ids(F) \cup {cur} \/ q.id = gapid}

\* the cursor after taking rows P
Advance(cur, P) == Max({cur} \cup Ids(P))

\* pb_history_get_rows_db stops at a gap it has not seen before...
SelectHistoryGap ==
    LET F == FirstRows(db["history"], up.cur, MaxRecords - Cardinality(up.rows))
        P == BeforeGap(F, up.cur, up.gapid)
    IN  /\ Reading("select", "history")
        /\ P # F
        /\ up' = [up EXCEPT !.pc = "gap", !.rows = @ \cup P,
                            !.cur = Advance(@, P), !.gapid = Min(Ids(F \ P))]
        /\ UNCHANGED <<pbVars, idVars, dbVars, wr, server, histVars>>

\* ... and waits for the handles that were open when it saw the gap.
CollectHandles ==
    /\ up.pc = "gap"
    /\ up' = [up EXCEPT !.pc = "wait", !.waitid = Max({0} \cup history_handleids)]
    /\ UNCHANGED <<pbVars, idVars, dbVars, wr, server, histVars>>

\* mutant: it does not wait
WaitNobody ==
    /\ up.pc = "wait"
    /\ up' = [up EXCEPT !.pc = "select", !.waitid = 0]
    /\ UNCHANGED <<pbVars, idVars, dbVars, wr, server, histVars>>

WaitHandles ==
    /\ up.pc = "wait"
    /\ \A h \in history_handleids : h > up.waitid
    /\ up' = [up EXCEPT !.pc = "select", !.waitid = 0]
    /\ UNCHANGED <<pbVars, idVars, dbVars, wr, server, histVars>>

\* A whole fetch is exported up to the row `last` (pb_history_export stops when
\* the packet is full); pb_history_get_db fetches again after a full fetch.
SelectHistory(last, full) ==
    LET F == FirstRows(db["history"], up.cur, MaxRecords - Cardinality(up.rows))
        R == up.rows \cup F
        E == {r \in R : r.id <= last}
    IN  /\ Reading("select", "history")
        /\ BeforeGap(F, up.cur, up.gapid) = F
        /\ IF R = {} THEN last = 0 /\ ~full ELSE last \in Ids(R)
        /\ E # R => full
        /\ IF Cardinality(R) = MaxRecords /\ ~full
           THEN up' = [up EXCEPT !.cur = last, !.gapid = 0, !.rows = {},
                                 !.pkt["history"] = @ \cup E]
           ELSE NextTable("history", E, Cardinality(R) = MaxRecords, full)
        /\ UNCHANGED <<pbVars, idVars, dbVars, wr, server, histVars>>

\* pb_get_rows_db for discovery and autoregistration: rows are exported as they
\* are fetched; at the first gap (gapid = 0) it waits a moment and fetches
\* again, the next gap is ignored.
SelectOther(t, last, full) ==
    LET F == FirstRows(db[t], up.cur, MaxRecords)
        P == IF up.gapid = 0 THEN BeforeGap(F, up.cur, 0) ELSE F
        E == {r \in P : r.id <= last}
        R == up.rows \cup E
        whole == Cardinality(R) = MaxRecords
    IN  /\ Reading("select", t) /\ t # "history"
        /\ IF P = {} THEN last = 0 ELSE last \in Ids(P)
        /\ E # P => full
        /\ full => E # {}
        /\ IF full THEN NextTable(t, E, TRUE, TRUE)
           ELSE IF P # F
           THEN up' = [up EXCEPT !.rows = R, !.cur = Advance(@, P),
                                 !.gapid = Min(Ids(F \ P)), !.pkt[t] = @ \cup E]
           ELSE IF whole
           THEN up' = [up EXCEPT !.rows = {}, !.cur = last, !.gapid = 0,
                                 !.pkt[t] = @ \cup E]
           ELSE NextTable(t, E, FALSE, FALSE)
        /\ UNCHANGED <<pbVars, idVars, dbVars, wr, server, histVars>>

Packed == up.pc = "read" /\ up.pos = Len(TableOrder) + 1

\* mutant: the value with the session's last id is taken again
FreshOrLast(H) == {r \in H : r.id >= server.last}

\* History values whose id is not above the session's last id are duplicates
\* (process_history_data_by_itemids).
Fresh(H) == {r \in H : r.id > server.last}

\* The server takes the packet.
Deliver ==
    LET H == up.pkt["history"]
        fresh == Fresh(H)
        taken(t) == Vals(IF t = "history" THEN fresh ELSE up.pkt[t])
    IN  /\ Packed
        /\ server' = [last |-> Max({server.last, MaxId(H)}),
                      refused |-> server.refused \cup (Vals(H \ fresh) \ server.session),
                      session |-> server.session \cup Vals(fresh),
                      twice |-> server.twice \cup (Vals(fresh) \cap server.session),
                      accepted |-> [t \in Tables |-> server.accepted[t] \cup taken(t)]]
        /\ up' = [up EXCEPT !.pc = "reply"]
        /\ UNCHANGED <<pbVars, idVars, dbVars, wr, histVars>>

\* the connection failed, before or after the server took the packet; or an
\* active proxy had nothing to send
SendFails ==
    /\ Packed \/ up.pc = "reply"
    /\ up' = Uploader("idle", 1)
    /\ UNCHANGED <<pbVars, idVars, dbVars, wr, server, histVars>>

ReplyReceived ==
    /\ up.pc = "reply"
    /\ up' = [up EXCEPT !.pc = "set", !.pos = 1]
    /\ UNCHANGED <<pbVars, idVars, dbVars, wr, server, histVars>>

\* mutant: the whole list is cleared
ClearedAll(s, lastid) == <<>>

\* pb_*_clear: the list loses its rows up to lastid, from the head
Cleared(s, lastid) ==
    LET keep == {i \in DOMAIN s : s[i].id > lastid}
    IN  IF keep = {} THEN <<>> ELSE SubSeq(s, Min(keep), Len(s))

\* zbx_pb_set_history_lastid and its siblings, inside one transaction
SetLastid(t) ==
    LET lastid == MaxId(up.pkt[t])
        fromDb == up.pkt[t] # {} /\ Src(state) = "database"
    IN  /\ Reading("set", t)
        /\ IF up.pkt[t] = {} THEN UNCHANGED <<lastid_sent, mem>>
           ELSE /\ lastid_sent' = [lastid_sent EXCEPT ![t] = lastid]
                /\ mem' = IF fromDb THEN mem ELSE [mem EXCEPT ![t] = Cleared(@, lastid)]
        /\ up' = [up EXCEPT !.pos = @ + 1,
                            !.unsaved[t] = IF fromDb THEN lastid ELSE @]
        /\ UNCHANGED <<mode, state, lastid_db, db_handles_num, handleid,
                       history_handleids, idVars, dbVars, wr, server, histVars>>

\* zbx_db_commit; its result is not checked, so the update may be lost
CommitLastids(ok) ==
    /\ up.pc = "set" /\ up.pos = Len(TableOrder) + 1
    /\ ids' = [t \in Tables |-> IF ok /\ up.unsaved[t] # 0 THEN up.unsaved[t] ELSE ids[t]]
    /\ up' = [up EXCEPT !.pc = "update", !.unsaved = [t \in Tables |-> 0]]
    /\ UNCHANGED <<pbVars, idVars, db, wr, server, histVars>>

\* the data sender leaves the state alone after a slow connection
SkipUpdate ==
    /\ up.pc = "update" /\ ~Passive
    /\ up' = Uploader("idle", 1)
    /\ UNCHANGED <<pbVars, idVars, dbVars, wr, server, histVars>>

\* mutant: handles that are still writing are not waited for
DrainedRows == \A t \in Tables : lastid_db[t] <= lastid_sent[t]

\* what pb_update_state asks for before it goes back to memory
Drained == db_handles_num = 0 /\ \A t \in Tables : lastid_db[t] <= lastid_sent[t]

\* pb_update_state
NextState ==
    IF mode # "hybrid" THEN state
    ELSE CASE state = "memory" -> state
           [] state = "memory_database" ->
                IF HasMemRows(mem) THEN state ELSE "database"
           [] state = "database" ->
                IF up.more THEN state ELSE "database_memory"
           [] state = "database_memory" ->
                IF Drained THEN "memory" ELSE state

\* ... which saves the last ids sent, in a transaction whose result it ignores
UpdateState ==
    /\ up.pc = "update"
    /\ state' = NextState
    /\ \/ UNCHANGED ids
       \/ /\ state = "memory_database" /\ NextState = "database"
          /\ ids' = FlushedLastids(ids)
    /\ up' = Uploader("idle", 1)
    /\ UNCHANGED <<mode, mem, lastid_sent, lastid_db, db_handles_num, handleid,
                   history_handleids, idVars, db, wr, server, histVars>>

----------------------------------------------------------------------------
(* Housekeeper, shutdown, crash and start. *)

\* delete_history: uploaded rows and rows older than the offline buffer, but
\* never the row with the largest id
Housekeep(t) ==
    LET old == {r \in db[t] : r.id < MaxId(db[t])}
        sent == {r \in old : r.id <= ids[t]}
    IN  /\ ids[t] # 0
        /\ \E expired \in IF MayExpire THEN SUBSET (old \ sent) ELSE {{}} :
              /\ sent \cup expired # {}
              /\ db' = [db EXCEPT ![t] = @ \ (sent \cup expired)]
              /\ dropped' = [dropped EXCEPT ![t] = @ \cup Vals(expired)]
        /\ UNCHANGED <<pbVars, idVars, ids, wr, up, server, stopping, written,
                       restarts>>

\* mutant: the larger of the two ids is kept
StartedIdsRaised(dbv, idsv) ==
    [t \in Tables |-> IF Mode = "memory" THEN idsv[t] ELSE Max({idsv[t], MaxId(dbv[t])})]

\* pb_init_state on a database with rows dbv and last uploaded ids idsv
StartedIds(dbv, idsv) ==
    IF Mode = "memory" THEN idsv
    ELSE [t \in Tables |-> Min({idsv[t], MaxId(dbv[t])})]

StartedState(dbv, idsv) ==
    IF \/ Mode = "disk"
       \/ Mode = "hybrid" /\ \E t \in Tables : idsv[t] < MaxId(dbv[t])
    THEN "database" ELSE "memory"

\* the proxy starts with new shared memory and a new session; discovery and
\* autoregistration ids are not restored
Start(dbv, idsv) ==
    LET history(f) == [t \in Tables |-> IF t = "history" /\ Mode # "memory" THEN f[t] ELSE 0]
    IN  /\ mode' = Mode
        /\ state' = StartedState(dbv, idsv)
        /\ mem' = NoRows
        /\ lastid_db' = history([t \in Tables |-> MaxId(dbv[t])])
        /\ lastid_sent' = history(StartedIds(dbv, idsv))
        /\ db_handles_num' = 0 /\ handleid' = 0 /\ history_handleids' = {}
        /\ dc_ids' = [t \in Tables |-> -1]
        /\ idcache' = [t \in Tables |-> 0]
        /\ db' = dbv
        /\ ids' = StartedIds(dbv, idsv)
        /\ wr' = [w \in Writers |-> Closed]
        /\ up' = Uploader("idle", 1)
        /\ server' = [server EXCEPT !.last = 0, !.session = {}]
        /\ stopping' = FALSE
        /\ restarts' = restarts + 1
        /\ UNCHANGED written

InFlight(t) == UNION {Vals(ToSet(wr[w].rows)) : w \in {v \in Writers :
                          wr[v].pc = "insert" /\ WriterTable[v] = t}}
InMemory(t) == Vals(ToSet(mem[t]))

\* a crash loses the memory buffer and what was not committed
Crash ==
    /\ restarts < MaxRestarts
    /\ Start(db, ids)
    /\ dropped' = [t \in Tables |-> dropped[t] \cup InMemory(t) \cup InFlight(t)]

\* zbx_on_exit: zbx_pb_disable while the other processes still run ...
Disable ==
    /\ restarts < MaxRestarts /\ ~stopping
    /\ stopping' = TRUE
    /\ mode' = IF mode = "hybrid" THEN "disk" ELSE mode
    /\ state' = IF mode = "hybrid" THEN "database" ELSE state
    /\ UNCHANGED <<mem, lastid_sent, lastid_db, db_handles_num, handleid,
                   history_handleids, idVars, dbVars, wr, up, server, written,
                   dropped, restarts>>

\* ... then, when they have ended, zbx_pb_flush; the proxy starts again
Stop ==
    /\ stopping /\ up.pc = "idle" /\ \A w \in Writers : wr[w].pc = "idle"
    /\ Start(FlushDb(mem), FlushIds(mem))
    /\ dropped' = IF mode = "memory"
                  THEN [t \in Tables |-> dropped[t] \cup InMemory(t)] ELSE dropped

----------------------------------------------------------------------------
Init ==
    /\ mode = Mode
    /\ state = IF Mode = "disk" THEN "database" ELSE "memory"
    /\ mem = NoRows
    /\ lastid_sent = [t \in Tables |-> 0] /\ lastid_db = [t \in Tables |-> 0]
    /\ db_handles_num = 0 /\ handleid = 0 /\ history_handleids = {}
    /\ dc_ids = [t \in Tables |-> -1] /\ idcache = [t \in Tables |-> 0]
    /\ db = [t \in Tables |-> {}] /\ ids = [t \in Tables |-> 0]
    /\ wr = [w \in Writers |-> Closed]
    /\ up = Uploader("idle", 1)
    /\ server = [last |-> 0, refused |-> {}, session |-> {}, twice |-> {},
                 accepted |-> [t \in Tables |-> {}]]
    /\ stopping = FALSE
    /\ written = [t \in Tables |-> 0] /\ dropped = [t \in Tables |-> {}]
    /\ restarts = 0

Write(w) ==
    \/ Open(w) \/ CloseEmpty(w) \/ WriteHost(w) \/ Commit(w) \/ Finish(w)
    \/ \E n \in 1..MaxBatch : CloseMemory(w, n)
    \/ \E n \in 0..MaxBatch : AllocIds(w, n)

RowIds(S) == {0} \cup Ids(S)

Read ==
    \/ UploadStart \/ SelectHistoryGap \/ CollectHandles \/ WaitHandles
    \/ \E t \in Tables : ReadLastid(t)
    \/ \E t \in Tables, more \in BOOLEAN : SkipTable(t, more)
    \/ \E t \in Tables, full \in BOOLEAN : \E k \in 0..Len(mem[t]) : ReadMemory(t, k, full)
    \/ \E full \in BOOLEAN : \E last \in RowIds(up.rows \cup db["history"]) :
          SelectHistory(last, full)
    \/ \E t \in Tables, full \in BOOLEAN : \E last \in RowIds(db[t]) :
          SelectOther(t, last, full)

Acknowledge ==
    \/ ReplyReceived \/ SkipUpdate \/ UpdateState
    \/ \E t \in Tables : SetLastid(t)
    \/ \E ok \in BOOLEAN : CommitLastids(ok)

Next ==
    \/ \E w \in Writers : Write(w)
    \/ Read \/ Deliver \/ SendFails \/ Acknowledge
    \/ \E t \in Tables : Housekeep(t)
    \/ Crash \/ Disable \/ Stop

Spec == Init /\ [][Next]_vars

\* Open handles are closed, the uploader runs, and a network and a database
\* that work again and again let it through.
Close(w) ==
    \/ CloseEmpty(w) \/ Commit(w) \/ Finish(w)
    \/ \E n \in 1..MaxBatch : CloseMemory(w, n)
    \/ \E n \in 0..MaxBatch : AllocIds(w, n)

Fairness ==
    /\ \A w \in Writers : WF_vars(Close(w))
    /\ WF_vars(Read) /\ WF_vars(Acknowledge)
    /\ SF_vars(Deliver) /\ SF_vars(ReplyReceived) /\ SF_vars(CommitLastids(TRUE))

LiveSpec == Spec /\ Fairness

----------------------------------------------------------------------------
(* Properties. *)

\* the states of a writer whose rows are in R, of the uploader, of the server
WriterStates(R) ==
    [pc : {"idle", "open", "alloc", "insert", "committed"},
     dst : {"database", "memory"}, handle : Nat, rows : R]

UploaderStates ==
    [pc : {"idle", "read", "select", "gap", "wait", "reply", "set", "update"},
     pos : 1..(Len(TableOrder) + 1), cur : Nat, gapid : Nat, waitid : Nat,
     rows : SUBSET Row, pkt : [Tables -> SUBSET Row], more : BOOLEAN,
     full : BOOLEAN, unsaved : [Tables -> Nat]]

ServerStates ==
    [last : Nat, refused : SUBSET Nat, session : SUBSET Nat,
     twice : SUBSET Nat, accepted : [Tables -> SUBSET Nat]]

\* Every variable has its type; in particular the counters of handles and ids
\* never fall below zero.
TypeOK ==
    /\ mode \in {"disk", "memory", "hybrid"} /\ state \in States
    /\ mem \in [Tables -> Seq(Row)]
    /\ lastid_sent \in [Tables -> Nat] /\ lastid_db \in [Tables -> Nat]
    /\ db_handles_num \in Nat /\ handleid \in Nat
    /\ history_handleids \in SUBSET (1..handleid)
    /\ dc_ids \in [Tables -> Nat \cup {-1}] /\ idcache \in [Tables -> Nat]
    /\ db \in [Tables -> SUBSET Row] /\ ids \in [Tables -> Nat]
    /\ wr \in [Writers -> WriterStates(Seq(Row))]
    /\ up \in UploaderStates
    /\ server \in ServerStates
    /\ stopping \in BOOLEAN /\ restarts \in Nat
    /\ written \in [Tables -> Nat] /\ dropped \in [Tables -> SUBSET Nat]

\* the values in database rows the uploader has still to read
InDatabase(t) == Vals({r \in db[t] : r.id > ids[t]})

Kept(t) == UNION {server.accepted[t], dropped[t], InFlight(t), InMemory(t), InDatabase(t)}

NoLoss(t) == 1..written[t] \subseteq Kept(t)

\* Every history value written to the buffer has been accepted by the server,
\* was discarded by a documented rule (age, memory mode, crash), or will still
\* be uploaded: it is being inserted, is in memory, or is in a row above the
\* last uploaded id.
HistoryNoLoss == NoLoss("history")

\* The same for the rows of all tables.
BufferNoLoss == \A t \in Tables : NoLoss(t)

\* The server discards as duplicates only values it already has: within one
\* session the ids of values it has not seen are always above the ones it has.
OnlyDuplicatesDiscarded == server.refused = {}

\* Whatever is sent again after a lost reply, no history value is stored twice
\* in one session.
AcceptedOnce == server.twice = {}

\* db_handles_num counts the handles that are going to write to the database.
WritesDatabase(w) ==
    \/ wr[w].pc = "open" /\ wr[w].dst = "database"
    \/ wr[w].pc \in {"alloc", "insert", "committed"}

HandlesCounted == db_handles_num = Cardinality({w \in Writers : WritesDatabase(w)})

\* The switch to memory state leaves no row behind in the database: no handle
\* is writing there, and every row is at or below the last id sent.  After a
\* restart this is so for history, whose ids alone are restored.
DrainedSwitch ==
    [][state = "database_memory" /\ state' = "memory" /\ restarts' = restarts =>
          /\ \A w \in Writers : ~WritesDatabase(w)
          /\ \A t \in Tables : t = "history" \/ restarts = 0 =>
                \A r \in db[t] : r.id <= lastid_sent[t]]_vars

\* A history value that has reached the database is uploaded in the end,
\* whatever handles are opened meanwhile and however often sending fails.
HistoryDelivered ==
    \A v \in 1..MaxWritten :
        v \in InDatabase("history") ~>
            v \in server.accepted["history"] \cup dropped["history"]
=============================================================================
