-------------------------- MODULE ProxyBufferDisk --------------------------
(***************************************************************************)
(* Disk mode: what holds between the history rows, the writers that are    *)
(* inserting rows, the uploader and the server's session, and the proofs   *)
(* that no history value is skipped, none is taken for a duplicate and     *)
(* none is stored twice.                                                   *)
(***************************************************************************)
EXTENDS ProxyBufferProofs

\* the history rows a writer is inserting
Inserting(w) ==
    IF wr[w].pc = "insert" /\ WriterTable[w] = "history" THEN ToSet(wr[w].rows) ELSE {}

\* the uploader is fetching history rows
AtHistory == up.pc \in {"select", "gap", "wait"} /\ TableOrder[up.pos] = "history"

HRows == db["history"]
HSent == ids["history"]
HPkt  == up.pkt["history"]
HLast == CachedLast("history")

\* nothing is ever in memory, and all sets of rows are finite
DiskShape ==
    /\ Mode = "disk" /\ mode = "disk" /\ state = "database" /\ mem = NoRows
    /\ \A w \in Writers : wr[w].dst = "database"
    /\ \A t \in Tables : IsFiniteSet(db[t]) /\ IsFiniteSet(up.pkt[t])
    /\ IsFiniteSet(up.rows)

\* The rows and the writers.  Ids are given out once, what is being inserted is
\* ahead of what was acknowledged and of what the server has seen, and the
\* server has seen all that its session's last id says it has.
RowsInv ==
    /\ \A x \in HRows : x.id <= HLast
    /\ HSent <= HLast /\ server.last <= HLast
    /\ \A x \in HRows : HSent < x.id /\ x.id <= server.last => x.val \in server.session
    /\ server.session \subseteq server.accepted["history"]
    /\ \A w \in Writers : \A r \in Inserting(w) :
          /\ r.id <= idcache["history"] /\ r.id > HSent /\ r.id > server.last
          /\ \A x \in HRows : x.id # r.id
          /\ \A v \in Writers \ {w} : \A q \in Inserting(v) : q.id # r.id

\* The packet.  It has every row that is not acknowledged up to its last one,
\* nothing can appear before that one any more, and once the server has it the
\* server has all its values.
PacketInv ==
    /\ \A q \in HPkt :
          /\ q.id <= HLast
          /\ up.pc # "update" => HSent < q.id
          /\ \A x \in HRows : HSent < x.id /\ x.id <= q.id => x \in HPkt
          /\ \A w \in Writers : \A r \in Inserting(w) : q.id < r.id
          /\ q.id <= server.last \/ up.pc \in {"reply", "set", "update"} => q.val \in server.session
    /\ up.unsaved["history"] # 0 =>
          up.pc = "set" /\ \E q \in HPkt : q.id = up.unsaved["history"]

\* The rows being fetched: the same up to the cursor.  Writers that are
\* inserting ids before the gap are waited for, and have ended afterwards.
FetchInv ==
    AtHistory =>
        /\ HSent <= up.cur /\ up.cur <= HLast /\ up.gapid <= HLast
        /\ \A x \in HRows : HSent < x.id /\ x.id <= up.cur => x \in HPkt \cup up.rows
        /\ \A q \in up.rows : /\ HSent < q.id /\ q.id <= up.cur
                              /\ q.id <= server.last => q.val \in server.session
        /\ \A w \in Writers : \A r \in Inserting(w) :
              /\ up.cur < r.id
              /\ up.pc = "select" => up.gapid <= r.id
              /\ up.pc = "wait" /\ r.id < up.gapid => wr[w].handle <= up.waitid

\* Every open history handle is registered under a number of its own.
Registered ==
    /\ \A w \in Writers : /\ wr[w].pc = "idle" => wr[w].handle = 0
                          /\ wr[w].handle <= handleid
    /\ \A w \in Writers : WriterTable[w] = "history" /\ wr[w].pc # "idle" =>
          /\ wr[w].handle \in history_handleids
          /\ wr[w].handle # 0
          /\ \A v \in Writers \ {w} : wr[v].handle # wr[w].handle

DiskType == TypeOK /\ DiskShape

DiskInv ==
    /\ DiskType /\ RowsInv /\ PacketInv /\ FetchInv /\ Registered
    /\ HistoryNoLoss /\ OnlyDuplicatesDiscarded

----------------------------------------------------------------------------
(* Types. *)

\* Nothing is read from memory or stored there in disk mode.
LEMMA DiskUses ==
    ASSUME DiskShape
    PROVE  Src(state) = "database" /\ Dst(state) = "database"
BY DEF DiskShape, Src, Dst

\* What disk mode knows includes the types the lemmas on fetching need.
LEMMA DiskTyped ==
    ASSUME DiskType
    PROVE  UpTyped /\ DbTyped
BY DEF DiskType, DiskShape, TypeOK, UpTyped, DbTyped

\* The types of what the invariants speak of.
LEMMA HistoryTypes ==
    ASSUME DiskType
    PROVE  /\ HRows \in SUBSET Row /\ IsFiniteSet(HRows) /\ HSent \in Nat /\ HLast \in Nat
           /\ HPkt \in SUBSET Row /\ IsFiniteSet(HPkt)
           /\ up.rows \in SUBSET Row /\ up.cur \in Nat /\ up.gapid \in Nat
           /\ server.last \in Nat /\ idcache["history"] \in Nat
           /\ \A w \in Writers : Inserting(w) \in SUBSET Row
           /\ \A r \in Row : r.id \in Nat
<1>1. TypeOK /\ DiskShape  BY DEF DiskType
<1>2. HRows \in SUBSET Row /\ IsFiniteSet(HRows)
  BY <1>1, HistoryTable DEF HRows, TypeOK, DiskShape
<1>3. HSent \in Nat  BY <1>1, HistoryTable DEF HSent, TypeOK
<1>4. idcache["history"] \in Nat  BY <1>1, HistoryTable DEF TypeOK
<1>5. HLast \in Nat
  <2>1. MaxId(HRows) \in Nat  BY <1>2, MaxIdFacts
  <2> QED  BY <1>4, <2>1 DEF HLast, CachedLast, HRows
<1>6. HPkt \in SUBSET Row /\ IsFiniteSet(HPkt)
  BY <1>1, HistoryTable DEF HPkt, TypeOK, DiskShape, UploaderStates
<1>7. up.rows \in SUBSET Row /\ up.cur \in Nat /\ up.gapid \in Nat
  BY <1>1 DEF TypeOK, UploaderStates
<1>8. server.last \in Nat  BY <1>1 DEF TypeOK, ServerStates
<1>9. ASSUME NEW w \in Writers PROVE Inserting(w) \in SUBSET Row
  <2>1. wr[w].rows \in Seq(Row)  BY <1>1, <1>9 DEF TypeOK, WriterStates
  <2>2. ToSet(wr[w].rows) \in SUBSET Row  BY <2>1, ToSetFacts
  <2> QED  BY <2>2 DEF Inserting
<1>10. \A r \in Row : r.id \in Nat  BY DEF Row
<1> QED  BY <1>2, <1>3, <1>4, <1>5, <1>6, <1>7, <1>8, <1>9, <1>10

\* A step of the uploader that changes nothing but itself, and the ids sent.
LEMMA UpStep ==
    ASSUME DiskInv,
           UNCHANGED <<mode, state, mem, lastid_db, db_handles_num, handleid,
                       history_handleids, idVars, dbVars, wr, server, histVars>>,
           lastid_sent' \in [Tables -> Nat],
           up' \in UploaderStates, \A t \in Tables : IsFiniteSet(up'.pkt[t]),
           IsFiniteSet(up'.rows), PacketInv', FetchInv'
    PROVE  DiskInv'
<1>0. DiskType /\ RowsInv /\ Registered /\ HistoryNoLoss /\ OnlyDuplicatesDiscarded
  BY DEF DiskInv
<1>1. TypeOK'
  BY <1>0 DEF DiskType, TypeOK, idVars, dbVars, histVars
<1>2. DiskShape'
  BY <1>0 DEF DiskType, DiskShape, dbVars
<1>3. RowsInv'
  BY <1>0 DEF RowsInv, HRows, HSent, HLast, CachedLast, Inserting, idVars, dbVars
<1>4. Registered'
  BY <1>0 DEF Registered
<1>5. HistoryNoLoss' /\ OnlyDuplicatesDiscarded'
  BY <1>0 DEF HistoryNoLoss, NoLoss, Kept, InFlight, InMemory, InDatabase,
              OnlyDuplicatesDiscarded, dbVars, histVars
<1> QED  BY <1>1, <1>2, <1>3, <1>4, <1>5 DEF DiskInv, DiskType

\* The uploader starts over with an empty packet.
LEMMA UploaderStep ==
    ASSUME DiskInv, NEW pc \in {"idle", "read"}, up' = Uploader(pc, 1),
           UNCHANGED <<pbVars, idVars, dbVars, wr, server, histVars>>
    PROVE  DiskInv'
<1>1. /\ up' \in UploaderStates /\ up'.pc = pc /\ up'.rows = {}
      /\ \A t \in Tables : up'.pkt[t] = {} /\ up'.unsaved[t] = 0
  BY UploaderFields
<1>2. IsFiniteSet({})  BY FS_EmptySet
<1>3. PacketInv' /\ FetchInv'
  BY <1>1, HistoryTable DEF PacketInv, FetchInv, AtHistory, HPkt
<1>4. lastid_sent' \in [Tables -> Nat]
  BY DEF DiskInv, DiskType, TypeOK, pbVars
<1> QED  BY <1>1, <1>2, <1>3, <1>4, UpStep DEF pbVars

\* The packet of history rows stays as it is.
LEMMA PacketKept ==
    ASSUME PacketInv, UNCHANGED <<idVars, dbVars, wr, server>>,
           HPkt' = HPkt, up'.unsaved["history"] = up.unsaved["history"],
           up.pc # "update", up'.pc # "update",
           up'.pc \in {"reply", "set"} => up.pc \in {"reply", "set"},
           up.pc = "set" => up'.pc = "set"
    PROVE  PacketInv'
BY DEF PacketInv, HRows, HSent, HLast, CachedLast, Inserting, idVars, dbVars

\* A step of the uploader while it is not at the history rows.
LEMMA ElsewhereStep ==
    ASSUME DiskInv, UNCHANGED <<pbVars, idVars, dbVars, wr, server, histVars>>,
           up' \in UploaderStates, \A t \in Tables : IsFiniteSet(up'.pkt[t]),
           IsFiniteSet(up'.rows), ~AtHistory',
           HPkt' = HPkt, up'.unsaved["history"] = up.unsaved["history"],
           up.pc # "update", up'.pc # "update",
           up'.pc \in {"reply", "set"} => up.pc \in {"reply", "set"},
           up.pc = "set" => up'.pc = "set"
    PROVE  DiskInv'
<1>1. PacketInv'  BY PacketKept DEF DiskInv
<1>2. FetchInv'  BY DEF FetchInv
<1>3. lastid_sent' \in [Tables -> Nat]
  BY DEF DiskInv, DiskType, TypeOK, pbVars
<1> QED  BY <1>1, <1>2, <1>3, UpStep DEF pbVars

\* The steps that begin a new round, or end one without an acknowledgement, touch
\* nothing but the uploader; in disk mode pb_update_state changes no state.
LEMMA UploadStartStep ==
    ASSUME DiskInv, UploadStart \/ SendFails \/ SkipUpdate \/ UpdateState
    PROVE  DiskInv'
<1>1. ASSUME UpdateState PROVE UNCHANGED <<pbVars, idVars, dbVars, wr, server, histVars>>
  <2>1. mode = "disk" /\ state = "database"  BY DEF DiskInv, DiskType, DiskShape
  <2>2. NextState = state  BY <2>1 DEF NextState
  <2> QED  BY <1>1, <2>1, <2>2 DEF UpdateState, pbVars, dbVars
<1>2. \E pc \in {"idle", "read"} : up' = Uploader(pc, 1)
  BY DEF UploadStart, SendFails, SkipUpdate, UpdateState
<1>3. UNCHANGED <<pbVars, idVars, dbVars, wr, server, histVars>>
  BY <1>1 DEF UploadStart, SendFails, SkipUpdate
<1> QED  BY <1>2, <1>3, UploaderStep

\* A table that is skipped because the packet is full adds nothing to it.
LEMMA SkipTableStep ==
    ASSUME DiskInv, NEW t \in Tables, NEW more \in BOOLEAN, SkipTable(t, more)
    PROVE  DiskInv'
<1>0. DiskType  BY DEF DiskInv
<1>1. up \in UploaderStates  BY <1>0 DEF DiskType, TypeOK
<1>2. up.pos \in DOMAIN TableOrder /\ up.pc = "read"  BY DEF SkipTable, Reading
<1>3. TableRead(t, {})  BY Zenon DEF SkipTable, TableRead
<1>4. /\ up' \in UploaderStates
      /\ up'.pc = "read" /\ up'.rows = {} /\ up'.unsaved = up.unsaved
      /\ up'.pkt[t] = up.pkt[t] \cup {}
      /\ \A u \in Tables \ {t} : up'.pkt[u] = up.pkt[u]
  BY <1>1, <1>2, <1>3, NextTableFields
<1>5. \A u \in Tables : up'.pkt[u] = up.pkt[u]  BY <1>4
<1>6. IsFiniteSet(up'.rows)  BY <1>4, FS_EmptySet
<1>7. \A u \in Tables : IsFiniteSet(up'.pkt[u])  BY <1>0, <1>5 DEF DiskType, DiskShape
<1>8. ~AtHistory'  BY <1>4 DEF AtHistory
<1>9. HPkt' = HPkt  BY <1>5, HistoryTable DEF HPkt
<1>10. UNCHANGED <<pbVars, idVars, dbVars, wr, server, histVars>>  BY DEF SkipTable
<1> QED  BY <1>2, <1>4, <1>6, <1>7, <1>8, <1>9, <1>10, ElsewhereStep

\* A history fetch begins right after the last acknowledged id.
LEMMA ReadLastidStep ==
    ASSUME DiskInv, NEW t \in Tables, ReadLastid(t)
    PROVE  DiskInv'
<1>0. DiskType /\ RowsInv /\ PacketInv  BY DEF DiskInv
<1>1. up \in UploaderStates /\ ids[t] \in Nat  BY <1>0 DEF DiskType, TypeOK
<1>2. /\ up' \in UploaderStates
      /\ up'.pc = "select" /\ up'.pos = up.pos /\ up'.cur = ids[t] /\ up'.gapid = 0
      /\ up'.rows = {} /\ up'.pkt = up.pkt /\ up'.unsaved = up.unsaved
  BY <1>1, ReadLastidFields
<1>3. IsFiniteSet(up'.rows)  BY <1>2, FS_EmptySet
<1>4. \A u \in Tables : IsFiniteSet(up'.pkt[u])  BY <1>0, <1>2 DEF DiskType, DiskShape
<1>5. HPkt' = HPkt  BY <1>2 DEF HPkt
<1>6. /\ UNCHANGED <<pbVars, idVars, dbVars, wr, server, histVars>>
      /\ up.pc = "read" /\ TableOrder[up.pos] = t
  BY DEF ReadLastid, Reading
<1>7. PacketInv'  BY <1>0, <1>2, <1>5, <1>6, PacketKept
<1>8. FetchInv'
  <2> SUFFICES ASSUME AtHistory' PROVE FetchInv'  BY DEF FetchInv
  <2>1. t = "history"  BY <1>2, <1>6 DEF AtHistory
  <2>2. HSent' = HSent /\ HRows' = HRows /\ HLast' = HLast /\ up'.cur = HSent
    BY <1>2, <1>6, <2>1 DEF HSent, HRows, HLast, CachedLast, idVars, dbVars
  <2>3. \A w \in Writers : Inserting(w)' = Inserting(w)  BY <1>6 DEF Inserting
  <2>4. HSent \in Nat /\ HLast \in Nat /\ HSent <= HLast
    BY <1>0, HistoryTypes DEF RowsInv
  <2>5. \A x \in HRows : x.id \in Nat  BY <1>0, HistoryTypes
  <2>6. \A x \in HRows : ~(HSent < x.id /\ x.id <= HSent)  BY <2>4, <2>5
  <2>7. \A w \in Writers : \A r \in Inserting(w) : r.id \in Nat /\ r.id > HSent
    BY <1>0, HistoryTypes DEF RowsInv
  <2>11. \A w \in Writers : \A r \in Inserting(w) : HSent < r.id /\ 0 <= r.id
    BY <2>4, <2>7
  <2>12. up'.pc # "wait"  BY <1>2
  <2> QED  BY <1>2, <2>2, <2>3, <2>4, <2>6, <2>11, <2>12 DEF FetchInv
<1>9. lastid_sent' \in [Tables -> Nat]  BY <1>0, <1>6 DEF DiskType, TypeOK, pbVars
<1> QED  BY <1>2, <1>3, <1>4, <1>6, <1>7, <1>8, <1>9, UpStep DEF pbVars

\* An id p that no fetched row has, behind the cursor and not before the gap that
\* was waited for, is behind every row taken: the first fetched row after p
\* follows a gap.
LEMMA NoneBefore ==
    ASSUME NEW F \in SUBSET Row, NEW cur \in Nat, NEW gapid \in Nat, NEW p \in Nat,
           cur < p, gapid <= p, \A x \in F : x.id # p,
           NEW q \in BeforeGap(F, cur, gapid)
    PROVE  q.id < p
<1> SUFFICES ASSUME p <= q.id PROVE FALSE
  <2>1. q.id \in Nat  BY DEF BeforeGap, Row
  <2> QED  BY <2>1
<1>1. q \in F /\ \A z \in F : z.id <= q.id => z.id - 1 \in Ids(F) \cup {cur} \/ z.id = gapid
  BY DEF BeforeGap
<1>2. \A x \in F : x.id \in Nat  BY DEF Row
<1> DEFINE After == {x.id : x \in {y \in F : y.id > p}}
<1>3. After \in SUBSET Nat  BY <1>2
<1>4. q.id \in After  BY <1>1, <1>2
<1>5. PICK m \in After : \A y \in After : m <= y
  <2> HIDE DEF After
  <2> QED  BY <1>3, <1>4, LeastNat
<1>6. PICK z \in F : z.id = m /\ z.id > p  OBVIOUS
<1>7. z.id <= q.id  BY <1>4, <1>5, <1>6
<1>8. z.id - 1 \in Ids(F) \cup {cur} \/ z.id = gapid  BY <1>1, <1>7
<1>9. z.id - 1 \in Ids(F)  BY <1>2, <1>6, <1>8
<1>10. PICK y \in F : y.id = z.id - 1  BY <1>9 DEF Ids
<1>11. y.id > p  BY <1>2, <1>6, <1>10
<1>12. y.id \in After  BY <1>11
<1>13. m <= y.id  BY <1>5, <1>12
<1> QED  BY <1>2, <1>6, <1>10, <1>13

\* The uploader took the rows before a gap.
LEMMA SelectHistoryGapStep ==
    ASSUME DiskInv, SelectHistoryGap
    PROVE  DiskInv'
<1> DEFINE P == BeforeGap(Fetched, up.cur, up.gapid)
<1>0. DiskType /\ RowsInv /\ PacketInv /\ FetchInv  BY DEF DiskInv
<1>t. /\ HRows \in SUBSET Row /\ HSent \in Nat /\ HLast \in Nat
      /\ up.rows \in SUBSET Row /\ up.cur \in Nat /\ up.gapid \in Nat
      /\ \A w \in Writers : Inserting(w) \in SUBSET Row
      /\ \A r \in Row : r.id \in Nat
  BY <1>0, HistoryTypes
<1>1. /\ P \in SUBSET Fetched
      /\ up' \in UploaderStates /\ IsFiniteSet(up'.rows)
      /\ up'.pc = "gap" /\ up'.pos = up.pos /\ up'.rows = up.rows \cup P
      /\ up'.cur = Advance(up.cur, P)
      /\ \E r \in Fetched : up'.gapid = r.id
      /\ up'.pkt = up.pkt /\ up'.unsaved = up.unsaved
  BY <1>0, DiskTyped, GapFields
<1>2. /\ Fetched \in SUBSET HRows /\ Fetched \in SUBSET Row /\ IsFiniteSet(Fetched)
      /\ \A r \in Fetched : r.id > up.cur
      /\ \A r \in Fetched, x \in HRows : up.cur < x.id /\ x.id <= r.id => x \in Fetched
  BY <1>0, DiskTyped, FetchedFacts DEF HRows
<1>3. /\ UNCHANGED <<pbVars, idVars, dbVars, wr, server, histVars>>
      /\ up.pc = "select" /\ AtHistory
  BY DEF SelectHistoryGap, Reading, AtHistory
<1>4. HSent' = HSent /\ HRows' = HRows /\ HLast' = HLast /\ HPkt' = HPkt
  BY <1>1, <1>3 DEF HSent, HRows, HLast, HPkt, CachedLast, idVars, dbVars
<1>5. \A w \in Writers : Inserting(w)' = Inserting(w)  BY <1>3 DEF Inserting
<1>6. PacketInv'  BY <1>0, <1>1, <1>3, <1>4, PacketKept
<1>7. P \in SUBSET Row /\ IsFiniteSet(P)  BY <1>1, <1>2, FS_Subset
<1>8. /\ up'.cur \in Nat /\ up.cur <= up'.cur
      /\ \A r \in P : r.id <= up'.cur
      /\ up'.cur = up.cur \/ \E r \in P : r.id = up'.cur
  <2> HIDE DEF P
  <2> QED  BY <1>1, <1>7, <1>t, AdvanceFacts
<1>9. \A q \in P, x \in Fetched : x.id <= q.id => x \in P
  BY <1>2, <1>t DEF BeforeGap
<1>10. ASSUME NEW w \in Writers, NEW r \in Inserting(w), NEW q \in P PROVE q.id < r.id
  <2>1. r.id \in Nat /\ up.cur < r.id /\ up.gapid <= r.id
    BY <1>0, <1>3, <1>t DEF FetchInv
  <2>2. \A x \in Fetched : x.id # r.id  BY <1>0, <1>2 DEF RowsInv
  <2> QED  BY <1>2, <1>t, <2>1, <2>2, NoneBefore
<1>11. FetchInv'
  <2>0. HSent <= up.cur /\ up.cur <= HLast /\ \A x \in HRows : x.id <= HLast
    BY <1>0, <1>3 DEF FetchInv, RowsInv
  <2>1. HSent <= up'.cur  BY <1>8, <1>t, <2>0
  <2>2. up'.cur <= HLast /\ up'.gapid <= HLast
    <3> HIDE DEF P
    <3> QED  BY <1>1, <1>2, <1>8, <2>0
  <2>3. ASSUME NEW x \in HRows, HSent < x.id, x.id <= up'.cur
        PROVE  x \in HPkt \cup up'.rows
    <3>1. CASE x.id <= up.cur
      BY <1>0, <1>1, <1>3, <2>3, <3>1 DEF FetchInv
    <3>2. CASE ~(x.id <= up.cur)
      <4>1. x.id \in Nat /\ up.cur < x.id  BY <1>t, <3>2
      <4>2. PICK q \in P : q.id = up'.cur  BY <1>8, <2>3, <3>2
      <4>3. x \in Fetched  BY <1>1, <1>2, <2>3, <4>1, <4>2
      <4>4. x \in P  BY <1>9, <2>3, <4>2, <4>3
      <4> HIDE DEF P
      <4> QED  BY <1>1, <4>4
    <3> QED  BY <3>1, <3>2
  <2>4. ASSUME NEW q \in up'.rows
        PROVE  HSent < q.id /\ q.id <= up'.cur /\ (q.id <= server.last => q.val \in server.session)
    <3>1. CASE q \in up.rows
      <4>1. HSent < q.id /\ q.id <= up.cur /\ (q.id <= server.last => q.val \in server.session)
        BY <1>0, <1>3, <3>1 DEF FetchInv
      <4>2. q.id \in Nat  BY <1>t, <3>1
      <4> QED  BY <1>8, <1>t, <4>1, <4>2
    <3>2. CASE q \in P
      <4>1. q \in Fetched /\ q \in HRows /\ q.id \in Nat  BY <1>1, <1>2, <1>t, <3>2
      <4>2. HSent < q.id  BY <1>2, <1>t, <2>0, <4>1
      <4>3. q.id <= up'.cur  BY <1>8, <3>2
      <4> QED  BY <1>0, <4>1, <4>2, <4>3 DEF RowsInv
    <3> QED
      <4> HIDE DEF P
      <4> QED  BY <1>1, <3>1, <3>2
  <2>5. ASSUME NEW w \in Writers, NEW r \in Inserting(w) PROVE up'.cur < r.id
    <3>1. up.cur < r.id  BY <1>0, <1>3 DEF FetchInv
    <3> HIDE DEF P
    <3> QED  BY <1>8, <1>10, <3>1
  <2>6. server' = server  BY <1>3
  <2> QED  BY <1>1, <1>4, <1>5, <2>1, <2>2, <2>3, <2>4, <2>5, <2>6 DEF FetchInv
<1>12. \A t \in Tables : IsFiniteSet(up'.pkt[t])  BY <1>0, <1>1 DEF DiskType, DiskShape
<1>13. lastid_sent' \in [Tables -> Nat]  BY <1>0, <1>3 DEF DiskType, TypeOK, pbVars
<1> HIDE DEF P
<1> QED  BY <1>1, <1>3, <1>6, <1>11, <1>12, <1>13, UpStep DEF pbVars

\* The uploader notes the handles that are open, and waits until they are closed.
LEMMA WaitStep ==
    ASSUME DiskInv, CollectHandles \/ WaitHandles
    PROVE  DiskInv'
<1>0. DiskType /\ RowsInv /\ PacketInv /\ FetchInv /\ Registered  BY DEF DiskInv
<1>t. /\ HSent \in Nat /\ HLast \in Nat
      /\ up.rows \in SUBSET Row /\ up.cur \in Nat /\ up.gapid \in Nat
      /\ \A w \in Writers : Inserting(w) \in SUBSET Row
      /\ \A r \in Row : r.id \in Nat
  BY <1>0, HistoryTypes
<1> DEFINE W == {0} \cup history_handleids
<1>1. handleid \in Nat /\ history_handleids \in SUBSET (1..handleid)
  BY <1>0 DEF DiskType, TypeOK
<1>2. W \in SUBSET Nat /\ W # {} /\ W \in SUBSET (0..handleid)  BY <1>1
<1>3. IsFiniteSet(W)
  <2>1. IsFiniteSet(0..handleid)  BY <1>1, FS_Interval
  <2> HIDE DEF W
  <2> QED  BY <1>2, <2>1, FS_Subset
<1>4. Max(W) \in Nat /\ \A h \in history_handleids : h <= Max(W)
  <2>1. \A h \in history_handleids : h \in W  OBVIOUS
  <2> HIDE DEF W
  <2> QED  BY <1>2, <1>3, <2>1, MaxFacts
<1>5. /\ UNCHANGED <<pbVars, idVars, dbVars, wr, server, histVars>>
      /\ up.pc \in {"gap", "wait"}
  BY DEF CollectHandles, WaitHandles
<1>6. \E pc \in {"wait", "select"}, n \in Nat :
        /\ up' = [pc |-> pc, pos |-> up.pos, cur |-> up.cur, gapid |-> up.gapid,
                  waitid |-> n, rows |-> up.rows, pkt |-> up.pkt,
                  more |-> up.more, full |-> up.full, unsaved |-> up.unsaved]
        /\ pc = "wait" => n = Max(W)
        /\ pc = "select" => up.pc = "wait" /\ \A h \in history_handleids : h > up.waitid
  <2> DEFINE U(pc, n) == [pc |-> pc, pos |-> up.pos, cur |-> up.cur, gapid |-> up.gapid,
                          waitid |-> n, rows |-> up.rows, pkt |-> up.pkt,
                          more |-> up.more, full |-> up.full, unsaved |-> up.unsaved]
  <2>1. up \in UploaderStates  BY <1>0 DEF DiskType, TypeOK
  <2>2. CASE CollectHandles
    <3>1. up' = U("wait", Max(W))  BY <2>1, <2>2 DEF CollectHandles, UploaderStates
    <3> HIDE DEF W
    <3> Max(W) \in Nat  BY <1>4
    <3> WITNESS "wait" \in {"wait", "select"}, Max(W) \in Nat
    <3> QED  BY <3>1
  <2>3. CASE WaitHandles
    <3>1. up' = U("select", 0) /\ up.pc = "wait" /\ \A h \in history_handleids : h > up.waitid
      BY <2>1, <2>3 DEF WaitHandles, UploaderStates
    <3> WITNESS "select" \in {"wait", "select"}, 0 \in Nat
    <3> QED  BY <3>1
  <2> QED  BY <2>2, <2>3
<1> HIDE DEF W
<1>7. /\ up' \in UploaderStates
      /\ up'.pc \in {"wait", "select"}
      /\ up'.pos = up.pos /\ up'.cur = up.cur /\ up'.gapid = up.gapid
      /\ up'.rows = up.rows /\ up'.pkt = up.pkt /\ up'.unsaved = up.unsaved
      /\ up'.pc = "wait" => up'.waitid = Max(W)
      /\ up'.pc = "select" => up.pc = "wait" /\ \A h \in history_handleids : h > up.waitid
  BY <1>0, <1>6 DEF UploaderStates, DiskType, TypeOK
<1>8. HSent' = HSent /\ HRows' = HRows /\ HLast' = HLast /\ HPkt' = HPkt
  BY <1>5, <1>7 DEF HSent, HRows, HLast, HPkt, CachedLast, idVars, dbVars
<1>9. \A w \in Writers : Inserting(w)' = Inserting(w)  BY <1>5 DEF Inserting
<1>10. PacketInv'  BY <1>0, <1>5, <1>7, <1>8, PacketKept
<1>11. FetchInv'
  <2> SUFFICES ASSUME AtHistory' PROVE FetchInv'  BY DEF FetchInv
  <2>1. AtHistory  BY <1>5, <1>7 DEF AtHistory
  <2>2. ASSUME NEW w \in Writers, NEW r \in Inserting(w)
        PROVE  /\ up.cur < r.id
               /\ up'.pc = "select" => up.gapid <= r.id
               /\ up'.pc = "wait" => wr[w].handle <= up'.waitid
    <3>1. wr[w].handle \in history_handleids
      BY <1>0 DEF Registered, Inserting
    <3>2. r.id \in Nat  BY <1>t
    <3>3. up.cur < r.id  BY <1>0, <2>1 DEF FetchInv
    <3>4. up'.pc = "wait" => wr[w].handle <= up'.waitid  BY <1>4, <1>7, <3>1
    <3>5. ASSUME up'.pc = "select" PROVE up.gapid <= r.id
      <4>1. up.pc = "wait" /\ wr[w].handle > up.waitid  BY <1>7, <3>1, <3>5
      <4>2. wr[w].handle \in Nat /\ up.waitid \in Nat
        BY <1>0 DEF DiskType, TypeOK, WriterStates, UploaderStates
      <4>3. ~(wr[w].handle <= up.waitid)  BY <4>1, <4>2
      <4>4. ~(r.id < up.gapid)  BY <1>0, <2>1, <4>1, <4>3 DEF FetchInv
      <4> QED  BY <1>t, <3>2, <4>4
    <3> QED  BY <3>3, <3>4, <3>5
  <2>3. wr' = wr /\ server' = server  BY <1>5
  <2> QED  BY <1>0, <1>7, <1>8, <1>9, <2>1, <2>2, <2>3 DEF FetchInv
<1>12. \A t \in Tables : IsFiniteSet(up'.pkt[t])  BY <1>0, <1>7 DEF DiskType, DiskShape
<1>13. IsFiniteSet(up'.rows)  BY <1>0, <1>7 DEF DiskType, DiskShape
<1>14. lastid_sent' \in [Tables -> Nat]  BY <1>0, <1>5 DEF DiskType, TypeOK, pbVars
<1> QED  BY <1>5, <1>7, <1>10, <1>11, <1>12, <1>13, <1>14, UpStep DEF pbVars

\* Rows of a fetch that was not broken by a gap go into the packet.
LEMMA SelectHistoryStep ==
    ASSUME DiskInv, NEW last \in Nat, NEW full \in BOOLEAN, SelectHistory(last, full)
    PROVE  DiskInv'
<1> DEFINE R == up.rows \cup Fetched
           E == {r \in R : r.id <= last}
<1>0. DiskType /\ RowsInv /\ PacketInv /\ FetchInv  BY DEF DiskInv
<1>t. /\ HRows \in SUBSET Row /\ HSent \in Nat /\ HLast \in Nat
      /\ up.rows \in SUBSET Row /\ up.cur \in Nat /\ up.gapid \in Nat
      /\ HPkt \in SUBSET Row /\ IsFiniteSet(HPkt)
      /\ \A w \in Writers : Inserting(w) \in SUBSET Row
      /\ \A r \in Row : r.id \in Nat
  BY <1>0, HistoryTypes
<1>1. /\ UNCHANGED <<pbVars, idVars, dbVars, wr, server, histVars>>
      /\ up.pc = "select" /\ AtHistory /\ up.pos \in DOMAIN TableOrder
      /\ TableOrder[up.pos] = "history"
      /\ BeforeGap(Fetched, up.cur, up.gapid) = Fetched
      /\ R # {} => last \in Ids(R)
      /\ E # R => full
  BY DEF SelectHistory, Reading, AtHistory, Fetched
<1>2. /\ Fetched \in SUBSET HRows /\ Fetched \in SUBSET Row /\ IsFiniteSet(Fetched)
      /\ \A r \in Fetched : r.id > up.cur
      /\ \A r \in Fetched, x \in HRows : up.cur < x.id /\ x.id <= r.id => x \in Fetched
  BY <1>0, DiskTyped, FetchedFacts DEF HRows
<1>5. /\ E \in SUBSET Row /\ IsFiniteSet(E)
      /\ up' \in UploaderStates /\ up'.rows = {} /\ up'.unsaved = up.unsaved
      /\ up'.pkt["history"] = up.pkt["history"] \cup E
      /\ \A u \in Tables \ {"history"} : up'.pkt[u] = up.pkt[u]
      /\ \/ up'.pc = "read"
         \/ /\ E = R /\ R # {} /\ up'.pc = "select" /\ up'.pos = up.pos
            /\ up'.cur = last /\ up'.gapid = 0
  BY <1>0, DiskTyped, SelectHistoryFields
<1>7. /\ up' \in UploaderStates /\ up'.rows = {} /\ up'.unsaved = up.unsaved
      /\ up'.pkt["history"] = HPkt \cup E
      /\ \A u \in Tables \ {"history"} : up'.pkt[u] = up.pkt[u]
      /\ \/ up'.pc = "read"
         \/ E = R /\ R # {} /\ up'.pc = "select" /\ up'.pos = up.pos /\ up'.cur = last /\ up'.gapid = 0
  <2> HIDE DEF R, E
  <2> QED  BY <1>5 DEF HPkt
<1>8. HSent' = HSent /\ HRows' = HRows /\ HLast' = HLast /\ HPkt' = HPkt \cup E
  BY <1>1, <1>7 DEF HSent, HRows, HLast, HPkt, CachedLast, idVars, dbVars
<1>9. (\A w \in Writers : Inserting(w)' = Inserting(w)) /\ server' = server
  BY <1>1 DEF Inserting
<1>10. up.unsaved["history"] = 0  BY <1>0, <1>1 DEF PacketInv
<1>11. ASSUME NEW q \in E
       PROVE  /\ q.id <= HLast /\ HSent < q.id
              /\ \A x \in HRows : HSent < x.id /\ x.id <= q.id => x \in HPkt \cup E
              /\ \A w \in Writers : \A r \in Inserting(w) : q.id < r.id
              /\ q.id <= server.last => q.val \in server.session
  <2>0. /\ HSent <= up.cur /\ up.cur <= HLast
        /\ \A x \in HRows : HSent < x.id /\ x.id <= up.cur => x \in HPkt \cup up.rows
        /\ \A w \in Writers : \A r \in Inserting(w) : up.cur < r.id /\ up.gapid <= r.id
    BY <1>0, <1>1 DEF FetchInv
  <2>1. q \in R /\ q.id <= last /\ q.id \in Nat  BY <1>2, <1>t
  <2>2. ASSUME NEW x \in HRows, x \in R, x.id <= q.id PROVE x \in E
    <3>1. x.id \in Nat  BY <1>t
    <3> QED  BY <2>1, <2>2, <3>1
  <2>3. CASE q \in up.rows
    <3>1. HSent < q.id /\ q.id <= up.cur /\ (q.id <= server.last => q.val \in server.session)
      BY <1>0, <1>1, <2>3 DEF FetchInv
    <3>2. ASSUME NEW x \in HRows, HSent < x.id, x.id <= q.id PROVE x \in HPkt \cup E
      <4>1. x.id \in Nat  BY <1>t
      <4>2. x.id <= up.cur  BY <1>t, <2>1, <3>1, <3>2, <4>1
      <4>3. x \in HPkt \cup up.rows  BY <2>0, <3>2, <4>2
      <4> QED  BY <2>2, <3>2, <4>3
    <3>3. ASSUME NEW w \in Writers, NEW r \in Inserting(w) PROVE q.id < r.id
      <4>1. r.id \in Nat  BY <1>t
      <4> QED  BY <1>t, <2>0, <2>1, <3>1, <4>1
    <3>4. q.id <= HLast  BY <1>t, <2>0, <2>1, <3>1
    <3> QED  BY <3>1, <3>2, <3>3, <3>4
  <2>4. CASE q \in Fetched
    <3>1. q \in HRows /\ up.cur < q.id  BY <1>2, <1>t, <2>4
    <3>2. HSent < q.id /\ q.id <= HLast  BY <1>0, <1>t, <2>0, <2>1, <3>1 DEF RowsInv
    <3>3. ASSUME NEW x \in HRows, HSent < x.id, x.id <= q.id PROVE x \in HPkt \cup E
      <4>1. x.id \in Nat  BY <1>t
      <4>2. CASE x.id <= up.cur
        BY <2>0, <2>2, <3>3, <4>2
      <4>3. CASE ~(x.id <= up.cur)
        <5>1. up.cur < x.id  BY <1>t, <4>1, <4>3
        <5>2. x \in Fetched  BY <1>2, <2>4, <3>3, <5>1
        <5> QED  BY <2>2, <3>3, <5>2
      <4> QED  BY <4>2, <4>3
    <3>4. ASSUME NEW w \in Writers, NEW r \in Inserting(w) PROVE q.id < r.id
      <4>1. r.id \in Nat /\ up.cur < r.id /\ up.gapid <= r.id  BY <1>t, <2>0
      <4>2. \A x \in Fetched : x.id # r.id  BY <1>0, <1>2 DEF RowsInv
      <4>3. q \in BeforeGap(Fetched, up.cur, up.gapid)  BY <1>1, <2>4
      <4> QED  BY <1>2, <1>t, <4>1, <4>2, <4>3, NoneBefore
    <3>5. q.id <= server.last => q.val \in server.session  BY <1>0, <3>1, <3>2 DEF RowsInv
    <3> QED  BY <3>2, <3>3, <3>4, <3>5
  <2> QED  BY <2>1, <2>3, <2>4
<1> HIDE DEF R, E
<1>12. PacketInv'
  <2>1. up'.pc \in {"read", "select"}  BY <1>7
  <2>2. up'.unsaved["history"] = 0  BY <1>7, <1>10
  <2>3. ASSUME NEW q \in HPkt \cup E
        PROVE  /\ q.id <= HLast /\ HSent < q.id
               /\ \A x \in HRows : HSent < x.id /\ x.id <= q.id => x \in HPkt \cup E
               /\ \A w \in Writers : \A r \in Inserting(w) : q.id < r.id
               /\ q.id <= server.last => q.val \in server.session
    <3>1. CASE q \in E  BY <1>11, <3>1
    <3>2. CASE q \in HPkt  BY <1>0, <1>1, <3>2 DEF PacketInv
    <3> QED  BY <2>3, <3>1, <3>2
  <2> QED  BY <1>8, <1>9, <2>1, <2>2, <2>3 DEF PacketInv
<1>13. FetchInv'
  <2> SUFFICES ASSUME AtHistory' PROVE FetchInv'  BY DEF FetchInv
  <2>1. E = R /\ R # {} /\ up'.pc = "select" /\ up'.cur = last /\ up'.gapid = 0
    BY <1>7 DEF AtHistory
  <2>2. PICK q \in E : q.id = last  BY <1>1, <2>1 DEF Ids
  <2>3. /\ last <= HLast /\ HSent < last
        /\ \A x \in HRows : HSent < x.id /\ x.id <= last => x \in HPkt \cup E
        /\ \A w \in Writers : \A r \in Inserting(w) : last < r.id
    BY <1>11, <2>2
  <2>4. \A w \in Writers : \A r \in Inserting(w) : 0 <= r.id  BY <1>t
  <2>5. HSent <= last /\ 0 <= HLast  BY <1>t, <2>3
  <2> QED  BY <1>7, <1>8, <1>9, <2>1, <2>3, <2>4, <2>5 DEF FetchInv
<1>14. \A t \in Tables : IsFiniteSet(up'.pkt[t])
  <2>1. IsFiniteSet(HPkt \cup E)  BY <1>5, <1>t, FS_Union
  <2> QED  BY <1>0, <1>7, <2>1 DEF DiskType, DiskShape
<1>15. IsFiniteSet(up'.rows)  BY <1>7, FS_EmptySet
<1>16. lastid_sent' \in [Tables -> Nat]  BY <1>0, <1>1 DEF DiskType, TypeOK, pbVars
<1> QED  BY <1>1, <1>7, <1>12, <1>13, <1>14, <1>15, <1>16, UpStep DEF pbVars

\* The discovery and autoregistration rows do not touch the history rows.
LEMMA SelectOtherStep ==
    ASSUME DiskInv, NEW t \in Tables, NEW last \in Nat, NEW full \in BOOLEAN,
           SelectOther(t, last, full)
    PROVE  DiskInv'
<1>1. DiskType  BY DEF DiskInv
<1>2. /\ UpTyped' /\ up'.unsaved = up.unsaved
      /\ \A u \in Tables \ {t} : up'.pkt[u] = up.pkt[u]
      /\ up'.pc = "read" \/ (up'.pc = "select" /\ up'.pos = up.pos)
  BY <1>1, DiskTyped, SelectOtherFields
<1>3. /\ UNCHANGED <<pbVars, idVars, dbVars, wr, server, histVars>>
      /\ up.pc = "select" /\ TableOrder[up.pos] = t /\ t # "history"
  BY DEF SelectOther, Reading
<1>4. ~AtHistory'  BY <1>2, <1>3 DEF AtHistory
<1>5. HPkt' = HPkt  BY <1>2, <1>3, HistoryTable DEF HPkt
<1>6. up' \in UploaderStates /\ IsFiniteSet(up'.rows) /\ \A u \in Tables : IsFiniteSet(up'.pkt[u])
  BY <1>2 DEF UpTyped
<1> QED  BY <1>2, <1>3, <1>4, <1>5, <1>6, ElsewhereStep

\* The server's reply is received: the packet's values are in its session.
LEMMA ReplyReceivedStep ==
    ASSUME DiskInv, ReplyReceived
    PROVE  DiskInv'
<1>0. DiskType  BY DEF DiskInv
<1>1. up \in UploaderStates /\ 1 \in 1..(Len(TableOrder) + 1)
  BY <1>0, TablePos DEF DiskType, TypeOK
<1>2. /\ up' = [pc |-> "set", pos |-> 1, cur |-> up.cur, gapid |-> up.gapid,
                waitid |-> up.waitid, rows |-> up.rows, pkt |-> up.pkt,
                more |-> up.more, full |-> up.full, unsaved |-> up.unsaved]
      /\ up.pc = "reply"
      /\ UNCHANGED <<pbVars, idVars, dbVars, wr, server, histVars>>
  BY <1>1 DEF ReplyReceived, UploaderStates
<1>3. up' \in UploaderStates  BY <1>1, <1>2 DEF UploaderStates
<1>4. /\ up'.pc = "set" /\ up'.rows = up.rows /\ up'.pkt = up.pkt
      /\ up'.unsaved = up.unsaved
  BY <1>2
<1>5. IsFiniteSet(up'.rows) /\ \A u \in Tables : IsFiniteSet(up'.pkt[u])
  BY <1>0, <1>4 DEF DiskType, DiskShape
<1>6. ~AtHistory' /\ HPkt' = HPkt  BY <1>4 DEF AtHistory, HPkt
<1> QED  BY <1>2, <1>3, <1>4, <1>5, <1>6, ElsewhereStep

\* The id of the last row of a packet is remembered until it is committed.
LEMMA SetLastidStep ==
    ASSUME DiskInv, NEW t \in Tables, SetLastid(t)
    PROVE  DiskInv'
<1> DEFINE lastid == MaxId(up.pkt[t])
           n == IF up.pkt[t] # {} THEN lastid ELSE up.unsaved[t]
<1>0. DiskType /\ PacketInv  BY DEF DiskInv
<1>1. /\ up \in UploaderStates /\ up.pkt[t] \in SUBSET Row /\ IsFiniteSet(up.pkt[t])
      /\ lastid_sent \in [Tables -> Nat] /\ up.unsaved[t] \in Nat
      /\ up.unsaved \in [Tables -> Nat]
  BY <1>0 DEF DiskType, TypeOK, DiskShape, UploaderStates
<1>2. lastid \in Nat /\ (up.pkt[t] # {} => \E r \in up.pkt[t] : r.id = lastid)
  BY <1>1, MaxIdFacts
<1>3. Src(state) = "database"  BY <1>0, DiskUses DEF DiskType
<1>4. /\ up.pc = "set" /\ up.pos \in DOMAIN TableOrder
      /\ lastid_sent' \in [Tables -> Nat]
      /\ UNCHANGED <<mode, state, mem, lastid_db, db_handles_num, handleid,
                     history_handleids, idVars, dbVars, wr, server, histVars>>
  BY <1>1, <1>2, <1>3 DEF SetLastid, Reading
<1>5. up.pos + 1 \in 1..(Len(TableOrder) + 1)  BY <1>4, TablePos
<1>6. up' = [pc |-> "set", pos |-> up.pos + 1, cur |-> up.cur, gapid |-> up.gapid,
             waitid |-> up.waitid, rows |-> up.rows, pkt |-> up.pkt,
             more |-> up.more, full |-> up.full,
             unsaved |-> [up.unsaved EXCEPT ![t] = n]]
  BY <1>1, <1>3, <1>4 DEF SetLastid, UploaderStates
<1>7. n \in Nat /\ (n # 0 => n = up.unsaved[t] \/ \E r \in up.pkt[t] : r.id = n)
  BY <1>1, <1>2
<1> HIDE DEF n, lastid
<1>8. [up.unsaved EXCEPT ![t] = n] \in [Tables -> Nat]  BY <1>1, <1>7
<1>9. up' \in UploaderStates  BY <1>1, <1>5, <1>6, <1>8 DEF UploaderStates
<1>10. /\ up'.pc = "set" /\ up'.rows = up.rows /\ up'.pkt = up.pkt
       /\ up'.unsaved = [up.unsaved EXCEPT ![t] = n]
  BY <1>6
<1>11. IsFiniteSet(up'.rows) /\ \A u \in Tables : IsFiniteSet(up'.pkt[u])
  BY <1>0, <1>10 DEF DiskType, DiskShape
<1>12. FetchInv'  BY <1>10 DEF FetchInv, AtHistory
<1>13. HPkt' = HPkt /\ HRows' = HRows /\ HSent' = HSent /\ HLast' = HLast
       /\ (\A w \in Writers : Inserting(w)' = Inserting(w)) /\ server' = server
  BY <1>4, <1>10 DEF HPkt, HRows, HSent, HLast, CachedLast, Inserting, idVars, dbVars
<1>14. up'.unsaved["history"] # 0 => \E q \in HPkt : q.id = up'.unsaved["history"]
  <2>1. CASE t = "history"
    <3>1. up'.unsaved["history"] = n  BY <1>1, <1>10, <2>1
    <3> QED  BY <1>0, <1>7, <2>1, <3>1 DEF PacketInv, HPkt
  <2>2. CASE t # "history"
    <3>1. up'.unsaved["history"] = up.unsaved["history"]  BY <1>1, <1>10, <2>2, HistoryTable
    <3> QED  BY <1>0, <3>1 DEF PacketInv
  <2> QED  BY <2>1, <2>2
<1>15. PacketInv'
  BY <1>0, <1>4, <1>10, <1>13, <1>14 DEF PacketInv
<1> QED  BY <1>4, <1>9, <1>11, <1>12, <1>15, UpStep

----------------------------------------------------------------------------
(* The server takes a packet, and the packet is acknowledged. *)

\* A packet in front of the server holds no value that the server would take
\* for a duplicate without having it.
LEMMA DeliverStep ==
    ASSUME DiskInv, Deliver
    PROVE  DiskInv'
<1> DEFINE fresh == Fresh(HPkt)
           last == Max({server.last, MaxId(HPkt)})
<1>0. /\ DiskType /\ RowsInv /\ PacketInv /\ Registered /\ HistoryNoLoss
      /\ OnlyDuplicatesDiscarded
  BY DEF DiskInv
<1>t. /\ HRows \in SUBSET Row /\ HSent \in Nat /\ HLast \in Nat
      /\ HPkt \in SUBSET Row /\ IsFiniteSet(HPkt) /\ server.last \in Nat
      /\ \A w \in Writers : Inserting(w) \in SUBSET Row
      /\ \A r \in Row : r.id \in Nat
  BY <1>0, HistoryTypes
<1>1. up \in UploaderStates /\ server \in ServerStates  BY <1>0 DEF DiskType, TypeOK
<1>2. /\ UNCHANGED <<pbVars, idVars, dbVars, wr, histVars>> /\ up.pc = "read"
      /\ up' = [up EXCEPT !.pc = "reply"]
  BY DEF Deliver, Packed
<1>3. /\ up' \in UploaderStates /\ up'.pc = "reply" /\ up'.rows = up.rows
      /\ up'.pkt = up.pkt /\ up'.unsaved = up.unsaved
  BY <1>1, <1>2 DEF UploaderStates
<1>4. /\ MaxId(HPkt) \in Nat /\ \A q \in HPkt : q.id <= MaxId(HPkt)
      /\ HPkt # {} => \E q \in HPkt : q.id = MaxId(HPkt)
      /\ HPkt = {} => MaxId(HPkt) = 0
  BY <1>t, MaxIdFacts
<1>5. /\ last \in Nat /\ server.last <= last /\ MaxId(HPkt) <= last
      /\ last = server.last \/ last = MaxId(HPkt)
  BY <1>t, <1>4, MaxOfTwo
<1>6. /\ server'.last = last
      /\ server'.refused = server.refused \cup (Vals(HPkt \ fresh) \ server.session)
      /\ server'.session = server.session \cup Vals(fresh)
      /\ server'.twice = server.twice \cup (Vals(fresh) \cap server.session)
      /\ server'.accepted = [t \in Tables |-> server.accepted[t] \cup
                                Vals(IF t = "history" THEN fresh ELSE up.pkt[t])]
      /\ server' = [last |-> server'.last, refused |-> server'.refused,
                    session |-> server'.session, twice |-> server'.twice,
                    accepted |-> server'.accepted]
  BY DEF Deliver, HPkt
<1>7. \A q \in HPkt : q \in fresh <=> q.id > server.last  BY DEF Fresh
<1>8. fresh \in SUBSET HPkt  BY DEF Fresh
<1> HIDE DEF fresh, last
<1>9. \A q \in HPkt \ fresh : q.val \in server.session
  <2>1. \A q \in HPkt \ fresh : q.id <= server.last  BY <1>7, <1>t
  <2> QED  BY <1>0, <2>1 DEF PacketInv
<1>10. server'.refused = {}  BY <1>0, <1>6, <1>9 DEF OnlyDuplicatesDiscarded, Vals
<1>11. server' \in ServerStates
  <2>1. Vals(fresh) \in SUBSET Nat  BY <1>8, <1>t DEF Vals, Row
  <2>2. \A t \in Tables : Vals(IF t = "history" THEN fresh ELSE up.pkt[t]) \in SUBSET Nat
    BY <1>1, <2>1 DEF UploaderStates, Vals, Row
  <2>3. server'.accepted \in [Tables -> SUBSET Nat]
    BY <1>1, <1>6, <2>2 DEF ServerStates
  <2>4. server'.session \in SUBSET Nat /\ server'.twice \in SUBSET Nat
    BY <1>1, <1>6, <2>1 DEF ServerStates
  <2>5. server'.refused \in SUBSET Nat  BY <1>10
  <2>6. server'.last \in Nat  BY <1>5, <1>6
  <2> QED  BY <1>6, <2>3, <2>4, <2>5, <2>6 DEF ServerStates
<1>12. TypeOK'
  BY <1>0, <1>2, <1>3, <1>11 DEF DiskType, TypeOK, pbVars, idVars, dbVars, histVars
<1>13. DiskShape'
  BY <1>0, <1>2, <1>3 DEF DiskType, DiskShape, pbVars, dbVars
<1>14. HPkt' = HPkt /\ HRows' = HRows /\ HSent' = HSent /\ HLast' = HLast
       /\ (\A w \in Writers : Inserting(w)' = Inserting(w)) /\ idcache' = idcache
  BY <1>2, <1>3 DEF HPkt, HRows, HSent, HLast, CachedLast, Inserting, idVars, dbVars
<1>15. \A q \in HPkt : q.val \in server'.session
  BY <1>6, <1>9 DEF Vals
<1>16. server.session \in SUBSET server'.session  BY <1>6
<1>17. RowsInv'
  <2>1. last <= HLast
    <3>1. MaxId(HPkt) <= HLast
      <4>1. CASE HPkt = {}  BY <1>4, <1>t, <4>1
      <4>2. CASE HPkt # {}  BY <1>0, <1>4, <4>2 DEF PacketInv
      <4> QED  BY <4>1, <4>2
    <3> QED  BY <1>0, <1>5, <3>1 DEF RowsInv
  <2>2. ASSUME NEW x \in HRows, HSent < x.id, x.id <= last PROVE x.val \in server'.session
    <3>1. CASE x.id <= server.last  BY <1>0, <1>16, <2>2, <3>1 DEF RowsInv
    <3>2. CASE ~(x.id <= server.last)
      <4>1. x.id <= MaxId(HPkt) /\ last = MaxId(HPkt)  BY <1>5, <2>2, <3>2
      <4>2. HPkt # {}  BY <1>4, <1>t, <2>2, <4>1
      <4>3. PICK q \in HPkt : q.id = MaxId(HPkt)  BY <1>4, <4>2
      <4>4. x \in HPkt  BY <1>0, <2>2, <4>1, <4>3 DEF PacketInv
      <4> QED  BY <1>15, <4>4
    <3> QED  BY <3>1, <3>2
  <2>3. server'.session \in SUBSET (server'.accepted["history"])
    <3>1. server'.accepted["history"] = server.accepted["history"] \cup Vals(fresh)
      BY <1>6, HistoryTable
    <3> QED  BY <1>0, <1>6, <3>1 DEF RowsInv
  <2>4. ASSUME NEW w \in Writers, NEW r \in Inserting(w) PROVE r.id > last
    <3>1. r.id > server.last /\ r.id \in Nat  BY <1>0, <1>t DEF RowsInv
    <3>2. CASE last = server.last  BY <3>1, <3>2
    <3>3. CASE last = MaxId(HPkt) /\ HPkt # {}
      <4>1. PICK q \in HPkt : q.id = MaxId(HPkt)  BY <1>4, <3>3
      <4>2. q.id < r.id  BY <1>0 DEF PacketInv
      <4> QED  BY <1>4, <3>1, <3>3, <4>1, <4>2
    <3>4. CASE last = MaxId(HPkt) /\ HPkt = {}
      BY <1>4, <1>5, <1>t, <3>1, <3>4
    <3> QED  BY <1>5, <3>2, <3>3, <3>4
  <2> QED  BY <1>0, <1>6, <1>14, <2>1, <2>2, <2>3, <2>4 DEF RowsInv
<1>18. PacketInv'
  <2>1. up.unsaved["history"] = 0  BY <1>0, <1>2 DEF PacketInv
  <2>2. up.pc # "update"  BY <1>2
  <2> QED  BY <1>0, <1>3, <1>14, <1>15, <2>1, <2>2 DEF PacketInv
<1>19. FetchInv'  BY <1>3 DEF FetchInv, AtHistory
<1>20. Registered'  BY <1>0, <1>2 DEF Registered, pbVars
<1>21. HistoryNoLoss'
  <2>1. server.accepted["history"] \in SUBSET (server'.accepted["history"])
    BY <1>6, HistoryTable
  <2>2. /\ InFlight("history")' = InFlight("history") /\ InMemory("history")' = InMemory("history")
        /\ InDatabase("history")' = InDatabase("history") /\ dropped' = dropped /\ written' = written
    BY <1>2 DEF InFlight, InMemory, InDatabase, pbVars, dbVars, histVars
  <2> QED  BY <1>0, <2>1, <2>2 DEF HistoryNoLoss, NoLoss, Kept
<1>22. OnlyDuplicatesDiscarded'  BY <1>10 DEF OnlyDuplicatesDiscarded
<1> QED  BY <1>12, <1>13, <1>17, <1>18, <1>19, <1>20, <1>21, <1>22 DEF DiskInv, DiskType

\* The new last uploaded id is the id of a row the server has, or the old one.
LEMMA CommitLastidsStep ==
    ASSUME DiskInv, NEW ok \in BOOLEAN, CommitLastids(ok)
    PROVE  DiskInv'
<1>0. /\ DiskType /\ RowsInv /\ PacketInv /\ Registered /\ HistoryNoLoss
      /\ OnlyDuplicatesDiscarded
  BY DEF DiskInv
<1>t. /\ HRows \in SUBSET Row /\ HSent \in Nat /\ HLast \in Nat
      /\ HPkt \in SUBSET Row
      /\ \A w \in Writers : Inserting(w) \in SUBSET Row
      /\ \A r \in Row : r.id \in Nat
  BY <1>0, HistoryTypes
<1>1. up \in UploaderStates /\ ids \in [Tables -> Nat]  BY <1>0 DEF DiskType, TypeOK
<1>2. /\ UNCHANGED <<pbVars, idVars, db, wr, server, histVars>> /\ up.pc = "set"
      /\ ids' = [t \in Tables |-> IF ok /\ up.unsaved[t] # 0 THEN up.unsaved[t] ELSE ids[t]]
      /\ up' = [pc |-> "update", pos |-> up.pos, cur |-> up.cur, gapid |-> up.gapid,
                waitid |-> up.waitid, rows |-> up.rows, pkt |-> up.pkt,
                more |-> up.more, full |-> up.full, unsaved |-> [t \in Tables |-> 0]]
  BY <1>1 DEF CommitLastids, UploaderStates
<1>3. up' \in UploaderStates
  BY <1>1, <1>2 DEF UploaderStates
<1>4. /\ up'.pc = "update" /\ up'.rows = up.rows /\ up'.pkt = up.pkt
      /\ up'.unsaved["history"] = 0
  BY <1>2, HistoryTable
<1>5. ids' \in [Tables -> Nat]  BY <1>1, <1>2 DEF UploaderStates
<1>6. TypeOK'
  BY <1>0, <1>2, <1>3, <1>5 DEF DiskType, TypeOK, pbVars, idVars, histVars
<1>7. DiskShape'  BY <1>0, <1>2, <1>4 DEF DiskType, DiskShape, pbVars
<1>8. HPkt' = HPkt /\ HRows' = HRows /\ HLast' = HLast
      /\ (\A w \in Writers : Inserting(w)' = Inserting(w)) /\ idcache' = idcache
  BY <1>2, <1>4 DEF HPkt, HRows, HLast, CachedLast, Inserting, idVars
<1>9. HSent' = HSent \/ \E q \in HPkt : HSent' = q.id
  BY <1>0, <1>2, HistoryTable DEF HSent, PacketInv
<1>10. /\ HSent' \in Nat /\ HSent <= HSent' /\ HSent' <= HLast
       /\ \A x \in HRows : HSent < x.id /\ x.id <= HSent' => x \in HPkt
       /\ \A w \in Writers : \A r \in Inserting(w) : HSent' < r.id
  <2>1. CASE HSent' = HSent
    <3>1. \A x \in HRows : ~(HSent < x.id /\ x.id <= HSent)  BY <1>t
    <3>2. \A w \in Writers : \A r \in Inserting(w) : HSent < r.id
      BY <1>0, <1>t DEF RowsInv
    <3> QED  BY <1>0, <1>t, <2>1, <3>1, <3>2 DEF RowsInv
  <2>2. ASSUME NEW q \in HPkt, HSent' = q.id
        PROVE  /\ HSent' \in Nat /\ HSent <= HSent' /\ HSent' <= HLast
               /\ \A x \in HRows : HSent < x.id /\ x.id <= HSent' => x \in HPkt
               /\ \A w \in Writers : \A r \in Inserting(w) : HSent' < r.id
    <3>1. q.id \in Nat /\ HSent < q.id  BY <1>0, <1>2, <1>t DEF PacketInv
    <3>2. HSent <= q.id  BY <1>t, <3>1
    <3> QED  BY <1>0, <2>2, <3>1, <3>2 DEF PacketInv
  <2> QED  BY <1>9, <2>1, <2>2
<1>11. \A x \in HRows : HSent' < x.id => HSent < x.id  BY <1>10, <1>t
<1>12. RowsInv'
  BY <1>0, <1>2, <1>8, <1>10, <1>11 DEF RowsInv
<1>13. PacketInv'
  BY <1>0, <1>2, <1>4, <1>8, <1>11 DEF PacketInv
<1>14. FetchInv'  BY <1>4 DEF FetchInv, AtHistory
<1>15. Registered'  BY <1>0, <1>2 DEF Registered, pbVars
<1>16. InDatabase("history") \in SUBSET (InDatabase("history")' \cup server.accepted["history"])
  <2> SUFFICES ASSUME NEW x \in HRows, HSent < x.id
               PROVE  x.val \in InDatabase("history")' \cup server.accepted["history"]
    BY DEF InDatabase, HRows, HSent, Vals
  <2>1. CASE HSent' < x.id
    BY <1>8, <2>1 DEF InDatabase, HRows, HSent, Vals
  <2>2. CASE ~(HSent' < x.id)
    <3>1. x.id <= HSent'  BY <1>10, <1>t, <2>2
    <3>2. x \in HPkt  BY <1>10, <3>1
    <3> QED  BY <1>0, <1>2, <3>2 DEF PacketInv, RowsInv
  <2> QED  BY <2>1, <2>2
<1>17. HistoryNoLoss'
  <2>1. /\ InFlight("history")' = InFlight("history") /\ InMemory("history")' = InMemory("history")
        /\ server' = server /\ dropped' = dropped /\ written' = written
    BY <1>2 DEF InFlight, InMemory, pbVars, histVars
  <2> QED  BY <1>0, <1>16, <2>1 DEF HistoryNoLoss, NoLoss, Kept
<1>18. OnlyDuplicatesDiscarded'  BY <1>0, <1>2 DEF OnlyDuplicatesDiscarded
<1> QED  BY <1>6, <1>7, <1>12, <1>13, <1>14, <1>15, <1>17, <1>18 DEF DiskInv, DiskType

----------------------------------------------------------------------------
(* Writers. *)

\* A step that leaves the history rows and what is being inserted alone.
LEMMA FrameStep ==
    ASSUME DiskInv, UNCHANGED <<up, server, dropped, mem>>,
           HRows' = HRows, HSent' = HSent, HLast' = HLast,
           idcache'["history"] = idcache["history"],
           written'["history"] = written["history"],
           \A w \in Writers : Inserting(w)' = Inserting(w),
           \A w \in Writers : Inserting(w) # {} => wr'[w].handle = wr[w].handle
    PROVE  RowsInv' /\ PacketInv' /\ FetchInv' /\ HistoryNoLoss' /\ OnlyDuplicatesDiscarded'
<1>0. RowsInv /\ PacketInv /\ FetchInv /\ HistoryNoLoss /\ OnlyDuplicatesDiscarded
  BY DEF DiskInv
<1>1. RowsInv'  BY <1>0 DEF RowsInv
<1>2. HPkt' = HPkt /\ (AtHistory' <=> AtHistory)  BY DEF HPkt, AtHistory
<1>3. PacketInv'  BY <1>0, <1>2 DEF PacketInv
<1>4. FetchInv'  BY <1>0, <1>2 DEF FetchInv
<1>5. InFlight("history")' = InFlight("history")
  <2>1. \A v : v \in InFlight("history") <=> \E w \in Writers : v \in Vals(Inserting(w))
    BY DEF InFlight, Inserting, Vals
  <2>2. \A v : v \in InFlight("history")' <=> \E w \in Writers : v \in Vals(Inserting(w)')
    BY DEF InFlight, Inserting, Vals
  <2> QED  BY <2>1, <2>2
<1>6. InDatabase("history")' = InDatabase("history")  BY DEF InDatabase, HRows, HSent
<1>7. InMemory("history")' = InMemory("history")  BY DEF InMemory
<1>8. HistoryNoLoss'  BY <1>0, <1>5, <1>6, <1>7 DEF HistoryNoLoss, NoLoss, Kept
<1>9. OnlyDuplicatesDiscarded'  BY <1>0 DEF OnlyDuplicatesDiscarded
<1> QED  BY <1>1, <1>3, <1>4, <1>8, <1>9

\* A handle that is opened is registered under a new number, with no rows yet.
LEMMA OpenStep ==
    ASSUME DiskInv, HandlesCounted', NEW w \in Writers, Open(w)
    PROVE  DiskInv'
<1> DEFINE s == [pc |-> "open", dst |-> "database", handle |-> handleid + 1, rows |-> <<>>]
<1>0. DiskType /\ Registered  BY DEF DiskInv
<1>1. TypeOK /\ DiskShape  BY <1>0 DEF DiskType
<1>2. Dst(state) = "database"  BY <1>1, DiskUses
<1>3. /\ wr' = [wr EXCEPT ![w] = s] /\ handleid' = handleid + 1 /\ wr[w].pc = "idle"
      /\ history_handleids' = IF WriterTable[w] = "history"
                              THEN history_handleids \cup {handleid + 1} ELSE history_handleids
      /\ UNCHANGED <<mode, state, mem, lastid_sent, lastid_db, idVars, dbVars,
                     up, server, histVars>>
  BY <1>2 DEF Open
<1>4. wr \in [Writers -> WriterStates(Seq(Row))] /\ handleid \in Nat
      /\ history_handleids \in SUBSET (1..handleid)
  BY <1>1 DEF TypeOK
<1>5. s \in WriterStates(Seq(Row))  BY <1>4 DEF WriterStates
<1>6. wr' \in [Writers -> WriterStates(Seq(Row))]  BY <1>3, <1>4, <1>5
<1>7. handleid' \in Nat /\ history_handleids' \in SUBSET (1..handleid')  BY <1>3, <1>4
<1>8. TypeOK'
  BY <1>1, <1>3, <1>6, <1>7, CountNat DEF TypeOK, idVars, dbVars, histVars
<1>9. wr'[w] = s /\ \A v \in Writers \ {w} : wr'[v] = wr[v]  BY <1>3, <1>4
<1>10. DiskShape'
  BY <1>1, <1>3, <1>9 DEF DiskShape, dbVars
<1>11. /\ \A v \in Writers : Inserting(v)' = Inserting(v)
       /\ \A v \in Writers : Inserting(v) # {} => wr'[v].handle = wr[v].handle
  BY <1>3, <1>9 DEF Inserting
<1>12. /\ HRows' = HRows /\ HSent' = HSent /\ HLast' = HLast /\ UNCHANGED <<up, server, dropped, mem>>
       /\ idcache'["history"] = idcache["history"] /\ written'["history"] = written["history"]
  BY <1>3 DEF HRows, HSent, HLast, CachedLast, idVars, dbVars, histVars
<1>13. RowsInv' /\ PacketInv' /\ FetchInv' /\ HistoryNoLoss' /\ OnlyDuplicatesDiscarded'
  BY <1>11, <1>12, FrameStep
<1>14. Registered'
  <2>1. \A v \in Writers : wr[v].handle <= handleid /\ wr[v].handle \in Nat
    BY <1>0, <1>4 DEF Registered, WriterStates
  <2>2. \A v \in Writers : wr[v].handle # handleid + 1 /\ wr[v].handle <= handleid + 1
    BY <1>4, <2>1
  <2>3. wr'[w].handle = handleid + 1 /\ wr'[w].pc = "open"  BY <1>9
  <2>4. handleid + 1 # 0 /\ handleid + 1 <= handleid + 1  BY <1>4
  <2>5. \A v \in Writers : /\ wr'[v].pc = "idle" => wr'[v].handle = 0
                           /\ wr'[v].handle <= handleid'
    BY <1>0, <1>3, <1>9, <2>2, <2>3, <2>4 DEF Registered
  <2>6. ASSUME NEW v \in Writers, WriterTable[v] = "history", wr'[v].pc # "idle"
        PROVE  /\ wr'[v].handle \in history_handleids' /\ wr'[v].handle # 0
               /\ \A u \in Writers \ {v} : wr'[u].handle # wr'[v].handle
    <3>1. CASE v = w  BY <1>3, <1>9, <2>2, <2>3, <2>4, <2>6, <3>1
    <3>2. CASE v # w  BY <1>0, <1>3, <1>9, <2>2, <2>3, <2>6, <3>2 DEF Registered
    <3> QED  BY <3>1, <3>2
  <2> QED  BY <2>5, <2>6 DEF Registered
<1> QED  BY <1>8, <1>10, <1>13, <1>14 DEF DiskInv, DiskType

\* An autoregistration row goes to the database.
LEMMA WriteHostStep ==
    ASSUME DiskInv, HandlesCounted', NEW w \in Writers, WriteHost(w)
    PROVE  DiskInv'
<1>0. DiskType /\ Registered  BY DEF DiskInv
<1>1. TypeOK /\ DiskShape  BY <1>0 DEF DiskType
<1>2. Dst(state) = "database" /\ state = "database"  BY <1>1, DiskUses DEF DiskShape
<1>3. /\ StoreInDatabase(w, "alloc", <<>>) /\ WriterTable[w] = "autoreg" /\ wr[w].pc = "idle"
      /\ UNCHANGED <<mode, lastid_sent, handleid, idVars, up, server, stopping, restarts, written>>
  BY <1>2 DEF WriteHost, StoreInMemory, StoreTooOld, StoreOverflow, TooOld, idVars
<1>4. /\ wr' = [wr EXCEPT ![w].pc = "alloc", ![w].rows = <<>>]
      /\ UNCHANGED <<history_handleids, state, mem, lastid_db, dbVars, dropped>>
  BY <1>3 DEF StoreInDatabase, ToDatabase
<1>5. wr \in [Writers -> WriterStates(Seq(Row))]  BY <1>1 DEF TypeOK
<1>e. <<>> \in Seq(Row)  OBVIOUS
<1>6. /\ wr' \in [Writers -> WriterStates(Seq(Row))]
      /\ wr'[w].pc = "alloc" /\ wr'[w].dst = wr[w].dst /\ wr'[w].handle = wr[w].handle
      /\ \A v \in Writers \ {w} : wr'[v] = wr[v]
  BY <1>4, <1>5, <1>e, WriterTyped
<1>7. TypeOK'
  BY <1>1, <1>3, <1>4, <1>6, CountNat DEF TypeOK, idVars, dbVars
<1>8. /\ wr'[w].pc = "alloc" /\ wr'[w].handle = wr[w].handle /\ wr'[w].dst = wr[w].dst
      /\ \A v \in Writers \ {w} : wr'[v] = wr[v]
  BY <1>6
<1>9. DiskShape'  BY <1>1, <1>3, <1>4, <1>8 DEF DiskShape, dbVars
<1>10. /\ \A v \in Writers : Inserting(v)' = Inserting(v)
       /\ \A v \in Writers : Inserting(v) # {} => wr'[v].handle = wr[v].handle
  BY <1>3, <1>8 DEF Inserting
<1>11. /\ HRows' = HRows /\ HSent' = HSent /\ HLast' = HLast /\ UNCHANGED <<up, server, dropped, mem>>
       /\ idcache'["history"] = idcache["history"] /\ written'["history"] = written["history"]
  BY <1>3, <1>4 DEF HRows, HSent, HLast, CachedLast, idVars, dbVars
<1>12. RowsInv' /\ PacketInv' /\ FetchInv' /\ HistoryNoLoss' /\ OnlyDuplicatesDiscarded'
  BY <1>10, <1>11, FrameStep
<1>13. Registered'
  <2>1. \A v \in Writers : wr'[v].handle = wr[v].handle  BY <1>8
  <2>2. handleid' = handleid /\ history_handleids' = history_handleids  BY <1>3, <1>4
  <2>3. \A v \in Writers : WriterTable[v] = "history" => v # w /\ wr'[v].pc = wr[v].pc
    BY <1>3, <1>8
  <2>4. \A v \in Writers : wr'[v].pc = "idle" => wr[v].pc = "idle"  BY <1>3, <1>8
  <2> QED  BY <1>0, <2>1, <2>2, <2>3, <2>4 DEF Registered
<1> QED  BY <1>7, <1>9, <1>12, <1>13 DEF DiskInv, DiskType

\* A handle whose rows are committed is closed and its number is given up.
LEMMA FinishStep ==
    ASSUME DiskInv, HandlesCounted', NEW w \in Writers, Finish(w)
    PROVE  DiskInv'
<1>0. DiskType /\ Registered  BY DEF DiskInv
<1>1. TypeOK /\ DiskShape  BY <1>0 DEF DiskType
<1> DEFINE t == WriterTable[w]
           lastid == MaxId(ToSet(wr[w].rows))
<1>2. /\ wr[w].pc = "committed" /\ wr' = [wr EXCEPT ![w] = Closed]
      /\ lastid_db' = [lastid_db EXCEPT ![t] = IF @ < lastid THEN lastid ELSE @]
      /\ history_handleids' = history_handleids \ {wr[w].handle}
      /\ UNCHANGED <<mode, state, mem, lastid_sent, handleid, idVars, dbVars,
                     up, server, histVars>>
  BY DEF Finish, Deregister
<1>3. wr \in [Writers -> WriterStates(Seq(Row))] /\ lastid_db \in [Tables -> Nat]
      /\ history_handleids \in SUBSET (1..handleid)
  BY <1>1 DEF TypeOK
<1>4. t \in Tables  BY BufferAssumption DEF BufferAssumption
<1>5. lastid \in Nat
  <2>1. wr[w].rows \in Seq(Row)  BY <1>3 DEF WriterStates
  <2> QED  BY <2>1, ToSetFacts, MaxIdFacts
<1> HIDE DEF lastid, t
<1>6. lastid_db' \in [Tables -> Nat]  BY <1>2, <1>3, <1>4, <1>5
<1>7. Closed \in WriterStates(Seq(Row))  BY DEF Closed, WriterStates
<1>8. wr' \in [Writers -> WriterStates(Seq(Row))]  BY <1>2, <1>3, <1>7
<1>9. history_handleids' \in SUBSET (1..handleid')  BY <1>2, <1>3
<1>10. TypeOK'
  BY <1>1, <1>2, <1>6, <1>8, <1>9, CountNat DEF TypeOK, idVars, dbVars, histVars
<1>11. /\ wr'[w].pc = "idle" /\ wr'[w].handle = 0 /\ wr'[w].dst = "database"
       /\ \A v \in Writers \ {w} : wr'[v] = wr[v]
  BY <1>2, <1>3 DEF Closed
<1>12. DiskShape'  BY <1>1, <1>2, <1>11 DEF DiskShape, dbVars
<1>13. /\ \A v \in Writers : Inserting(v)' = Inserting(v)
       /\ \A v \in Writers : Inserting(v) # {} => wr'[v].handle = wr[v].handle
  BY <1>2, <1>11 DEF Inserting
<1>14. /\ HRows' = HRows /\ HSent' = HSent /\ HLast' = HLast /\ UNCHANGED <<up, server, dropped, mem>>
       /\ idcache'["history"] = idcache["history"] /\ written'["history"] = written["history"]
  BY <1>2 DEF HRows, HSent, HLast, CachedLast, idVars, dbVars, histVars
<1>15. RowsInv' /\ PacketInv' /\ FetchInv' /\ HistoryNoLoss' /\ OnlyDuplicatesDiscarded'
  BY <1>13, <1>14, FrameStep
<1>16. Registered'
  <2>1. 0 <= handleid  BY <1>1 DEF TypeOK
  <2> QED  BY <1>0, <1>2, <1>11, <2>1 DEF Registered
<1> QED  BY <1>10, <1>12, <1>15, <1>16 DEF DiskInv, DiskType

\* The last id given out is a natural number.
LEMMA CachedNat ==
    ASSUME DiskType, NEW t \in Tables
    PROVE  CachedLast(t) \in Nat
<1>1. db[t] \in SUBSET Row /\ IsFiniteSet(db[t]) /\ idcache[t] \in Nat
  BY DEF DiskType, TypeOK, DiskShape
<1>2. MaxId(db[t]) \in Nat  BY <1>1, MaxIdFacts
<1> QED  BY <1>1, <1>2 DEF CachedLast

\* New ids are given out, behind everything the uploader and the server know of.
LEMMA AllocIdsStep ==
    ASSUME DiskInv, HandlesCounted', NEW w \in Writers, NEW n \in Nat, AllocIds(w, n)
    PROVE  DiskInv'
<1> DEFINE t == WriterTable[w]
           rows == NewRows(t, CachedLast(t), n, wr[w].handle)
<1>0. /\ DiskType /\ RowsInv /\ PacketInv /\ FetchInv /\ Registered /\ HistoryNoLoss
      /\ OnlyDuplicatesDiscarded
  BY DEF DiskInv
<1>1. TypeOK /\ DiskShape  BY <1>0 DEF DiskType
<1>2. /\ wr[w].pc \in {"open", "alloc"}
      /\ idcache' = IF n = 0 THEN idcache ELSE [idcache EXCEPT ![t] = CachedLast(t) + n]
      /\ written' = [written EXCEPT ![t] = @ + n]
      /\ UNCHANGED <<pbVars, dc_ids, dbVars, up, server, stopping, dropped, restarts>>
  BY DEF AllocIds, TakeCachedIds
<1>3. wr' = [wr EXCEPT ![w].pc = "insert", ![w].rows = rows]
  BY Zenon DEF AllocIds
<1>4. t \in Tables  BY BufferAssumption DEF BufferAssumption
<1>5. /\ wr \in [Writers -> WriterStates(Seq(Row))] /\ written \in [Tables -> Nat]
      /\ idcache \in [Tables -> Nat]
  BY <1>1 DEF TypeOK
<1>6. CachedLast(t) \in Nat /\ wr[w].handle \in Nat /\ written[t] \in Nat
  BY <1>0, <1>4, <1>5, CachedNat DEF WriterStates
<1>7. /\ rows \in Seq(Row)
      /\ \A r \in ToSet(rows) : r.id > CachedLast(t) /\ r.id <= CachedLast(t) + n
      /\ \A v \in Nat : written[t] < v /\ v <= written[t] + n => v \in Vals(ToSet(rows))
  BY <1>4, <1>6, NewRowsFacts
<1> HIDE DEF rows
<1>8. /\ wr' \in [Writers -> WriterStates(Seq(Row))]
      /\ wr'[w].pc = "insert" /\ wr'[w].dst = wr[w].dst /\ wr'[w].handle = wr[w].handle
      /\ wr'[w].rows = rows
      /\ \A v \in Writers \ {w} : wr'[v] = wr[v]
  BY <1>3, <1>5, <1>7, WriterTyped
<1>9. idcache' \in [Tables -> Nat] /\ written' \in [Tables -> Nat]
  BY <1>2, <1>4, <1>5, <1>6
<1>10. TypeOK'
  BY <1>1, <1>2, <1>8, <1>9, CountNat DEF TypeOK, pbVars, dbVars
<1>11. DiskShape'  BY <1>1, <1>2, <1>8 DEF DiskShape, pbVars, dbVars
<1>12. Registered'
  <2>1. \A v \in Writers : wr'[v].handle = wr[v].handle /\ (wr'[v].pc = "idle" <=> wr[v].pc = "idle")
    BY <1>2, <1>8
  <2>2. UNCHANGED <<handleid, history_handleids>>  BY <1>2 DEF pbVars
  <2> QED  BY <1>0, <2>1, <2>2 DEF Registered
<1>13. CASE t # "history"
  <2>1. /\ \A v \in Writers : Inserting(v)' = Inserting(v)
        /\ \A v \in Writers : Inserting(v) # {} => wr'[v].handle = wr[v].handle
    BY <1>8, <1>13 DEF Inserting
  <2>2. idcache'["history"] = idcache["history"] /\ written'["history"] = written["history"]
    BY <1>2, <1>5, <1>13, HistoryTable
  <2>3. HRows' = HRows /\ HSent' = HSent /\ HLast' = HLast /\ UNCHANGED <<up, server, dropped, mem>>
    BY <1>2, <2>2 DEF HRows, HSent, HLast, CachedLast, pbVars, dbVars
  <2> HIDE DEF t
  <2>4. RowsInv' /\ PacketInv' /\ FetchInv' /\ HistoryNoLoss' /\ OnlyDuplicatesDiscarded'
    BY <2>1, <2>2, <2>3, FrameStep
  <2> QED  BY <1>10, <1>11, <1>12, <2>4 DEF DiskInv, DiskType
<1>14. CASE t = "history"
  <2>t. /\ HRows \in SUBSET Row /\ HSent \in Nat /\ HLast \in Nat
        /\ up.cur \in Nat /\ up.gapid \in Nat /\ HPkt \in SUBSET Row
        /\ server.last \in Nat /\ idcache["history"] \in Nat
        /\ \A v \in Writers : Inserting(v) \in SUBSET Row
        /\ \A r \in Row : r.id \in Nat
    BY <1>0, HistoryTypes
  <2>1. Inserting(w) = {} /\ Inserting(w)' = ToSet(rows)
    BY <1>2, <1>8, <1>14 DEF Inserting
  <2>2. \A v \in Writers \ {w} : Inserting(v)' = Inserting(v)  BY <1>8 DEF Inserting
  <2>3. CachedLast(t) = HLast  BY <1>14 DEF HLast
  <2>4. \A r \in ToSet(rows) : r.id \in Nat /\ r.id > HLast /\ r.id <= HLast + n
    <3>1. ToSet(rows) \in SUBSET Row  BY <1>7, ToSetFacts
    <3> QED  BY <1>7, <2>3, <2>t, <3>1
  <2>5. ToSet(rows) # {} => n # 0  BY <2>4, <2>t
  <2>6. idcache'["history"] = IF n = 0 THEN idcache["history"] ELSE HLast + n
    BY <1>2, <1>5, <1>14, <2>3, HistoryTable
  <2>7. HRows' = HRows /\ HSent' = HSent /\ HPkt' = HPkt /\ (AtHistory' <=> AtHistory)
    BY <1>2 DEF HRows, HSent, HPkt, AtHistory, dbVars
  <2>8. HLast' = (IF idcache'["history"] = 0 THEN MaxId(HRows) ELSE idcache'["history"])
        /\ HLast = (IF idcache["history"] = 0 THEN MaxId(HRows) ELSE idcache["history"])
    BY <2>7 DEF HLast, CachedLast, HRows
  <2>9. HLast' = HLast + n  BY <2>6, <2>8, <2>t
  <2>10. idcache["history"] <= idcache'["history"]  BY <2>6, <2>8, <2>t
  <2>11. HLast <= HLast'  BY <2>9, <2>t
  <2>12. server' = server /\ up' = up  BY <1>2
  <2>13. \A x \in HRows : x.id <= HLast /\ x.id \in Nat  BY <1>0, <2>t DEF RowsInv
  <2> HIDE DEF t
  <2>14. RowsInv'
    <3>1. (\A x \in HRows : x.id <= HLast') /\ HSent <= HLast' /\ server.last <= HLast'
      <4>1. HSent <= HLast /\ server.last <= HLast  BY <1>0 DEF RowsInv
      <4>2. HLast' \in Nat  BY <2>9, <2>t
      <4> QED  BY <2>11, <2>13, <2>t, <4>1, <4>2
    <3>2. ASSUME NEW r \in ToSet(rows)
          PROVE  /\ r.id <= idcache'["history"] /\ r.id > HSent /\ r.id > server.last
                 /\ \A x \in HRows : x.id # r.id
                 /\ \A v \in Writers \ {w} : \A q \in Inserting(v) : q.id # r.id
      <4>1. r.id \in Nat /\ r.id > HLast /\ r.id <= HLast + n /\ n # 0  BY <2>4, <2>5
      <4>2. r.id <= idcache'["history"]  BY <2>6, <4>1
      <4>3. HSent <= HLast /\ server.last <= HLast  BY <1>0 DEF RowsInv
      <4>4. r.id > HSent /\ r.id > server.last  BY <2>t, <4>1, <4>3
      <4>5. \A x \in HRows : x.id # r.id  BY <2>13, <2>t, <4>1
      <4>6. ASSUME NEW v \in Writers \ {w}, NEW q \in Inserting(v) PROVE q.id # r.id
        <5>1. q.id <= idcache["history"] /\ q.id > HSent /\ q.id \in Nat
          BY <1>0, <2>t DEF RowsInv
        <5>2. idcache["history"] # 0  BY <2>t, <5>1
        <5>3. q.id <= HLast  BY <2>8, <5>1, <5>2
        <5> QED  BY <2>t, <4>1, <5>1, <5>3
      <4> QED  BY <4>2, <4>4, <4>5, <4>6
    <3>3. ASSUME NEW v \in Writers, NEW r \in Inserting(v)'
          PROVE  /\ r.id <= idcache'["history"] /\ r.id > HSent /\ r.id > server.last
                 /\ \A x \in HRows : x.id # r.id
                 /\ \A u \in Writers \ {v} : \A q \in Inserting(u)' : q.id # r.id
      <4>1. CASE v = w
        <5>1. r \in ToSet(rows)  BY <2>1, <3>3, <4>1
        <5> QED  BY <2>2, <3>2, <4>1, <5>1
      <4>2. CASE v # w
        <5>1. v \in Writers \ {w} /\ r \in Inserting(v)  BY <2>2, <3>3, <4>2
        <5>2. /\ r.id <= idcache["history"] /\ r.id > HSent /\ r.id > server.last
              /\ \A x \in HRows : x.id # r.id
              /\ \A u \in Writers \ {v} : \A q \in Inserting(u) : q.id # r.id
          BY <1>0, <5>1 DEF RowsInv
        <5>3. r.id <= idcache'["history"]
          <6>1. r.id \in Nat /\ idcache'["history"] \in Nat
            BY <2>t, <5>1, <1>9, HistoryTable
          <6> QED  BY <2>10, <2>t, <5>2, <6>1
        <5>4. \A q \in ToSet(rows) : r.id # q.id  BY <3>2, <5>1
        <5> QED  BY <2>1, <2>2, <5>2, <5>3, <5>4
      <4> QED  BY <4>1, <4>2
    <3> QED  BY <1>0, <2>7, <2>12, <3>1, <3>3 DEF RowsInv
  <2>15. PacketInv'
    <3>1. ASSUME NEW q \in HPkt
          PROVE  q.id <= HLast' /\ \A v \in Writers : \A r \in Inserting(v)' : q.id < r.id
      <4>1. q.id <= HLast /\ q.id \in Nat  BY <1>0, <2>t DEF PacketInv
      <4>2. q.id <= HLast'  BY <2>9, <2>t, <4>1
      <4>3. \A r \in ToSet(rows) : q.id < r.id  BY <2>4, <2>t, <4>1
      <4>4. \A v \in Writers \ {w} : \A r \in Inserting(v)' : q.id < r.id
        BY <1>0, <2>2 DEF PacketInv
      <4> QED  BY <2>1, <4>2, <4>3, <4>4
    <3> QED  BY <1>0, <2>7, <2>12, <3>1 DEF PacketInv
  <2>16. FetchInv'
    <3> SUFFICES ASSUME AtHistory PROVE FetchInv'  BY <2>7 DEF FetchInv
    <3>1. HSent <= up.cur /\ up.cur <= HLast /\ up.gapid <= HLast  BY <1>0 DEF FetchInv
    <3>2. up.cur <= HLast' /\ up.gapid <= HLast'  BY <2>9, <2>t, <3>1
    <3>3. ASSUME NEW v \in Writers, NEW r \in Inserting(v)'
          PROVE  /\ up.cur < r.id
                 /\ up.pc = "select" => up.gapid <= r.id
                 /\ up.pc = "wait" /\ r.id < up.gapid => wr'[v].handle <= up.waitid
      <4>1. CASE v = w
        <5>1. r \in ToSet(rows)  BY <2>1, <3>3, <4>1
        <5>2. r.id \in Nat /\ r.id > HLast  BY <2>4, <5>1
        <5>3. up.cur < r.id /\ up.gapid <= r.id /\ ~(r.id < up.gapid)  BY <2>t, <3>1, <5>2
        <5> QED  BY <5>3
      <4>2. CASE v # w
        <5>1. v \in Writers \ {w} /\ r \in Inserting(v) /\ wr'[v] = wr[v]
          BY <1>8, <2>2, <3>3, <4>2
        <5> QED  BY <1>0, <5>1 DEF FetchInv
      <4> QED  BY <4>1, <4>2
    <3> QED  BY <1>0, <2>7, <2>12, <3>1, <3>2, <3>3 DEF FetchInv
  <2>17. HistoryNoLoss'
    <3>1. \A v : v \in InFlight("history") <=> \E u \in Writers : v \in Vals(Inserting(u))
      BY DEF InFlight, Inserting, Vals
    <3>2. \A v : v \in InFlight("history")' <=> \E u \in Writers : v \in Vals(Inserting(u)')
      BY DEF InFlight, Inserting, Vals
    <3>3. InFlight("history") \in SUBSET (InFlight("history")')
      <4> SUFFICES ASSUME NEW v \in InFlight("history") PROVE v \in InFlight("history")'
        OBVIOUS
      <4>1. PICK u \in Writers : v \in Vals(Inserting(u))  BY <3>1
      <4>2. u # w  BY <2>1, <4>1 DEF Vals
      <4> QED  BY <2>2, <3>2, <4>1, <4>2
    <3>4. Vals(ToSet(rows)) \in SUBSET (InFlight("history")')
      BY <2>1, <3>2
    <3>5. /\ InMemory("history")' = InMemory("history") /\ dropped' = dropped
          /\ InDatabase("history")' = InDatabase("history")
      BY <1>2 DEF InMemory, InDatabase, pbVars, dbVars
    <3>6. written'["history"] = written["history"] + n /\ written["history"] \in Nat
      BY <1>2, <1>5, <1>14, HistoryTable DEF t
    <3>7. ASSUME NEW v \in 1..written'["history"] PROVE v \in Kept("history")'
      <4>1. CASE v <= written["history"]
        <5>1. v \in 1..written["history"]  BY <3>6, <4>1
        <5>2. v \in Kept("history")  BY <1>0, <5>1 DEF HistoryNoLoss, NoLoss
        <5> QED  BY <2>12, <3>3, <3>5, <5>2 DEF Kept
      <4>2. CASE ~(v <= written["history"])
        <5>1. v \in Nat /\ written["history"] < v /\ v <= written["history"] + n
          BY <3>6, <4>2
        <5>2. v \in Vals(ToSet(rows))  BY <1>7, <1>14, <5>1 DEF t
        <5>3. v \in InFlight("history")'  BY <3>4, <5>2
        <5> QED  BY <5>3 DEF Kept
      <4> QED  BY <4>1, <4>2
    <3> QED  BY <3>7 DEF HistoryNoLoss, NoLoss
  <2>18. OnlyDuplicatesDiscarded'  BY <1>0, <2>12 DEF OnlyDuplicatesDiscarded
  <2> QED  BY <1>10, <1>11, <1>12, <2>14, <2>15, <2>16, <2>17, <2>18 DEF DiskInv, DiskType
<1> QED  BY <1>13, <1>14

\* Rows appear in the table, behind everything that was read from it.
LEMMA CommitStep ==
    ASSUME DiskInv, HandlesCounted', NEW w \in Writers, Commit(w)
    PROVE  DiskInv'
<1> DEFINE new == [t \in Tables |-> IF t = WriterTable[w] THEN ToSet(wr[w].rows) ELSE {}]
<1>0. /\ DiskType /\ RowsInv /\ PacketInv /\ FetchInv /\ Registered /\ HistoryNoLoss
      /\ OnlyDuplicatesDiscarded
  BY DEF DiskInv
<1>t. /\ HRows \in SUBSET Row /\ HSent \in Nat /\ HLast \in Nat
      /\ up.cur \in Nat /\ up.gapid \in Nat /\ HPkt \in SUBSET Row
      /\ server.last \in Nat /\ idcache["history"] \in Nat
      /\ \A v \in Writers : Inserting(v) \in SUBSET Row
      /\ \A r \in Row : r.id \in Nat
  BY <1>0, HistoryTypes
<1>1. TypeOK /\ DiskShape  BY <1>0 DEF DiskType
<1>2. /\ wr[w].pc = "insert" /\ db' = Inserted(db, new)
      /\ wr' = [wr EXCEPT ![w].pc = "committed"]
      /\ UNCHANGED <<pbVars, idVars, ids, up, server, histVars>>
  BY DEF Commit
<1>3. /\ wr \in [Writers -> WriterStates(Seq(Row))] /\ db \in [Tables -> SUBSET Row]
      /\ WriterTable[w] \in Tables
  BY <1>1, BufferAssumption DEF TypeOK, BufferAssumption
<1>4. IsFiniteSet(ToSet(wr[w].rows)) /\ ToSet(wr[w].rows) \in SUBSET Row
  <2>1. wr[w].rows \in Seq(Row)  BY <1>3 DEF WriterStates
  <2> QED  BY <2>1, ToSetFacts
<1>5. \A t \in Tables : IsFiniteSet(new[t]) /\ new[t] \in SUBSET Row
  BY <1>4, FS_EmptySet
<1>6. db' \in [Tables -> SUBSET Row] /\ \A t \in Tables : IsFiniteSet(db'[t])
  <2> HIDE DEF new
  <2>1. CASE Conflict(db, new)  BY <1>1, <1>2, <1>3, <2>1 DEF Inserted, DiskShape
  <2>2. CASE ~Conflict(db, new)
    <3>1. db' = [t \in Tables |-> db[t] \cup new[t]]  BY <1>2, <2>2 DEF Inserted
    <3>2. \A t \in Tables : IsFiniteSet(db[t] \cup new[t])
      BY <1>1, <1>5, FS_Union DEF DiskShape
    <3> QED  BY <1>3, <1>5, <3>1, <3>2
  <2> QED  BY <2>1, <2>2
<1>7. HRows' = HRows \cup Inserting(w)
  <2>1. CASE WriterTable[w] = "history"
    <3>1. Inserting(w) = ToSet(wr[w].rows)  BY <1>2, <2>1 DEF Inserting
    <3>2. new["history"] = Inserting(w)  BY <2>1, <3>1, HistoryTable
    <3>3. \A t \in Tables \ {"history"} : new[t] = {}  BY <2>1
    <3>4. \A r \in Inserting(w), x \in HRows : x.id # r.id  BY <1>0 DEF RowsInv
    <3>5. Ids(HRows) \cap Ids(Inserting(w)) = {}  BY <3>4 DEF Ids
    <3> HIDE DEF new
    <3>6. ~Conflict(db, new)  BY <3>2, <3>3, <3>5 DEF Conflict, HRows, Ids
    <3> QED  BY <1>2, <3>2, <3>6, HistoryTable DEF Inserted, HRows
  <2>2. CASE WriterTable[w] # "history"
    <3>1. Inserting(w) = {}  BY <2>2 DEF Inserting
    <3>2. new["history"] = {}  BY <2>2, HistoryTable
    <3> HIDE DEF new
    <3> QED  BY <1>2, <3>1, <3>2, HistoryTable DEF Inserted, HRows
  <2> QED  BY <2>1, <2>2
<1> HIDE DEF new
<1>8. wr' \in [Writers -> WriterStates(Seq(Row))]  BY <1>2, <1>3 DEF WriterStates
<1>9. /\ wr'[w].pc = "committed" /\ wr'[w].dst = wr[w].dst /\ wr'[w].handle = wr[w].handle
      /\ \A v \in Writers \ {w} : wr'[v] = wr[v]
  BY <1>2, <1>3 DEF WriterStates
<1>10. TypeOK'
  BY <1>1, <1>2, <1>6, <1>8, CountNat DEF TypeOK, pbVars, idVars, histVars
<1>11. DiskShape'  BY <1>1, <1>2, <1>6, <1>9 DEF DiskShape, pbVars
<1>12. Inserting(w)' = {} /\ \A v \in Writers \ {w} : Inserting(v)' = Inserting(v)
  BY <1>9 DEF Inserting
<1>13. HSent' = HSent /\ HPkt' = HPkt /\ (AtHistory' <=> AtHistory)
       /\ UNCHANGED <<idcache, server, up, dropped, written, mem>>
  BY <1>2 DEF HSent, HPkt, AtHistory, pbVars, idVars, histVars
<1>14. \A r \in Inserting(w) :
         /\ r.id \in Nat /\ r.id <= idcache["history"] /\ r.id > HSent /\ r.id > server.last
         /\ \A v \in Writers \ {w} : \A q \in Inserting(v) : q.id # r.id
  BY <1>0, <1>t DEF RowsInv
<1>15. HLast' = HLast /\ \A r \in Inserting(w) : r.id <= HLast
  <2>1. CASE Inserting(w) = {}
    <3>1. HRows' = HRows  BY <1>7, <2>1
    <3> QED  BY <1>13, <2>1, <3>1 DEF HLast, CachedLast, HRows
  <2>2. CASE Inserting(w) # {}
    <3>1. idcache["history"] # 0  BY <1>14, <1>t, <2>2
    <3> QED  BY <1>13, <1>14, <3>1 DEF HLast, CachedLast
  <2> QED  BY <2>1, <2>2
<1>16. RowsInv'
  <2>1. \A x \in HRows' : x.id <= HLast'  BY <1>0, <1>7, <1>15 DEF RowsInv
  <2>2. ASSUME NEW x \in HRows', HSent < x.id, x.id <= server.last
        PROVE  x.val \in server.session
    <3>1. x \notin Inserting(w)  BY <1>14, <1>t, <2>2
    <3> QED  BY <1>0, <1>7, <2>2, <3>1 DEF RowsInv
  <2>3. ASSUME NEW v \in Writers, NEW r \in Inserting(v)'
        PROVE  /\ r.id <= idcache["history"] /\ r.id > HSent /\ r.id > server.last
               /\ \A x \in HRows' : x.id # r.id
               /\ \A u \in Writers \ {v} : \A q \in Inserting(u)' : q.id # r.id
    <3>1. v # w /\ r \in Inserting(v)  BY <1>12, <2>3
    <3>2. /\ r.id <= idcache["history"] /\ r.id > HSent /\ r.id > server.last
          /\ \A x \in HRows : x.id # r.id
          /\ \A u \in Writers \ {v} : \A q \in Inserting(u) : q.id # r.id
      BY <1>0, <3>1 DEF RowsInv
    <3>3. \A x \in HRows' : x.id # r.id  BY <1>7, <3>1, <3>2
    <3>4. \A u \in Writers \ {v} : \A q \in Inserting(u)' : q.id # r.id
      BY <1>12, <3>2
    <3> QED  BY <3>2, <3>3, <3>4
  <2> QED  BY <1>0, <1>13, <1>15, <2>1, <2>2, <2>3 DEF RowsInv
<1>17. PacketInv'
  <2>1. ASSUME NEW q \in HPkt, NEW x \in HRows', HSent < x.id, x.id <= q.id PROVE x \in HPkt
    <3>1. \A r \in Inserting(w) : q.id < r.id  BY <1>0 DEF PacketInv
    <3>2. x \notin Inserting(w)  BY <1>14, <1>t, <2>1, <3>1
    <3> QED  BY <1>0, <1>7, <2>1, <3>2 DEF PacketInv
  <2>2. ASSUME NEW q \in HPkt, NEW v \in Writers, NEW r \in Inserting(v)' PROVE q.id < r.id
    BY <1>0, <1>12, <2>2 DEF PacketInv
  <2> QED  BY <1>0, <1>13, <1>15, <2>1, <2>2 DEF PacketInv
<1>18. FetchInv'
  <2> SUFFICES ASSUME AtHistory PROVE FetchInv'  BY <1>13 DEF FetchInv
  <2>1. ASSUME NEW x \in HRows', HSent < x.id, x.id <= up.cur PROVE x \in HPkt \cup up.rows
    <3>1. \A r \in Inserting(w) : up.cur < r.id  BY <1>0 DEF FetchInv
    <3>2. x \notin Inserting(w)  BY <1>14, <1>t, <2>1, <3>1
    <3> QED  BY <1>0, <1>7, <2>1, <3>2 DEF FetchInv
  <2>2. ASSUME NEW v \in Writers, NEW r \in Inserting(v)'
        PROVE  /\ up.cur < r.id
               /\ up.pc = "select" => up.gapid <= r.id
               /\ up.pc = "wait" /\ r.id < up.gapid => wr'[v].handle <= up.waitid
    <3>1. v # w /\ r \in Inserting(v) /\ wr'[v] = wr[v]  BY <1>9, <1>12, <2>2
    <3> QED  BY <1>0, <3>1 DEF FetchInv
  <2> QED  BY <1>0, <1>13, <1>15, <2>1, <2>2 DEF FetchInv
<1>19. Registered'
  <2>1. \A v \in Writers : wr'[v].handle = wr[v].handle /\ (wr'[v].pc = "idle" <=> wr[v].pc = "idle")
    BY <1>2, <1>9
  <2>2. UNCHANGED <<handleid, history_handleids>>  BY <1>2 DEF pbVars
  <2> QED  BY <1>0, <2>1, <2>2 DEF Registered
<1>20. HistoryNoLoss'
  <2>1. \A v : v \in InFlight("history") <=> \E u \in Writers : v \in Vals(Inserting(u))
    BY DEF InFlight, Inserting, Vals
  <2>2. \A v : v \in InFlight("history")' <=> \E u \in Writers : v \in Vals(Inserting(u)')
    BY DEF InFlight, Inserting, Vals
  <2>3. \A v : v \in InDatabase("history") <=> \E x \in HRows : x.id > HSent /\ x.val = v
    BY DEF InDatabase, HRows, HSent, Vals
  <2>4. \A v : v \in InDatabase("history")' <=> \E x \in HRows' : x.id > HSent /\ x.val = v
    BY <1>13 DEF InDatabase, HRows, HSent, Vals
  <2>5. InDatabase("history") \in SUBSET (InDatabase("history")')
    BY <1>7, <2>3, <2>4
  <2>6. Vals(Inserting(w)) \in SUBSET (InDatabase("history")')
    BY <1>7, <1>14, <2>4 DEF Vals
  <2>7. InFlight("history") \in SUBSET (InFlight("history")' \cup InDatabase("history")')
    BY <1>12, <2>1, <2>2, <2>6
  <2>8. InMemory("history")' = InMemory("history")  BY <1>13 DEF InMemory
  <2> QED  BY <1>0, <1>13, <2>5, <2>7, <2>8 DEF HistoryNoLoss, NoLoss, Kept
<1>21. OnlyDuplicatesDiscarded'  BY <1>0, <1>13 DEF OnlyDuplicatesDiscarded
<1> QED  BY <1>10, <1>11, <1>16, <1>17, <1>18, <1>19, <1>20, <1>21 DEF DiskInv, DiskType

----------------------------------------------------------------------------
(* Housekeeper, shutdown, crash. *)

\* Rows the server has, or that are too old, go; the one with the largest id stays.
LEMMA HousekeepStep ==
    ASSUME DiskInv, NEW t \in Tables, Housekeep(t)
    PROVE  DiskInv'
<1> DEFINE old == {r \in db[t] : r.id < MaxId(db[t])}
           sent == {r \in old : r.id <= ids[t]}
<1>0. /\ DiskType /\ RowsInv /\ PacketInv /\ FetchInv /\ Registered /\ HistoryNoLoss
      /\ OnlyDuplicatesDiscarded
  BY DEF DiskInv
<1>1. TypeOK /\ DiskShape  BY <1>0 DEF DiskType
<1>t. /\ HRows \in SUBSET Row /\ IsFiniteSet(HRows) /\ HSent \in Nat
      /\ \A r \in Row : r.id \in Nat
  BY <1>0, HistoryTypes
<1>2. PICK expired \in SUBSET (old \ sent) :
        /\ db' = [db EXCEPT ![t] = @ \ (sent \cup expired)]
        /\ dropped' = [dropped EXCEPT ![t] = @ \cup Vals(expired)]
  BY DEF Housekeep
<1>3. UNCHANGED <<pbVars, idVars, ids, wr, up, server, stopping, written, restarts>>
  BY DEF Housekeep
<1>4. /\ db \in [Tables -> SUBSET Row] /\ dropped \in [Tables -> SUBSET Nat]
      /\ \A u \in Tables : IsFiniteSet(db[u])
  BY <1>1 DEF TypeOK, DiskShape
<1>5. expired \in SUBSET Row /\ Vals(expired) \in SUBSET Nat  BY <1>4 DEF Vals, Row
<1>6. /\ db' \in [Tables -> SUBSET Row] /\ dropped' \in [Tables -> SUBSET Nat]
      /\ \A u \in Tables : db'[u] \in SUBSET db[u]
  BY <1>2, <1>4, <1>5
<1>7. \A u \in Tables : IsFiniteSet(db'[u])  BY <1>4, <1>6, FS_Subset
<1>8. TypeOK'  BY <1>1, <1>3, <1>6 DEF TypeOK, pbVars, idVars
<1>9. DiskShape'  BY <1>1, <1>3, <1>7 DEF DiskShape, pbVars
<1>10. /\ HSent' = HSent /\ HPkt' = HPkt /\ (AtHistory' <=> AtHistory)
       /\ (\A v \in Writers : Inserting(v)' = Inserting(v))
       /\ UNCHANGED <<idcache, server, up, written, mem, wr, handleid, history_handleids>>
  BY <1>3 DEF HSent, HPkt, AtHistory, Inserting, pbVars, idVars
<1>11. HRows' \in SUBSET HRows  BY <1>6, HistoryTable DEF HRows
<1>12. MaxId(HRows') = MaxId(HRows)
  <2>1. CASE t # "history"
    <3>1. HRows' = HRows  BY <1>2, <1>4, <2>1, HistoryTable DEF HRows
    <3> QED  BY <3>1
  <2>2. CASE t = "history"
    <3>1. /\ MaxId(HRows) \in Nat /\ \A r \in HRows : r.id <= MaxId(HRows)
          /\ HRows # {} => \E r \in HRows : r.id = MaxId(HRows)
          /\ HRows = {} => MaxId(HRows) = 0
      BY <1>t, MaxIdFacts
    <3>2. HRows' \in SUBSET Row /\ IsFiniteSet(HRows')  BY <1>6, <1>7, HistoryTable DEF HRows
    <3>3. /\ MaxId(HRows') \in Nat /\ \A r \in HRows' : r.id <= MaxId(HRows')
          /\ HRows' # {} => \E r \in HRows' : r.id = MaxId(HRows')
          /\ HRows' = {} => MaxId(HRows') = 0
      BY <3>2, MaxIdFacts
    <3>4. \A r \in HRows : r.id = MaxId(HRows) => r \in HRows'
      <4>1. HRows' = HRows \ (sent \cup expired)  BY <1>2, <1>4, <2>2 DEF HRows
      <4>2. \A r \in sent \cup expired : r.id < MaxId(HRows)  BY <2>2 DEF HRows
      <4> HIDE DEF sent, old
      <4> QED  BY <3>1, <4>1, <4>2
    <3>5. CASE HRows = {}  BY <1>11, <3>1, <3>3, <3>5
    <3>6. CASE HRows # {}
      <4>1. PICK r \in HRows : r.id = MaxId(HRows)  BY <3>1, <3>6
      <4>2. r \in HRows'  BY <3>4, <4>1
      <4>3. MaxId(HRows) <= MaxId(HRows')  BY <3>3, <4>1, <4>2
      <4>4. PICK q \in HRows' : q.id = MaxId(HRows')  BY <3>3, <4>2
      <4>5. MaxId(HRows') <= MaxId(HRows)  BY <1>11, <3>1, <4>4
      <4> QED  BY <3>1, <3>3, <4>3, <4>5
    <3> QED  BY <3>5, <3>6
  <2> QED  BY <2>1, <2>2
<1>13. HLast' = HLast
  BY <1>10, <1>12 DEF HLast, CachedLast, HRows
<1>14. RowsInv'  BY <1>0, <1>10, <1>11, <1>13 DEF RowsInv
<1>15. PacketInv'  BY <1>0, <1>10, <1>11, <1>13 DEF PacketInv
<1>16. FetchInv'  BY <1>0, <1>10, <1>11, <1>13 DEF FetchInv
<1>17. Registered'  BY <1>0, <1>10 DEF Registered
<1>18. dropped["history"] \in SUBSET (dropped'["history"])  BY <1>2, <1>4, HistoryTable
<1>19. InDatabase("history") \in SUBSET (InDatabase("history")' \cup dropped'["history"])
  <2> SUFFICES ASSUME NEW x \in HRows, HSent < x.id
               PROVE  x.val \in InDatabase("history")' \cup dropped'["history"]
    BY <1>t DEF InDatabase, HRows, HSent, Vals
  <2>1. CASE x \in HRows'
    BY <1>10, <1>t, <2>1 DEF InDatabase, HRows, HSent, Vals
  <2>2. CASE x \notin HRows'
    <3>1. t = "history"  BY <1>2, <1>4, <2>2, HistoryTable DEF HRows
    <3>2. x \in sent \cup expired  BY <1>2, <1>4, <2>2, <3>1 DEF HRows
    <3>3. x \notin sent
      <4>1. x.id \in Nat /\ HSent = ids[t]  BY <1>t, <3>1 DEF HSent
      <4>2. ~(x.id <= ids[t])  BY <1>t, <4>1
      <4> QED  BY <4>2
    <3>4. x.val \in Vals(expired)  BY <3>2, <3>3 DEF Vals
    <3> QED  BY <1>2, <1>4, <3>1, <3>4
  <2> QED  BY <2>1, <2>2
<1>20. HistoryNoLoss'
  <2>1. /\ InFlight("history")' = InFlight("history") /\ InMemory("history")' = InMemory("history")
    BY <1>10 DEF InFlight, InMemory
  <2> QED  BY <1>0, <1>10, <1>18, <1>19, <2>1 DEF HistoryNoLoss, NoLoss, Kept
<1>21. OnlyDuplicatesDiscarded'  BY <1>0, <1>10 DEF OnlyDuplicatesDiscarded
<1> QED  BY <1>8, <1>9, <1>14, <1>15, <1>16, <1>17, <1>20, <1>21 DEF DiskInv, DiskType

\* The proxy starts again on the rows and ids of the database.
LEMMA StartStep ==
    ASSUME DiskInv, Start(db, ids), dropped' \in [Tables -> SUBSET Nat],
           dropped["history"] \cup InFlight("history") \subseteq dropped'["history"]
    PROVE  DiskInv'
<1>0. DiskType /\ RowsInv /\ HistoryNoLoss /\ OnlyDuplicatesDiscarded  BY DEF DiskInv
<1>1. TypeOK /\ DiskShape  BY <1>0 DEF DiskType
<1>t. HRows \in SUBSET Row /\ IsFiniteSet(HRows) /\ HSent \in Nat /\ \A r \in Row : r.id \in Nat
  BY <1>0, HistoryTypes
<1>2. /\ db \in [Tables -> SUBSET Row] /\ ids \in [Tables -> Nat] /\ Mode = "disk"
      /\ \A t \in Tables : IsFiniteSet(db[t])
  BY <1>1 DEF TypeOK, DiskShape
<1>3. \A t \in Tables : MaxId(db[t]) \in Nat  BY <1>2, MaxIdFacts
<1>4. \A t \in Tables : LET m == Min({ids[t], MaxId(db[t])})
                        IN  m \in Nat /\ m <= ids[t] /\ m <= MaxId(db[t])
  <2> TAKE t \in Tables
  <2>1. {ids[t], MaxId(db[t])} \in SUBSET Nat /\ {ids[t], MaxId(db[t])} # {}  BY <1>2, <1>3
  <2>2. Min({ids[t], MaxId(db[t])}) \in {ids[t], MaxId(db[t])}
        /\ \A y \in {ids[t], MaxId(db[t])} : Min({ids[t], MaxId(db[t])}) <= y
    BY <2>1, MinFacts
  <2> QED  BY <1>2, <1>3, <2>2
<1>5. /\ StartedIds(db, ids) = [t \in Tables |-> Min({ids[t], MaxId(db[t])})]
      /\ StartedState(db, ids) = "database"
  BY <1>2 DEF StartedIds, StartedState
<1>6. StartedIds(db, ids) \in [Tables -> Nat]  BY <1>4, <1>5
<1>7. /\ mode' = "disk" /\ state' = "database" /\ mem' = NoRows
      /\ db_handles_num' = 0 /\ handleid' = 0 /\ history_handleids' = {}
      /\ dc_ids' = [t \in Tables |-> -1] /\ idcache' = [t \in Tables |-> 0]
      /\ db' = db /\ ids' = StartedIds(db, ids)
      /\ wr' = [w \in Writers |-> Closed] /\ up' = Uploader("idle", 1)
      /\ stopping' = FALSE /\ restarts' = restarts + 1 /\ written' = written
      /\ server' = [server EXCEPT !.last = 0, !.session = {}]
  BY <1>2, <1>5 DEF Start
<1>8. lastid_db' \in [Tables -> Nat] /\ lastid_sent' \in [Tables -> Nat]
  <2>1. lastid_db' = [t \in Tables |-> IF t = "history" /\ Mode # "memory"
                                       THEN [u \in Tables |-> MaxId(db[u])][t] ELSE 0]
    BY DEF Start
  <2>2. lastid_sent' = [t \in Tables |-> IF t = "history" /\ Mode # "memory"
                                         THEN StartedIds(db, ids)[t] ELSE 0]
    BY DEF Start
  <2> QED  BY <1>3, <1>6, <2>1, <2>2
<1>9. /\ up' \in UploaderStates /\ up'.pc = "idle" /\ up'.rows = {}
      /\ \A t \in Tables : up'.pkt[t] = {} /\ up'.unsaved[t] = 0
  BY <1>7, UploaderFields
<1>10. /\ server' \in ServerStates /\ server'.last = 0 /\ server'.session = {}
       /\ server'.refused = server.refused /\ server'.accepted = server.accepted
  BY <1>1, <1>7 DEF TypeOK, ServerStates
<1>11. Closed \in WriterStates(Seq(Row))  BY DEF Closed, WriterStates
<1>12. NoRows \in [Tables -> Seq(Row)]  BY DEF NoRows
<1>13. TypeOK'
  <2>1. mode' \in {"disk", "memory", "hybrid"} /\ state' \in States  BY <1>7 DEF States
  <2>2. /\ mem' \in [Tables -> Seq(Row)] /\ wr' \in [Writers -> WriterStates(Seq(Row))]
        /\ db' \in [Tables -> SUBSET Row] /\ ids' \in [Tables -> Nat]
        /\ written' \in [Tables -> Nat]
    BY <1>1, <1>2, <1>6, <1>7, <1>11, <1>12 DEF TypeOK
  <2>3. /\ db_handles_num' \in Nat /\ handleid' \in Nat
        /\ history_handleids' \in SUBSET (1..handleid')
    <3>1. history_handleids' = {}  BY <1>7
    <3> QED  BY <1>7, <3>1
  <2>a. dc_ids' \in [Tables -> Nat \cup {-1}]
    <3>1. dc_ids' = [t \in Tables |-> -1]  BY <1>7, Zenon
    <3> QED  BY <3>1
  <2>b. idcache' \in [Tables -> Nat]
    <3>1. idcache' = [t \in Tables |-> 0]  BY <1>7, Zenon
    <3> QED  BY <3>1
  <2>4. stopping' \in BOOLEAN /\ restarts' \in Nat
    <3>1. stopping' \in BOOLEAN  BY <1>7, Zenon
    <3>2. restarts' = restarts + 1  BY <1>7, Zenon
    <3> QED  BY <1>1, <3>1, <3>2 DEF TypeOK
  <2> QED  BY <1>8, <1>9, <1>10, <2>1, <2>2, <2>3, <2>4, <2>a, <2>b DEF TypeOK
<1>14. DiskShape'
  BY <1>2, <1>7, <1>9, FS_EmptySet DEF DiskShape, Closed
<1>15. \A w \in Writers : Inserting(w)' = {}  BY <1>7 DEF Inserting, Closed
<1>16. /\ HRows' = HRows /\ HLast' = MaxId(HRows) /\ HPkt' = {} /\ ~AtHistory'
       /\ HSent' \in Nat /\ HSent' <= HSent /\ HSent' <= MaxId(HRows)
  <2>1. HSent' = Min({ids["history"], MaxId(db["history"])})
    BY <1>5, <1>7, HistoryTable DEF HSent
  <2> QED  BY <1>4, <1>7, <1>9, <2>1, HistoryTable
           DEF HRows, HLast, HPkt, HSent, CachedLast, AtHistory
<1>17. RowsInv'
  <2>1. MaxId(HRows) \in Nat /\ \A x \in HRows : x.id <= MaxId(HRows)  BY <1>t, MaxIdFacts
  <2>2. \A x \in HRows : ~(HSent' < x.id /\ x.id <= 0)  BY <1>16, <1>t
  <2> QED  BY <1>10, <1>15, <1>16, <2>1, <2>2 DEF RowsInv
<1>18. PacketInv' /\ FetchInv'  BY <1>9, <1>16, HistoryTable DEF PacketInv, FetchInv
<1>19. Registered'  BY <1>7 DEF Registered, Closed
<1>20. HistoryNoLoss'
  <2>1. InDatabase("history") \in SUBSET (InDatabase("history")')
    <3>1. \A x \in HRows : x.id > HSent => x.id > HSent'  BY <1>16, <1>t
    <3> QED  BY <1>16, <3>1 DEF InDatabase, HRows, HSent, Vals
  <2>2. InMemory("history")' = InMemory("history")
    BY <1>1, <1>7 DEF InMemory, DiskShape
  <2> QED  BY <1>0, <1>7, <1>10, <2>1, <2>2 DEF HistoryNoLoss, NoLoss, Kept
<1>21. OnlyDuplicatesDiscarded'  BY <1>0, <1>10 DEF OnlyDuplicatesDiscarded
<1> QED  BY <1>13, <1>14, <1>17, <1>18, <1>19, <1>20, <1>21 DEF DiskInv, DiskType

\* A crash drops what writers had not committed and starts the proxy again.
LEMMA CrashStep ==
    ASSUME DiskInv, Crash
    PROVE  DiskInv'
<1>1. TypeOK  BY DEF DiskInv, DiskType
<1>2. Start(db, ids) /\ dropped' = [t \in Tables |-> dropped[t] \cup InMemory(t) \cup InFlight(t)]
  BY DEF Crash
<1>3. \A t \in Tables : InMemory(t) \in SUBSET Nat
  <2> TAKE t \in Tables
  <2>1. mem[t] \in Seq(Row)  BY <1>1 DEF TypeOK
  <2>2. ToSet(mem[t]) \in SUBSET Row  BY <2>1, ToSetFacts
  <2> QED  BY <2>2 DEF InMemory, Vals, Row
<1>4. \A t \in Tables : InFlight(t) \in SUBSET Nat
  <2>1. \A w \in Writers : wr[w].rows \in Seq(Row)  BY <1>1 DEF TypeOK, WriterStates
  <2>2. \A w \in Writers : ToSet(wr[w].rows) \in SUBSET Row  BY <2>1, ToSetFacts
  <2>3. \A w \in Writers : Vals(ToSet(wr[w].rows)) \in SUBSET Nat  BY <2>2 DEF Vals, Row
  <2> QED  BY <2>3 DEF InFlight
<1>5. dropped' \in [Tables -> SUBSET Nat]  BY <1>1, <1>2, <1>3, <1>4 DEF TypeOK
<1>6. dropped["history"] \cup InFlight("history") \subseteq dropped'["history"]
  BY <1>2, HistoryTable
<1> QED  BY <1>2, <1>5, <1>6, StartStep

\* In disk mode there is nothing to flush when the proxy stops.
LEMMA StopStarts ==
    ASSUME DiskInv, Stop
    PROVE  Start(db, ids)
<1>1. TypeOK /\ DiskShape  BY DEF DiskInv, DiskType
<1>2. mode = "disk" /\ mem = NoRows /\ db \in [Tables -> SUBSET Row]
  BY <1>1 DEF TypeOK, DiskShape
<1>3. \A t \in Tables : MemRows(mem)[t] = {}  BY <1>2 DEF MemRows, NoRows, ToSet
<1>4. ~Conflict(db, MemRows(mem))  BY <1>3 DEF Conflict, Ids
<1>5. FlushDb(mem) = [t \in Tables |-> db[t] \cup MemRows(mem)[t]]
  BY <1>2, <1>4 DEF FlushDb, Inserted
<1>6. FlushDb(mem) = db  BY <1>2, <1>3, <1>5
<1>7. FlushIds(mem) = ids  BY <1>2 DEF FlushIds, HasMemRows, NoRows
<1> QED  BY <1>6, <1>7 DEF Stop

LEMMA StopStep ==
    ASSUME DiskInv, Stop
    PROVE  DiskInv'
<1>1. TypeOK /\ mode = "disk"  BY DEF DiskInv, DiskType, DiskShape
<1>2. dropped' = dropped /\ \A w \in Writers : wr[w].pc = "idle"  BY <1>1 DEF Stop
<1>3. InFlight("history") = {}  BY <1>2 DEF InFlight
<1>4. dropped' \in [Tables -> SUBSET Nat]  BY <1>1, <1>2 DEF TypeOK
<1> QED  BY <1>2, <1>3, <1>4, StopStarts, StartStep

\* Disabling the buffer before the shutdown changes nothing in disk mode.
LEMMA DisableStep ==
    ASSUME DiskInv, Disable
    PROVE  DiskInv'
<1>0. DiskType /\ Registered  BY DEF DiskInv
<1>1. TypeOK /\ DiskShape  BY <1>0 DEF DiskType
<1>2. /\ stopping' = TRUE
      /\ UNCHANGED <<pbVars, idVars, dbVars, wr, up, server, written, dropped, restarts>>
  BY <1>1 DEF Disable, DiskShape, pbVars
<1>3. TypeOK'  BY <1>1, <1>2 DEF TypeOK, pbVars, idVars, dbVars
<1>4. DiskShape'  BY <1>1, <1>2 DEF DiskShape, pbVars, dbVars
<1>5. Registered'  BY <1>0, <1>2 DEF Registered, pbVars
<1>6. RowsInv' /\ PacketInv' /\ FetchInv' /\ HistoryNoLoss' /\ OnlyDuplicatesDiscarded'
  <2>1. /\ HRows' = HRows /\ HSent' = HSent /\ HLast' = HLast /\ UNCHANGED <<up, server, dropped, mem>>
        /\ idcache' = idcache /\ written' = written /\ wr' = wr
        /\ \A w \in Writers : Inserting(w)' = Inserting(w)
    BY <1>2 DEF HRows, HSent, HLast, CachedLast, Inserting, pbVars, idVars, dbVars
  <2> QED  BY <2>1, FrameStep
<1> QED  BY <1>3, <1>4, <1>5, <1>6 DEF DiskInv, DiskType

----------------------------------------------------------------------------
(* The theorems. *)

\* The invariant holds when the proxy first starts, on empty tables.
LEMMA DiskInit ==
    ASSUME Mode = "disk", Init
    PROVE  DiskInv
<1>1. up \in UploaderStates /\ up.pc = "idle" /\ up.rows = {}
      /\ \A t \in Tables : up.pkt[t] = {} /\ up.unsaved[t] = 0
  <2>1. 1 \in 1..(Len(TableOrder) + 1)  BY TablePos
  <2> QED  BY <2>1 DEF Init, Uploader, UploaderStates
<1>2. Closed \in WriterStates(Seq(Row)) /\ NoRows \in [Tables -> Seq(Row)]
  BY DEF Closed, WriterStates, NoRows
<1>3. server \in ServerStates  BY DEF Init, ServerStates
<1>4. TypeOK  BY <1>1, <1>2, <1>3 DEF Init, TypeOK, States
<1>5. DiskShape  BY <1>1, FS_EmptySet DEF Init, DiskShape, Closed
<1>6. HRows = {} /\ HSent = 0 /\ HPkt = {} /\ ~AtHistory /\ \A w \in Writers : Inserting(w) = {}
  BY <1>1, HistoryTable DEF Init, HRows, HSent, HPkt, AtHistory, Inserting, Closed
<1>7. HLast \in Nat  BY <1>4, <1>5, HistoryTypes DEF DiskType
<1>8. RowsInv  BY <1>6, <1>7, HistoryTable DEF Init, RowsInv
<1>9. PacketInv /\ FetchInv  BY <1>1, <1>6, HistoryTable DEF PacketInv, FetchInv
<1>10. Registered  BY DEF Init, Registered, Closed
<1>11. written["history"] = 0  BY HistoryTable DEF Init
<1>12. 1..written["history"] = {}  BY <1>11
<1>13. HistoryNoLoss  BY <1>12 DEF HistoryNoLoss, NoLoss
<1>14. OnlyDuplicatesDiscarded  BY DEF Init, OnlyDuplicatesDiscarded
<1> QED  BY <1>4, <1>5, <1>8, <1>9, <1>10, <1>13, <1>14 DEF DiskInv, DiskType

\* Every step of the system keeps the invariant: one case per action.
LEMMA DiskNext ==
    ASSUME DiskInv, HandleInv', Next
    PROVE  DiskInv'
<1>h. HandlesCounted'  BY DEF HandleInv
<1>d. DiskShape  BY DEF DiskInv, DiskType
<1>s. Src(state) = "database" /\ \A w \in Writers : wr[w].dst = "database"
  BY <1>d, DiskUses DEF DiskShape
<1>1. ASSUME NEW w \in Writers, Write(w) PROVE DiskInv'
  <2>1. ~CloseEmpty(w) /\ \A n : ~CloseMemory(w, n)
    BY <1>s DEF CloseEmpty, CloseMemory
  <2>2. \A n \in 0..MaxBatch : n \in Nat  BY BufferAssumption DEF BufferAssumption
  <2> QED  BY <1>1, <1>h, <2>1, <2>2, OpenStep, WriteHostStep, CommitStep, FinishStep,
              AllocIdsStep DEF Write
<1>2. ASSUME Read PROVE DiskInv'
  <2>1. \A t, k, full : ~ReadMemory(t, k, full)  BY <1>s DEF ReadMemory
  <2>2. \A t \in Tables : RowIds(db[t]) \in SUBSET Nat
    BY DEF RowIds, Ids, Row, DiskInv, DiskType, TypeOK
  <2>3. RowIds(up.rows \cup db["history"]) \in SUBSET Nat
    BY HistoryTable DEF RowIds, Ids, Row, DiskInv, DiskType, TypeOK, UploaderStates
  <2>4. CASE UploadStart \/ SelectHistoryGap \/ CollectHandles \/ WaitHandles
    BY <2>4, UploadStartStep, SelectHistoryGapStep, WaitStep
  <2>5. CASE \E t \in Tables : ReadLastid(t)  BY <2>5, ReadLastidStep
  <2>6. CASE \E t \in Tables, more \in BOOLEAN : SkipTable(t, more)
    BY <2>6, SkipTableStep
  <2>7. CASE \E full \in BOOLEAN : \E last \in RowIds(up.rows \cup db["history"]) :
               SelectHistory(last, full)
    BY <2>3, <2>7, SelectHistoryStep
  <2>8. CASE \E t \in Tables, full \in BOOLEAN : \E last \in RowIds(db[t]) :
               SelectOther(t, last, full)
    BY <2>2, <2>8, SelectOtherStep
  <2> QED  BY <1>2, <2>1, <2>4, <2>5, <2>6, <2>7, <2>8 DEF Read
<1>3. ASSUME Acknowledge PROVE DiskInv'
  <2>1. CASE \E ok \in BOOLEAN : CommitLastids(ok)  BY <2>1, CommitLastidsStep
  <2>2. CASE \E t \in Tables : SetLastid(t)  BY <2>2, SetLastidStep
  <2> QED  BY <1>3, <2>1, <2>2, ReplyReceivedStep, UploadStartStep DEF Acknowledge
<1> QED  BY <1>1, <1>2, <1>3, DeliverStep, UploadStartStep, HousekeepStep, CrashStep,
            DisableStep, StopStep DEF Next

\* The invariant of the disk mode, for any number of writers, tables, rows and
\* restarts.
THEOREM DiskInvariant == Mode = "disk" => (Spec => []DiskInv)
<1> SUFFICES ASSUME Mode = "disk" PROVE Spec => []DiskInv  OBVIOUS
<1>1. Init => DiskInv  BY DiskInit
<1>2. DiskInv /\ HandleInv' /\ [Next]_vars => DiskInv'
  <2> SUFFICES ASSUME DiskInv, HandleInv', [Next]_vars PROVE DiskInv'  OBVIOUS
  <2>1. CASE Next  BY <2>1, DiskNext
  <2>2. CASE UNCHANGED vars
    <3>1. UNCHANGED <<pbVars, idVars, dbVars, wr, up, server, histVars>>  BY <2>2 DEF vars
    <3>2. /\ up' \in UploaderStates /\ IsFiniteSet(up'.rows)
          /\ \A t \in Tables : IsFiniteSet(up'.pkt[t])
          /\ lastid_sent' \in [Tables -> Nat]
      BY <3>1 DEF DiskInv, DiskType, TypeOK, DiskShape, pbVars
    <3>3. PacketInv' /\ FetchInv'
      BY <3>1 DEF DiskInv, PacketInv, FetchInv, AtHistory, HPkt, HRows, HSent, HLast,
                  CachedLast, Inserting, idVars, dbVars
    <3> QED  BY <3>1, <3>2, <3>3, UpStep DEF pbVars
  <2> QED  BY <2>1, <2>2
<1> QED  BY <1>1, <1>2, HandleInvariant, PTL DEF Spec

\* In disk mode no history value is skipped: pb_history_get_rows_db waits for
\* the handles behind a gap in the ids, so that what it has passed by is in the
\* packet, and what the packet acknowledges the server has.
THEOREM DiskHistoryNoLoss == Mode = "disk" => (Spec => []HistoryNoLoss)
<1>1. DiskInv => HistoryNoLoss  BY DEF DiskInv
<1> QED  BY <1>1, DiskInvariant, PTL

\* In disk mode the server never takes a history value for a duplicate of one
\* it has not received, whatever is sent again after a lost reply.
THEOREM DiskDuplicates == Mode = "disk" => (Spec => []OnlyDuplicatesDiscarded)
<1>1. DiskInv => OnlyDuplicatesDiscarded  BY DEF DiskInv
<1> QED  BY <1>1, DiskInvariant, PTL
----------------------------------------------------------------------------
(* No history value is taken twice within a session. *)

\* the history rows that are in the table, in the packet, with the uploader, or
\* being inserted
HKnown ==
    UNION {HRows, HPkt, IF AtHistory THEN up.rows ELSE {},
           UNION {Inserting(w) : w \in Writers}}

\* Among these rows ids and values grow together, and the rows behind the
\* session's last id stand for values that are newer than all of the session's.
OnceInv ==
    /\ \A x, y \in HKnown : x.id < y.id => x.val < y.val
    /\ \A x \in HKnown : x.val <= written["history"]
    /\ \A v \in server.session : v <= written["history"]
    /\ \A x \in HKnown : x.id > server.last => \A v \in server.session : v < x.val
    /\ AcceptedOnce

\* what HKnown has, and all it has, now and after a step
LEMMA Known ==
    /\ HRows \in SUBSET HKnown /\ HPkt \in SUBSET HKnown
    /\ AtHistory => up.rows \in SUBSET HKnown
    /\ \A w \in Writers : Inserting(w) \in SUBSET HKnown
<1> DEFINE F == UNION {Inserting(w) : w \in Writers}
<1>1. \A w \in Writers : Inserting(w) \in SUBSET F  OBVIOUS
<1> HIDE DEF F
<1>2. HKnown = UNION {HRows, HPkt, IF AtHistory THEN up.rows ELSE {}, F}  BY DEF HKnown, F
<1> QED  BY <1>1, <1>2

LEMMA KnownOnly ==
    ASSUME NEW x \in HKnown, x \notin HRows, x \notin HPkt, ~(AtHistory /\ x \in up.rows)
    PROVE  \E w \in Writers : x \in Inserting(w)
BY DEF HKnown

LEMMA KnownNext ==
    ASSUME NEW S, HRows' \in SUBSET S, HPkt' \in SUBSET S, AtHistory' => up'.rows \in SUBSET S,
           \A w \in Writers : Inserting(w)' \in SUBSET S
    PROVE  HKnown' \in SUBSET S
<1> DEFINE F == UNION {Inserting(w) : w \in Writers}
<1>1. F' \in SUBSET S  OBVIOUS
<1> HIDE DEF F
<1>2. HKnown' = UNION {HRows', HPkt', IF AtHistory' THEN up'.rows ELSE {}, F'}
  BY DEF HKnown, F
<1> QED  BY <1>1, <1>2

\* All of them are rows, with ids that were given out.
LEMMA KnownTypes ==
    ASSUME DiskInv
    PROVE  /\ HKnown \in SUBSET Row
           /\ \A x \in HKnown : x.id \in Nat /\ x.val \in Nat /\ x.id <= HLast
           /\ HLast \in Nat /\ written["history"] \in Nat /\ server.last \in Nat
           /\ server.last <= HLast
           /\ server.session \in SUBSET Nat
<1>0. DiskType /\ RowsInv /\ PacketInv /\ FetchInv  BY DEF DiskInv
<1>t. /\ HRows \in SUBSET Row /\ HPkt \in SUBSET Row /\ HLast \in Nat /\ up.rows \in SUBSET Row
      /\ up.cur \in Nat /\ server.last \in Nat /\ HSent \in Nat /\ idcache["history"] \in Nat
      /\ \A w \in Writers : Inserting(w) \in SUBSET Row
  BY <1>0, HistoryTypes
<1>1. HKnown \in SUBSET Row
  <2> SUFFICES ASSUME NEW x \in HKnown PROVE x \in Row  OBVIOUS
  <2> QED  BY <1>t, KnownOnly
<1>2. \A x \in Row : x.id \in Nat /\ x.val \in Nat  BY DEF Row
<1>3. ASSUME NEW x \in HKnown PROVE x.id <= HLast
  <2>i. x.id \in Nat  BY <1>1, <1>2
  <2>1. CASE x \in HRows  BY <1>0, <2>1 DEF RowsInv
  <2>2. CASE x \in HPkt  BY <1>0, <2>2 DEF PacketInv
  <2>3. CASE AtHistory /\ x \in up.rows
    <3>1. x.id <= up.cur /\ up.cur <= HLast  BY <1>0, <2>3 DEF FetchInv
    <3> QED  BY <1>t, <2>i, <3>1
  <2>4. ASSUME NEW w \in Writers, x \in Inserting(w) PROVE x.id <= HLast
    <3>1. x.id <= idcache["history"] /\ HSent < x.id  BY <1>0, <2>4 DEF RowsInv
    <3>2. idcache["history"] # 0  BY <1>t, <2>i, <3>1
    <3> QED  BY <3>1, <3>2 DEF HLast, CachedLast
  <2> QED  BY <2>1, <2>2, <2>3, <2>4, KnownOnly
<1>4. written["history"] \in Nat /\ server.session \in SUBSET Nat
  BY <1>0, HistoryTable DEF DiskType, TypeOK, ServerStates
<1>5. server.last <= HLast  BY <1>0 DEF RowsInv
<1> QED  BY <1>1, <1>2, <1>3, <1>4, <1>5, <1>t

\* A step that brings in no row and leaves the session alone.
LEMMA KnownShrinks ==
    ASSUME DiskInv, OnceInv, HKnown' \in SUBSET HKnown, server' = server,
           written'["history"] = written["history"]
    PROVE  OnceInv'
<1>1. \A x \in HKnown' : x \in HKnown  OBVIOUS
<1>2. AcceptedOnce'  BY DEF OnceInv, AcceptedOnce
<1> QED  BY <1>1, <1>2 DEF OnceInv

\* Such a step of the uploader.
LEMMA UploaderKnows ==
    ASSUME DiskInv, OnceInv, UNCHANGED <<db, wr, server, written>>,
           HPkt' \in SUBSET HKnown, AtHistory' => up'.rows \in SUBSET HKnown
    PROVE  OnceInv'
<1>1. HRows' = HRows /\ \A w \in Writers : Inserting(w)' = Inserting(w)
  BY DEF HRows, Inserting
<1>2. HRows' \in SUBSET HKnown /\ \A w \in Writers : Inserting(w)' \in SUBSET HKnown
  BY <1>1, Known
<1>3. HKnown' \in SUBSET HKnown  BY <1>2, KnownNext
<1>4. server' = server /\ written' = written  OBVIOUS
<1> QED  BY <1>3, <1>4, KnownShrinks

\* A fetch of history rows adds to the packet rows that were known.
LEMMA SelectHistoryKnows ==
    ASSUME DiskInv, OnceInv, NEW last \in Nat, NEW full \in BOOLEAN, SelectHistory(last, full)
    PROVE  OnceInv'
<1> DEFINE R == up.rows \cup Fetched
           E == {r \in R : r.id <= last}
<1>0. DiskType  BY DEF DiskInv
<1>1. /\ UNCHANGED <<db, wr, server, written>> /\ AtHistory /\ up.pos \in DOMAIN TableOrder
  BY DEF SelectHistory, Reading, AtHistory, dbVars, histVars
<1>2. up \in UploaderStates  BY <1>0 DEF DiskType, TypeOK
<1>3. Fetched \in SUBSET HRows /\ Fetched \in SUBSET Row  BY <1>0, DiskTyped, FetchedFacts DEF HRows
<1>4. E \in SUBSET HKnown /\ HPkt \in SUBSET HKnown  BY <1>1, <1>3, Known
<1>6. up'.rows = {} /\ HPkt' = HPkt \cup E
  BY <1>0, DiskTyped, SelectHistoryFields DEF HPkt
<1> HIDE DEF E
<1> QED  BY <1>1, <1>4, <1>6, UploaderKnows

\* The rows of the other tables are no history rows.
LEMMA SelectOtherKnows ==
    ASSUME DiskInv, OnceInv, NEW t \in Tables, NEW last \in Nat, NEW full \in BOOLEAN,
           SelectOther(t, last, full)
    PROVE  OnceInv'
<1>1. DiskType  BY DEF DiskInv
<1>2. /\ UNCHANGED <<db, wr, server, written>> /\ t # "history" /\ TableOrder[up.pos] = t
  BY DEF SelectOther, Reading, dbVars, histVars
<1>3. /\ \A u \in Tables \ {t} : up'.pkt[u] = up.pkt[u]
      /\ up'.pc = "read" \/ (up'.pc = "select" /\ up'.pos = up.pos)
  BY <1>1, DiskTyped, SelectOtherFields
<1>4. HPkt' = HPkt /\ ~AtHistory'
  BY <1>2, <1>3, HistoryTable DEF HPkt, AtHistory
<1> QED  BY <1>2, <1>4, Known, UploaderKnows

\* The other steps of the uploader add no history rows to the packet.
LEMMA ReadKnows ==
    ASSUME DiskInv, OnceInv, Read
    PROVE  OnceInv'
<1>0. DiskType  BY DEF DiskInv
<1>1. Src(state) = "database"  BY <1>0, DiskUses DEF DiskType
<1>2. up \in UploaderStates /\ \A t \in Tables : ids[t] \in Nat  BY <1>0 DEF DiskType, TypeOK
<1>3. CASE UploadStart
  <2>1. UNCHANGED <<db, wr, server, written>> /\ up' = Uploader("read", 1)
    BY <1>3 DEF UploadStart, dbVars, histVars
  <2>2. HPkt' = {} /\ ~AtHistory'
    BY <2>1, UploaderFields, HistoryTable DEF HPkt, AtHistory
  <2> QED  BY <2>1, <2>2, UploaderKnows
<1>4. CASE SelectHistoryGap
  <2>1. /\ UNCHANGED <<db, wr, server, written>> /\ AtHistory
    BY <1>4 DEF SelectHistoryGap, Reading, AtHistory, dbVars, histVars
  <2>2. HPkt' = HPkt /\ \E P \in SUBSET Fetched : up'.rows = up.rows \cup P
    BY <1>0, <1>4, DiskTyped, GapFields DEF HPkt
  <2>3. Fetched \in SUBSET HRows  BY <1>0, DiskTyped, FetchedFacts DEF HRows
  <2>4. HPkt' \in SUBSET HKnown /\ up'.rows \in SUBSET HKnown
    BY <2>1, <2>2, <2>3, Known
  <2> QED  BY <2>1, <2>4, UploaderKnows
<1>5. CASE CollectHandles \/ WaitHandles
  <2>1. UNCHANGED <<db, wr, server, written>> /\ up.pc \in {"gap", "wait"}
    BY <1>5 DEF CollectHandles, WaitHandles, dbVars, histVars
  <2>2. up'.rows = up.rows /\ up'.pkt = up.pkt /\ up'.pos = up.pos
    BY <1>2, <1>5 DEF CollectHandles, WaitHandles, UploaderStates
  <2>3. AtHistory' => AtHistory  BY <2>1, <2>2 DEF AtHistory
  <2>4. HPkt' = HPkt  BY <2>2 DEF HPkt
  <2> QED  BY <2>1, <2>2, <2>3, <2>4, Known, UploaderKnows
<1>6. ASSUME NEW t \in Tables, ReadLastid(t) PROVE OnceInv'
  <2>1. UNCHANGED <<db, wr, server, written>>  BY <1>6 DEF ReadLastid, dbVars, histVars
  <2>2. up'.rows = {} /\ up'.pkt = up.pkt  BY <1>2, <1>6, ReadLastidFields
  <2>3. HPkt' = HPkt /\ up'.rows \in SUBSET HKnown  BY <2>2 DEF HPkt
  <2> QED  BY <2>1, <2>3, Known, UploaderKnows
<1>7. ASSUME NEW t \in Tables, NEW more \in BOOLEAN, SkipTable(t, more) PROVE OnceInv'
  <2>1. /\ UNCHANGED <<db, wr, server, written>> /\ TableRead(t, {}) /\ up.pos \in DOMAIN TableOrder
    BY <1>7, Zenon DEF SkipTable, TableRead, Reading, dbVars, histVars
  <2>2. /\ up'.pc = "read" /\ up'.pkt[t] = up.pkt[t] \cup {}
        /\ \A u \in Tables \ {t} : up'.pkt[u] = up.pkt[u]
    BY <1>2, <2>1, NextTableFields
  <2>3. HPkt' = HPkt /\ ~AtHistory'  BY <2>2, HistoryTable DEF HPkt, AtHistory
  <2> QED  BY <2>1, <2>3, Known, UploaderKnows
<1>8. \A t, k, full : ~ReadMemory(t, k, full)  BY <1>1 DEF ReadMemory
<1>9. RowIds(up.rows \cup db["history"]) \in SUBSET Nat
  BY <1>0, HistoryTable DEF RowIds, Ids, Row, DiskType, TypeOK, UploaderStates
<1>10. \A t \in Tables : RowIds(db[t]) \in SUBSET Nat
  BY <1>0 DEF RowIds, Ids, Row, DiskType, TypeOK
<1>11. CASE \E full \in BOOLEAN : \E last \in RowIds(up.rows \cup db["history"]) :
               SelectHistory(last, full)
  BY <1>9, <1>11, SelectHistoryKnows
<1>12. CASE \E t \in Tables, full \in BOOLEAN : \E last \in RowIds(db[t]) :
               SelectOther(t, last, full)
  BY <1>10, <1>12, SelectOtherKnows
<1> QED  BY <1>3, <1>4, <1>5, <1>6, <1>7, <1>8, <1>11, <1>12 DEF Read

LEMMA AcknowledgeKnows ==
    ASSUME DiskInv, OnceInv, Acknowledge \/ SendFails
    PROVE  OnceInv'
<1>1. up \in UploaderStates  BY DEF DiskInv, DiskType, TypeOK
<1>2. CASE SendFails \/ SkipUpdate \/ UpdateState
  <2>1. UNCHANGED <<db, wr, server, written>> /\ up' = Uploader("idle", 1)
    BY <1>2 DEF SendFails, SkipUpdate, UpdateState, dbVars, histVars
  <2>2. HPkt' = {} /\ ~AtHistory'
    BY <2>1, UploaderFields, HistoryTable DEF HPkt, AtHistory
  <2> QED  BY <2>1, <2>2, UploaderKnows
<1>3. CASE ReplyReceived \/ (\E t \in Tables : SetLastid(t)) \/ \E ok \in BOOLEAN : CommitLastids(ok)
  <2>1. UNCHANGED <<db, wr, server, written>>
    BY <1>3 DEF ReplyReceived, SetLastid, CommitLastids, dbVars, histVars
  <2>2. up'.pkt = up.pkt /\ up'.pc \in {"set", "update"}
    BY <1>1, <1>3 DEF ReplyReceived, SetLastid, CommitLastids, Reading, UploaderStates
  <2>3. HPkt' = HPkt /\ ~AtHistory'  BY <2>2 DEF HPkt, AtHistory
  <2> QED  BY <2>1, <2>3, Known, UploaderKnows
<1> QED  BY <1>2, <1>3 DEF Acknowledge

\* The values the server takes are newer than all that its session had.
LEMMA DeliverKnows ==
    ASSUME DiskInv, OnceInv, Deliver
    PROVE  OnceInv'
<1> DEFINE fresh == Fresh(HPkt)
           last == Max({server.last, MaxId(HPkt)})
<1>0. DiskType  BY DEF DiskInv
<1>1. /\ HKnown \in SUBSET Row /\ written["history"] \in Nat /\ server.last \in Nat
      /\ \A x \in HKnown : x.id \in Nat /\ x.val \in Nat
      /\ server.session \in SUBSET Nat
  BY KnownTypes
<1>2. HPkt \in SUBSET Row /\ IsFiniteSet(HPkt) /\ HPkt \in SUBSET HKnown
  BY <1>0, HistoryTypes, Known
<1>3. /\ server' = [last |-> last,
                    refused |-> server.refused \cup (Vals(HPkt \ fresh) \ server.session),
                    session |-> server.session \cup Vals(fresh),
                    twice |-> server.twice \cup (Vals(fresh) \cap server.session),
                    accepted |-> [t \in Tables |-> server.accepted[t] \cup
                                     Vals(IF t = "history" THEN fresh ELSE up.pkt[t])]]
      /\ up' = [up EXCEPT !.pc = "reply"]
      /\ UNCHANGED <<db, wr, written>>
  BY DEF Deliver, HPkt, dbVars, histVars
<1>4. MaxId(HPkt) \in Nat /\ \A q \in HPkt : q.id <= MaxId(HPkt)  BY <1>2, MaxIdFacts
<1>5. last \in Nat /\ server.last <= last /\ MaxId(HPkt) <= last
  BY <1>1, <1>4, MaxOfTwo
<1>6. fresh \in SUBSET HPkt /\ \A q \in fresh : q.id > server.last  BY DEF Fresh
<1> HIDE DEF fresh, last
<1>7. /\ server'.last = last /\ server'.session = server.session \cup Vals(fresh)
      /\ server'.twice = server.twice \cup (Vals(fresh) \cap server.session)
  BY <1>3
<1>8. HKnown' \in SUBSET HKnown
  <2>1. up \in UploaderStates  BY <1>0 DEF DiskType, TypeOK
  <2>2. HPkt' = HPkt /\ ~AtHistory'  BY <1>3, <2>1 DEF HPkt, AtHistory, UploaderStates
  <2>3. HRows' = HRows /\ \A w \in Writers : Inserting(w)' = Inserting(w)
    BY <1>3 DEF HRows, Inserting
  <2> QED  BY <2>2, <2>3, Known, KnownNext
<1>9. AcceptedOnce'
  <2>1. \A q \in fresh : \A v \in server.session : v < q.val
    BY <1>2, <1>6 DEF OnceInv
  <2>2. \A q \in fresh : q.val \notin server.session
    BY <1>1, <1>2, <1>6, <2>1
  <2> QED  BY <1>7, <2>2 DEF OnceInv, AcceptedOnce, Vals
<1>10. \A v \in server'.session : v <= written["history"]
  BY <1>2, <1>6, <1>7 DEF OnceInv, Vals
<1>11. ASSUME NEW x \in HKnown, x.id > server'.last, NEW v \in server'.session
       PROVE  v < x.val
  <2>1. x.id > server.last /\ x.id > MaxId(HPkt)  BY <1>1, <1>4, <1>5, <1>7, <1>11
  <2>2. CASE v \in server.session  BY <2>1, <2>2 DEF OnceInv
  <2>3. CASE v \notin server.session
    <3>1. PICK q \in fresh : v = q.val  BY <1>7, <1>11, <2>3 DEF Vals
    <3>2. q \in HKnown /\ q.id < x.id  BY <1>1, <1>2, <1>4, <1>6, <2>1
    <3> QED  BY <3>1, <3>2 DEF OnceInv
  <2> QED  BY <2>2, <2>3
<1>12. written' = written  BY <1>3
<1>13. \A x \in HKnown' : x \in HKnown  BY <1>8
<1> QED  BY <1>9, <1>10, <1>11, <1>12, <1>13 DEF OnceInv

\* New rows are behind all others, and so are their values.
LEMMA NewRowsOrdered ==
    ASSUME NEW last \in Nat, NEW n \in Nat, NEW h, NEW t, written[t] \in Nat,
           NEW r \in ToSet(NewRows(t, last, n, h))
    PROVE  /\ r.id \in Nat /\ last < r.id /\ written[t] < r.val /\ r.val <= written[t] + n
           /\ r.val \in Nat
           /\ \A q \in ToSet(NewRows(t, last, n, h)) : r.id < q.id => r.val < q.val
<1> DEFINE s == NewRows(t, last, n, h)
<1>1. s = [k \in 1..n |-> [id |-> last + k, val |-> written[t] + k, handle |-> h]]
  BY DEF NewRows
<1>2. ASSUME NEW q \in ToSet(s)
      PROVE  \E k \in 1..n : q.id = last + k /\ q.val = written[t] + k
  <2>1. DOMAIN s = 1..n  BY <1>1
  <2>2. PICK k \in 1..n : q = s[k]  BY <2>1 DEF ToSet
  <2>3. q = [id |-> last + k, val |-> written[t] + k, handle |-> h]  BY <1>1, <2>2
  <2> QED  BY <2>3
<1> HIDE DEF s
<1>3. PICK k \in 1..n : r.id = last + k /\ r.val = written[t] + k  BY <1>2 DEF s
<1>4. ASSUME NEW q \in ToSet(s), r.id < q.id PROVE r.val < q.val
  <2>1. PICK j \in 1..n : q.id = last + j /\ q.val = written[t] + j  BY <1>2
  <2> QED  BY <1>3, <1>4, <2>1
<1> QED  BY <1>3, <1>4 DEF s

LEMMA AllocIdsKnows ==
    ASSUME DiskInv, OnceInv, NEW w \in Writers, NEW n \in Nat, AllocIds(w, n)
    PROVE  OnceInv'
<1> DEFINE t == WriterTable[w]
           rows == NewRows(t, CachedLast(t), n, wr[w].handle)
<1>0. DiskType /\ TypeOK  BY DEF DiskInv, DiskType
<1>1. /\ written' = [written EXCEPT ![t] = @ + n] /\ UNCHANGED <<db, up, server>>
  BY DEF AllocIds, TakeCachedIds, dbVars
<1>2. wr' = [wr EXCEPT ![w].pc = "insert", ![w].rows = rows]
  BY Zenon DEF AllocIds
<1>3. /\ wr \in [Writers -> WriterStates(Seq(Row))] /\ written \in [Tables -> Nat]
      /\ t \in Tables
  BY <1>0, BufferAssumption DEF TypeOK, BufferAssumption
<1>4. CachedLast(t) \in Nat /\ written[t] \in Nat /\ wr[w].handle \in Nat
  BY <1>0, <1>3, CachedNat DEF WriterStates
<1>5. rows \in Seq(Row)  BY <1>3, <1>4, NewRowsFacts
<1>6. \A r \in ToSet(rows) :
        /\ r.id \in Nat /\ CachedLast(t) < r.id /\ written[t] < r.val /\ r.val <= written[t] + n
        /\ r.val \in Nat
        /\ \A q \in ToSet(rows) : r.id < q.id => r.val < q.val
  BY <1>4, NewRowsOrdered
<1> HIDE DEF rows
<1>7. wr'[w].pc = "insert" /\ wr'[w].rows = rows /\ \A v \in Writers \ {w} : wr'[v] = wr[v]
  BY <1>2, <1>3, <1>5, WriterTyped
<1>8. HRows' = HRows /\ HPkt' = HPkt /\ (AtHistory' <=> AtHistory)
  BY <1>1 DEF HRows, HPkt, AtHistory
<1>9. \A v \in Writers \ {w} : Inserting(v)' = Inserting(v)  BY <1>7 DEF Inserting
<1>10. CASE t # "history"
  <2>1. Inserting(w)' = {}  BY <1>10 DEF Inserting
  <2>2. \A v \in Writers : Inserting(v)' \in SUBSET HKnown  BY <1>9, <2>1, Known
  <2>3. HKnown' \in SUBSET HKnown  BY <1>1, <1>8, <2>2, Known, KnownNext
  <2>4. written'["history"] = written["history"]  BY <1>1, <1>3, <1>10, HistoryTable
  <2>5. server' = server  BY <1>1
  <2> QED  BY <2>3, <2>4, <2>5, KnownShrinks
<1>11. CASE t = "history"
  <2> DEFINE N == ToSet(rows)
             K == HKnown \cup N
             sum == written["history"]
             sum2 == written'["history"]
  <2>1. Inserting(w)' = N  BY <1>7, <1>11 DEF Inserting
  <2>2. \A v \in Writers : Inserting(v)' \in SUBSET K  BY <1>9, <2>1, Known
  <2>3. HKnown' \in SUBSET K
    <3>1. HRows' \in SUBSET K /\ HPkt' \in SUBSET K /\ (AtHistory' => up'.rows \in SUBSET K)
      BY <1>1, <1>8, Known
    <3> HIDE DEF K
    <3> QED  BY <2>2, <3>1, KnownNext
  <2>4. sum2 = sum + n /\ sum \in Nat  BY <1>1, <1>3, <1>11, HistoryTable
  <2>5. CachedLast(t) = HLast /\ written[t] = sum  BY <1>11 DEF HLast
  <2>6. /\ \A x \in HKnown : x.id \in Nat /\ x.val \in Nat /\ x.id <= HLast
        /\ HLast \in Nat /\ server.last \in Nat /\ server.last <= HLast
        /\ server.session \in SUBSET Nat
    BY KnownTypes
  <2>7. \A r \in N : /\ r.id \in Nat /\ HLast < r.id /\ sum < r.val /\ r.val <= sum + n
                     /\ r.val \in Nat
                     /\ \A q \in N : r.id < q.id => r.val < q.val
    BY <1>6, <2>5
  <2>8. /\ \A x, y \in HKnown : x.id < y.id => x.val < y.val
        /\ \A x \in HKnown : x.val <= sum
        /\ \A v \in server.session : v <= sum
        /\ \A x \in HKnown : x.id > server.last => \A v \in server.session : v < x.val
        /\ AcceptedOnce
    BY DEF OnceInv
  <2> HIDE DEF N, sum, sum2, t
  <2>9. ASSUME NEW x \in K, NEW y \in K, x.id < y.id PROVE x.val < y.val
    <3>1. CASE x \in HKnown /\ y \in HKnown  BY <2>8, <2>9, <3>1
    <3>2. CASE x \in HKnown /\ y \in N
      <4>1. x.val <= sum /\ x.val \in Nat /\ sum < y.val /\ y.val \in Nat  BY <2>6, <2>7, <2>8, <3>2
      <4> QED  BY <2>4, <4>1
    <3>3. CASE x \in N /\ y \in HKnown
      <4>1. HLast < x.id /\ x.id \in Nat /\ y.id <= HLast /\ y.id \in Nat  BY <2>6, <2>7, <3>3
      <4> QED  BY <2>6, <2>9, <4>1
    <3>4. CASE x \in N /\ y \in N  BY <2>7, <2>9, <3>4
    <3> QED  BY <3>1, <3>2, <3>3, <3>4
  <2>10. ASSUME NEW x \in K PROVE x.val <= sum2
    <3>1. CASE x \in HKnown
      <4>1. x.val <= sum /\ x.val \in Nat  BY <2>6, <2>8, <3>1
      <4> QED  BY <2>4, <4>1
    <3>2. CASE x \in N  BY <2>4, <2>7, <3>2
    <3> QED  BY <3>1, <3>2
  <2>11. ASSUME NEW v \in server.session PROVE v <= sum2
    <3>1. v <= sum /\ v \in Nat  BY <2>6, <2>8
    <3> QED  BY <2>4, <3>1
  <2>12. ASSUME NEW x \in K, x.id > server.last, NEW v \in server.session PROVE v < x.val
    <3>1. CASE x \in HKnown  BY <2>8, <2>12, <3>1
    <3>2. CASE x \in N
      <4>1. v <= sum /\ v \in Nat /\ sum < x.val /\ x.val \in Nat  BY <2>6, <2>7, <2>8, <3>2
      <4> QED  BY <2>4, <4>1
    <3> QED  BY <3>1, <3>2
  <2>13. \A x \in HKnown' : x \in K  BY <2>3
  <2> HIDE DEF K
  <2>14. server' = server /\ AcceptedOnce'  BY <1>1, <2>8 DEF AcceptedOnce
  <2> QED  BY <2>9, <2>10, <2>11, <2>12, <2>13, <2>14 DEF OnceInv, sum2
<1> QED  BY <1>10, <1>11

\* The other steps of a writer bring in no history row that was not known.
LEMMA WriteKnows ==
    ASSUME DiskInv, OnceInv, NEW w \in Writers, Write(w)
    PROVE  OnceInv'
<1>0. DiskShape /\ TypeOK  BY DEF DiskInv, DiskType
<1>1. /\ Dst(state) = "database" /\ state = "database" /\ wr[w].dst = "database"
  BY <1>0, DiskUses DEF DiskShape
<1>2. wr \in [Writers -> WriterStates(Seq(Row))]  BY <1>0 DEF TypeOK
<1>3. ~CloseEmpty(w) /\ \A n : ~CloseMemory(w, n)  BY <1>1 DEF CloseEmpty, CloseMemory
<1>4. CASE \E n \in 0..MaxBatch : AllocIds(w, n)
  <2>1. \A n \in 0..MaxBatch : n \in Nat  BY BufferAssumption DEF BufferAssumption
  <2> QED  BY <1>4, <2>1, AllocIdsKnows
<1>5. CASE Commit(w)
  <2> DEFINE new == [t \in Tables |-> IF t = WriterTable[w] THEN ToSet(wr[w].rows) ELSE {}]
  <2>1. /\ wr[w].pc = "insert" /\ db' = Inserted(db, new)
        /\ wr' = [wr EXCEPT ![w].pc = "committed"]
        /\ UNCHANGED <<up, server, written>>
    BY <1>5 DEF Commit, histVars
  <2>2. new["history"] \in SUBSET Inserting(w)
    BY <2>1, HistoryTable DEF Inserting
  <2> HIDE DEF new
  <2>3. HRows' \in SUBSET (HRows \cup Inserting(w))
    BY <2>1, <2>2, HistoryTable DEF Inserted, HRows
  <2>4. wr'[w].pc = "committed" /\ \A v \in Writers \ {w} : wr'[v] = wr[v]
    BY <1>2, <2>1 DEF WriterStates
  <2>5. \A v \in Writers : Inserting(v)' \in SUBSET Inserting(v)  BY <2>4 DEF Inserting
  <2>6. HPkt' = HPkt /\ (AtHistory' <=> AtHistory) /\ up' = up  BY <2>1 DEF HPkt, AtHistory
  <2>7. HRows' \in SUBSET HKnown /\ \A v \in Writers : Inserting(v)' \in SUBSET HKnown
    BY <2>3, <2>5, Known
  <2>8. HKnown' \in SUBSET HKnown  BY <2>6, <2>7, Known, KnownNext
  <2> QED  BY <2>1, <2>8, KnownShrinks
<1>6. CASE Open(w) \/ WriteHost(w) \/ Finish(w)
  <2>1. UNCHANGED <<db, up, server, written>>
    BY <1>0, <1>1, <1>6 DEF Open, WriteHost, Finish, StoreInMemory, StoreTooOld, StoreOverflow,
                 TooOld, StoreInDatabase, DiskShape, dbVars, histVars
  <2>2. wr'[w].pc # "insert" /\ \A v \in Writers \ {w} : wr'[v] = wr[v]
    <3>1. CASE Open(w)  BY <1>2, <3>1 DEF Open
    <3>2. CASE Finish(w)  BY <1>2, <3>2 DEF Finish, Closed
    <3>3. CASE WriteHost(w)
      <4>1. StoreInDatabase(w, "alloc", <<>>)
        BY <1>1, <3>3 DEF WriteHost, StoreInMemory, StoreTooOld, StoreOverflow, TooOld
      <4>2. wr' = [wr EXCEPT ![w].pc = "alloc", ![w].rows = <<>>]
        BY <4>1 DEF StoreInDatabase, ToDatabase
      <4>3. <<>> \in Seq(Row)  OBVIOUS
      <4> QED  BY <1>2, <4>2, <4>3, WriterTyped
    <3> QED  BY <1>6, <3>1, <3>2, <3>3
  <2>3. \A v \in Writers : Inserting(v)' \in SUBSET Inserting(v)  BY <2>2 DEF Inserting
  <2>4. HRows' = HRows /\ HPkt' = HPkt /\ (AtHistory' <=> AtHistory) /\ up' = up
    BY <2>1 DEF HRows, HPkt, AtHistory
  <2>5. \A v \in Writers : Inserting(v)' \in SUBSET HKnown  BY <2>3, Known
  <2>6. HKnown' \in SUBSET HKnown  BY <2>4, <2>5, Known, KnownNext
  <2> QED  BY <2>1, <2>6, KnownShrinks
<1> QED  BY <1>3, <1>4, <1>5, <1>6 DEF Write

\* A new start empties the session; disabling the buffer changes no row.
LEMMA RestartKnows ==
    ASSUME DiskInv, OnceInv, Crash \/ Stop \/ Disable
    PROVE  OnceInv'
<1>0. TypeOK  BY DEF DiskInv, DiskType
<1>1. CASE Disable
  <2>1. UNCHANGED <<db, wr, up, server, written>>  BY <1>1 DEF Disable, dbVars
  <2>2. HPkt' = HPkt /\ (AtHistory' <=> AtHistory) /\ up' = up  BY <2>1 DEF HPkt, AtHistory
  <2> QED  BY <2>1, <2>2, Known, UploaderKnows
<1>2. CASE Crash \/ Stop
  <2>1. Start(db, ids)  BY <1>2, StopStarts DEF Crash
  <2>2. /\ db' = db /\ wr' = [w \in Writers |-> Closed] /\ up' = Uploader("idle", 1)
        /\ written' = written /\ server' = [server EXCEPT !.last = 0, !.session = {}]
    BY <2>1 DEF Start
  <2>3. HRows' = HRows /\ HPkt' = {} /\ ~AtHistory'
    BY <2>2, UploaderFields, HistoryTable DEF HRows, HPkt, AtHistory
  <2>4. \A w \in Writers : Inserting(w)' = {}  BY <2>2 DEF Inserting, Closed
  <2>5. HKnown' \in SUBSET HKnown  BY <2>3, <2>4, Known, KnownNext
  <2>6. server'.session = {} /\ server'.twice = server.twice
    BY <1>0, <2>2 DEF TypeOK, ServerStates
  <2>7. \A x \in HKnown' : x \in HKnown  BY <2>5
  <2> QED  BY <2>2, <2>6, <2>7 DEF OnceInv, AcceptedOnce
<1> QED  BY <1>1, <1>2

LEMMA HousekeepKnows ==
    ASSUME DiskInv, OnceInv, NEW t \in Tables, Housekeep(t)
    PROVE  OnceInv'
<1>1. UNCHANGED <<wr, up, server, written>>  BY DEF Housekeep
<1>2. \E S : db' = [db EXCEPT ![t] = @ \ S]  BY DEF Housekeep
<1>3. db \in [Tables -> SUBSET Row]  BY DEF DiskInv, DiskType, TypeOK
<1>4. HRows' \in SUBSET HRows  BY <1>2, <1>3, HistoryTable DEF HRows
<1>5. HPkt' = HPkt /\ (AtHistory' <=> AtHistory) /\ up' = up  BY <1>1 DEF HPkt, AtHistory
<1>6. \A w \in Writers : Inserting(w)' = Inserting(w)  BY <1>1 DEF Inserting
<1>7. HKnown' \in SUBSET HKnown  BY <1>4, <1>5, <1>6, Known, KnownNext
<1> QED  BY <1>1, <1>7, KnownShrinks

LEMMA OnceNext ==
    ASSUME DiskInv, OnceInv, [Next]_vars
    PROVE  OnceInv'
<1>1. CASE Next
  BY <1>1, WriteKnows, ReadKnows, DeliverKnows, AcknowledgeKnows, HousekeepKnows, RestartKnows
     DEF Next
<1>2. CASE UNCHANGED vars
  <2>1. UNCHANGED <<db, wr, up, server, written>>  BY <1>2 DEF vars, dbVars, histVars
  <2>2. HPkt' = HPkt /\ (AtHistory' <=> AtHistory) /\ up' = up  BY <2>1 DEF HPkt, AtHistory
  <2> QED  BY <2>1, <2>2, Known, UploaderKnows
<1> QED  BY <1>1, <1>2

\* In disk mode, within one session, no history value is stored twice, whatever
\* is sent again after a lost reply: process_history_data_by_itemids skips all
\* rows up to the session's last id, and every later row has a newer value.
THEOREM DiskAcceptedOnce == Mode = "disk" => (Spec => []AcceptedOnce)
<1> SUFFICES ASSUME Mode = "disk" PROVE Spec => []AcceptedOnce  OBVIOUS
<1>1. Init => OnceInv
  <2> SUFFICES ASSUME Init PROVE OnceInv  OBVIOUS
  <2>1. HRows = {} /\ up.pc = "idle" /\ HPkt = {} /\ \A w \in Writers : Inserting(w) = {}
    BY HistoryTable DEF Init, HRows, HPkt, Uploader, Inserting, Closed
  <2>2. \A x : x \notin HKnown  BY <2>1, KnownOnly DEF AtHistory
  <2>3. server.session = {} /\ server.twice = {}  BY DEF Init
  <2> QED  BY <2>2, <2>3 DEF OnceInv, AcceptedOnce
<1>2. DiskInv /\ OnceInv /\ [Next]_vars => OnceInv'  BY OnceNext
<1>3. OnceInv => AcceptedOnce  BY DEF OnceInv
<1>4. Spec => []DiskInv  BY DiskInvariant
<1> QED  BY <1>1, <1>2, <1>3, <1>4, PTL DEF Spec
=============================================================================
