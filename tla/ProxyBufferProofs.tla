------------------------- MODULE ProxyBufferProofs -------------------------
(* Theorems about ProxyBuffer, for all values of its constants. *)
EXTENDS ProxyBuffer, FiniteSetTheorems, SequenceTheorems, WellFoundedInduction, TLAPS

----------------------------------------------------------------------------
(* Handles, in every mode. *)

WriterShape == handleid \in Nat /\ \E R : wr \in [Writers -> WriterStates(R)]

HandleInv == WriterShape /\ HandlesCounted

\* What a step of one writer does to the number of handles.
LEMMA CountStep ==
    ASSUME HandlesCounted, NEW w \in Writers,
           \A v \in Writers \ {w} : WritesDatabase(v)' <=> WritesDatabase(v),
           WritesDatabase(w)' /\ ~WritesDatabase(w) => db_handles_num' = db_handles_num + 1,
           ~WritesDatabase(w)' /\ WritesDatabase(w) => db_handles_num' = db_handles_num - 1,
           (WritesDatabase(w)' <=> WritesDatabase(w)) => db_handles_num' = db_handles_num
    PROVE  HandlesCounted'
<1> DEFINE S == {v \in Writers : WritesDatabase(v)}
           T == {v \in Writers : WritesDatabase(v)'}
<1>1. IsFiniteSet(S)
  BY BufferAssumption, FS_Subset DEF BufferAssumption
<1>2. Cardinality(S) \in Nat
  BY <1>1, FS_CardinalityType
<1>3. CASE WritesDatabase(w)' /\ ~WritesDatabase(w)
  <2>1. T = S \cup {w} /\ w \notin S  BY <1>3
  <2> QED  BY <1>1, <1>2, <1>3, <2>1, FS_AddElement DEF HandlesCounted
<1>4. CASE ~WritesDatabase(w)' /\ WritesDatabase(w)
  <2>1. T = S \ {w} /\ w \in S  BY <1>4
  <2> QED  BY <1>1, <1>2, <1>4, <2>1, FS_RemoveElement DEF HandlesCounted
<1>5. CASE WritesDatabase(w)' <=> WritesDatabase(w)
  <2>1. T = S  BY <1>5
  <2> QED  BY <1>5, <2>1 DEF HandlesCounted
<1> QED  BY <1>3, <1>4, <1>5

\* The uploader, the housekeeper and the beginning of a shutdown leave the
\* writers and their handles alone.
LEMMA QuietSteps ==
    Read \/ Deliver \/ SendFails \/ Acknowledge \/ (\E t \in Tables : Housekeep(t)) \/ Disable
    => UNCHANGED <<wr, db_handles_num, handleid, history_handleids>>
<1>1. Read => UNCHANGED <<wr, db_handles_num, handleid, history_handleids>>
  <2> DEFINE Same == UNCHANGED <<wr, db_handles_num, handleid, history_handleids>>
  <2>1. UploadStart \/ SelectHistoryGap \/ CollectHandles \/ WaitHandles => Same
    BY DEF UploadStart, SelectHistoryGap, CollectHandles, WaitHandles, pbVars
  <2>2. \A t : ReadLastid(t) => Same  BY DEF ReadLastid, pbVars
  <2>3. \A t, more : SkipTable(t, more) => Same  BY DEF SkipTable, pbVars
  <2>4. \A t, k, full : ReadMemory(t, k, full) => Same  BY DEF ReadMemory, pbVars
  <2>5. \A last, full : SelectHistory(last, full) => Same  BY DEF SelectHistory, pbVars
  <2>6. \A t, last, full : SelectOther(t, last, full) => Same  BY DEF SelectOther, pbVars
  <2> QED  BY <2>1, <2>2, <2>3, <2>4, <2>5, <2>6 DEF Read
<1>2. Deliver \/ SendFails => UNCHANGED <<wr, db_handles_num, handleid, history_handleids>>
  BY DEF Deliver, SendFails, pbVars
<1>3. Acknowledge => UNCHANGED <<wr, db_handles_num, handleid, history_handleids>>
  BY DEF Acknowledge, ReplyReceived, SkipUpdate, UpdateState, SetLastid, CommitLastids, pbVars
<1>4. (\E t \in Tables : Housekeep(t)) \/ Disable
      => UNCHANGED <<wr, db_handles_num, handleid, history_handleids>>
  BY DEF Housekeep, Disable, pbVars
<1> QED  BY <1>1, <1>2, <1>3, <1>4

\* The four ways to store rows end with the handle closed and not counted, or
\* going on to the database and counted.
LEMMA StoreSteps ==
    ASSUME NEW w \in Writers, NEW t, NEW m, NEW pc, NEW rows, NEW dbrows,
           \/ StoreTooOld(w, t, m, pc, dbrows)
           \/ StoreInMemory(w, t, m, rows)
           \/ StoreOverflow(w, t, m, pc, rows)
           \/ StoreInDatabase(w, pc, dbrows)
    PROVE  \/ Done(w)
           \/ \E r : ToDatabase(w, pc, r)
BY DEF StoreTooOld, StoreInMemory, StoreOverflow, StoreInDatabase

\* A step of a writer that changes only its place and its rows keeps the
\* writers' records well formed.
LEMMA ShapeKept ==
    ASSUME WriterShape, NEW w \in Writers, handleid' = handleid, NEW r,
           NEW pc \in {"idle", "open", "alloc", "insert", "committed"},
           wr' = [wr EXCEPT ![w].pc = pc, ![w].rows = r]
    PROVE  WriterShape'
<1>1. PICK R : wr \in [Writers -> WriterStates(R)]  BY DEF WriterShape
<1>2. wr' \in [Writers -> WriterStates(R \cup {r})]  BY <1>1 DEF WriterStates
<1> QED  BY <1>2 DEF WriterShape

\* So does one that replaces the whole record of a writer (open, close).
LEMMA ShapeReset ==
    ASSUME WriterShape, NEW w \in Writers, handleid' \in Nat, NEW s, NEW R,
           s \in WriterStates(R), wr' = [wr EXCEPT ![w] = s]
    PROVE  WriterShape'
<1>1. PICK Q : wr \in [Writers -> WriterStates(Q)]  BY DEF WriterShape
<1>2. wr' \in [Writers -> WriterStates(Q \cup R)]  BY <1>1 DEF WriterStates
<1> QED  BY <1>2 DEF WriterShape

\* Every step of a writing process keeps the handle count: it is raised when a
\* handle is opened for the database or turns to it, and lowered once, at the end.
LEMMA WriterStep ==
    ASSUME HandleInv, NEW w \in Writers, Write(w)
    PROVE  HandleInv'
<1>0. WriterShape /\ HandlesCounted  BY DEF HandleInv
<1>r. PICK R : wr \in [Writers -> WriterStates(R)]  BY <1>0 DEF WriterShape
<1>c. Closed \in WriterStates({<<>>})  BY DEF Closed, WriterStates
<1>1. CASE Open(w)
  <2> DEFINE s == [pc |-> "open", dst |-> Dst(state), handle |-> handleid + 1, rows |-> <<>>]
  <2>1. s \in WriterStates({<<>>}) /\ handleid + 1 \in Nat
    BY <1>0 DEF Dst, WriterStates, WriterShape
  <2>2. wr' = [wr EXCEPT ![w] = s] /\ handleid' = handleid + 1 /\ wr[w].pc = "idle"
    BY <1>1 DEF Open
  <2>3. WriterShape'  BY <1>0, <2>1, <2>2, ShapeReset
  <2>4. \A v \in Writers \ {w} : wr'[v] = wr[v]  BY <1>r, <2>2
  <2>5. wr'[w].pc = "open" /\ wr'[w].dst = Dst(state)  BY <1>r, <2>2
  <2>6. db_handles_num' = IF Dst(state) = "database" THEN db_handles_num + 1 ELSE db_handles_num
    BY <1>1 DEF Open
  <2> QED  BY <1>0, <2>2, <2>3, <2>4, <2>5, <2>6, CountStep DEF WritesDatabase, HandleInv
<1>2. ASSUME wr' = [wr EXCEPT ![w] = Closed], handleid' = handleid,
             db_handles_num' = IF WritesDatabase(w) THEN db_handles_num - 1 ELSE db_handles_num
      PROVE  HandleInv'
  <2>1. WriterShape'
    <3>1. handleid' \in Nat  BY <1>0, <1>2 DEF WriterShape
    <3> QED  BY <1>0, <1>c, <1>2, <3>1, ShapeReset
  <2>2. \A v \in Writers \ {w} : wr'[v] = wr[v]  BY <1>r, <1>2
  <2>3. wr'[w].pc = "idle"  BY <1>r, <1>2 DEF Closed
  <2>4. ~WritesDatabase(w)'  BY <2>3 DEF WritesDatabase
  <2>5. \A v \in Writers \ {w} : WritesDatabase(v)' <=> WritesDatabase(v)
    BY <2>2 DEF WritesDatabase
  <2> QED  BY <1>0, <1>2, <2>1, <2>4, <2>5, CountStep DEF HandleInv
<1>3. ASSUME NEW r, NEW pc \in {"insert", "alloc"}, handleid' = handleid,
             wr' = [wr EXCEPT ![w].pc = pc, ![w].rows = r],
             db_handles_num' = IF WritesDatabase(w) THEN db_handles_num ELSE db_handles_num + 1
      PROVE  HandleInv'
  <2>1. WriterShape'  BY <1>0, <1>3, ShapeKept
  <2>2. \A v \in Writers \ {w} : wr'[v] = wr[v]  BY <1>r, <1>3
  <2>3. wr'[w].pc = pc  BY <1>r, <1>3 DEF WriterStates
  <2>4. WritesDatabase(w)'  BY <2>3 DEF WritesDatabase
  <2>5. \A v \in Writers \ {w} : WritesDatabase(v)' <=> WritesDatabase(v)
    BY <2>2 DEF WritesDatabase
  <2> QED  BY <1>0, <1>3, <2>1, <2>4, <2>5, CountStep DEF HandleInv
<1>4. ASSUME NEW pc \in {"insert", "alloc"}, Done(w) \/ (\E r : ToDatabase(w, pc, r)),
             ~WritesDatabase(w), handleid' = handleid
      PROVE  HandleInv'
  BY <1>2, <1>3, <1>4 DEF Done, ToDatabase
<1>5. CASE CloseEmpty(w)
  <2>1. ~WritesDatabase(w)  BY <1>5 DEF CloseEmpty, WritesDatabase
  <2> QED  BY <1>2, <1>5, <2>1 DEF CloseEmpty
<1>6. ASSUME NEW n, CloseMemory(w, n) PROVE HandleInv'
  <2>1. ~WritesDatabase(w)  BY <1>6 DEF CloseMemory, WritesDatabase
  <2>2. Done(w) \/ \E r : ToDatabase(w, "insert", r)
    BY <1>6, StoreSteps DEF CloseMemory
  <2>3. handleid' = handleid  BY <1>6 DEF CloseMemory
  <2> QED  BY <1>4, <2>1, <2>2, <2>3
<1>7. CASE WriteHost(w)
  <2>1. ~WritesDatabase(w)  BY <1>7 DEF WriteHost, WritesDatabase
  <2>2. Done(w) \/ \E r : ToDatabase(w, "alloc", r)
    BY <1>7, StoreSteps DEF WriteHost
  <2>3. handleid' = handleid  BY <1>7 DEF WriteHost
  <2> QED  BY <1>4, <2>1, <2>2, <2>3
<1>8. ASSUME NEW n \in 0..MaxBatch, AllocIds(w, n) PROVE HandleInv'
  <2>1. \E r : wr' = [wr EXCEPT ![w].pc = "insert", ![w].rows = r]
    BY <1>8, Zenon DEF AllocIds
  <2>2. WritesDatabase(w)  BY <1>8 DEF AllocIds, WritesDatabase
  <2>3. UNCHANGED <<db_handles_num, handleid>>  BY <1>8 DEF AllocIds, pbVars
  <2> QED  BY <1>3, <2>1, <2>2, <2>3
<1>9. CASE Commit(w)
  <2>1. /\ wr' = [wr EXCEPT ![w].pc = "committed"] /\ wr[w].pc = "insert"
        /\ UNCHANGED <<db_handles_num, handleid>>
    BY <1>9 DEF Commit, pbVars
  <2>2. wr' \in [Writers -> WriterStates(R)]  BY <1>r, <2>1 DEF WriterStates
  <2>3. WriterShape'  BY <1>0, <2>1, <2>2 DEF WriterShape
  <2>4. \A v \in Writers \ {w} : wr'[v] = wr[v]  BY <1>r, <2>1
  <2>5. wr'[w].pc = "committed"  BY <1>r, <2>1 DEF WriterStates
  <2> QED  BY <1>0, <2>1, <2>3, <2>4, <2>5, CountStep DEF WritesDatabase, HandleInv
<1>10. CASE Finish(w)
  <2>1. WritesDatabase(w)  BY <1>10 DEF Finish, WritesDatabase
  <2> QED  BY <1>2, <1>10, <2>1 DEF Finish
<1> QED  BY <1>1, <1>5, <1>6, <1>7, <1>8, <1>9, <1>10 DEF Write

\* A started proxy has no handles.
LEMMA StartedHandles ==
    ASSUME wr' = [w \in Writers |-> Closed], db_handles_num' = 0, handleid' = 0
    PROVE  HandleInv'
<1>1. wr' \in [Writers -> WriterStates({<<>>})]
  BY DEF WriterStates, Closed
<1>2. {w \in Writers : WritesDatabase(w)'} = {}
  BY DEF WritesDatabase, Closed
<1> QED  BY <1>1, <1>2, FS_EmptySet DEF HandleInv, WriterShape, HandlesCounted

\* The handle count and the shape it needs hold in every reachable state, in all
\* modes (db_handles_num in zbx_pb_*_open, close and pb_autoreg_write_host).
THEOREM HandleInvariant == Spec => []HandleInv
<1>1. Init => HandleInv
  <2> SUFFICES ASSUME Init PROVE HandleInv  OBVIOUS
  <2>1. {w \in Writers : WritesDatabase(w)} = {}
    BY DEF Init, WritesDatabase, Closed
  <2>2. wr \in [Writers -> WriterStates({<<>>})]  BY DEF Init, WriterStates, Closed
  <2> QED  BY <2>1, <2>2, FS_EmptySet DEF Init, HandleInv, WriterShape, HandlesCounted
<1>2. HandleInv /\ [Next]_vars => HandleInv'
  <2> SUFFICES ASSUME HandleInv, [Next]_vars PROVE HandleInv'  OBVIOUS
  <2>1. CASE \E w \in Writers : Write(w)
    BY <2>1, WriterStep
  <2>2. CASE UNCHANGED <<wr, db_handles_num, handleid>>
    BY <2>2 DEF HandleInv, WriterShape, HandlesCounted, WritesDatabase
  <2>3. CASE Crash \/ Stop
    BY <2>3, StartedHandles DEF Crash, Stop, Start
  <2> QED  BY <2>1, <2>2, <2>3, QuietSteps DEF Next, vars, pbVars
<1> QED  BY <1>1, <1>2, PTL DEF Spec

\* Whatever the mode, and whichever processes open, close and retry handles,
\* db_handles_num is the number of handles that are going to write rows to the
\* database (zbx_pb_history_close and its siblings raise and lower it).
THEOREM HandleCount == Spec => []HandlesCounted
BY HandleInvariant, PTL DEF HandleInv

----------------------------------------------------------------------------
(* Facts about the operators on rows and ids that ProxyBuffer is built from. *)

\* Every set of naturals that has an element has a least one.
LEMMA LeastNat ==
    ASSUME NEW S \in SUBSET Nat, S # {}
    PROVE  \E x \in S : \A y \in S : x <= y
<1>1. PICK x \in S : \A y \in S : ~(<<y, x>> \in OpToRel(<, Nat))
  BY NatLessThanWellFounded, WFMin
<1>2. \A y \in S : ~(y < x)
  BY <1>1 DEF OpToRel
<1> QED  BY <1>2

\* What Min returns for a non-empty set of ids.
LEMMA MinFacts ==
    ASSUME NEW S \in SUBSET Nat, S # {}
    PROVE  Min(S) \in S /\ \A y \in S : Min(S) <= y
BY LeastNat DEF Min

\* A finite set of naturals has a greatest element: one with the fewest
\* elements above it.
LEMMA GreatestNat ==
    ASSUME NEW S \in SUBSET Nat, S # {}, IsFiniteSet(S)
    PROVE  \E x \in S : \A y \in S : y <= x
<1> DEFINE Above(x) == {y \in S : y > x}
           Counts == {Cardinality(Above(x)) : x \in S}
<1>1. \A x \in S : IsFiniteSet(Above(x)) /\ Cardinality(Above(x)) \in Nat
  BY FS_Subset, FS_CardinalityType
<1>2. Counts \in SUBSET Nat /\ Counts # {}
  BY <1>1
<1>c. PICK c \in Counts : \A d \in Counts : c <= d
  <2> HIDE DEF Counts
  <2> QED  BY <1>2, LeastNat
<1>3. PICK x \in S : \A y \in S : Cardinality(Above(x)) <= Cardinality(Above(y))
  <2>1. PICK x \in S : c = Cardinality(Above(x))  OBVIOUS
  <2>2. \A y \in S : Cardinality(Above(y)) \in Counts  OBVIOUS
  <2> HIDE DEF Counts, Above
  <2> QED  BY <1>c, <2>1, <2>2
<1>4. ASSUME NEW y \in S, y > x PROVE FALSE
  <2>1. Above(y) \in SUBSET Above(x) /\ y \in Above(x) /\ y \notin Above(y)
    <3>1. \A z \in S : z > y => z > x  BY <1>4
    <3>2. Above(y) \in SUBSET Above(x)  BY <3>1
    <3>3. y \in Above(x)  BY <1>4
    <3>4. ~(y > y)  BY <1>4
    <3> QED  BY <3>2, <3>3, <3>4
  <2>2. /\ Cardinality(Above(y)) <= Cardinality(Above(x))
        /\ Cardinality(Above(x)) = Cardinality(Above(y)) => Above(x) = Above(y)
    BY <1>1, <2>1, FS_Subset
  <2> QED  BY <1>1, <1>3, <2>1, <2>2
<1> QED  BY <1>4

\* What Max returns for a finite non-empty set of ids.
LEMMA MaxFacts ==
    ASSUME NEW S \in SUBSET Nat, S # {}, IsFiniteSet(S)
    PROVE  Max(S) \in S /\ \A y \in S : y <= Max(S)
BY GreatestNat DEF Max

\* What Max returns for two ids.
LEMMA MaxOfTwo ==
    ASSUME NEW a \in Nat, NEW b \in Nat
    PROVE  /\ Max({a, b}) \in Nat /\ a <= Max({a, b}) /\ b <= Max({a, b})
           /\ Max({a, b}) = a \/ Max({a, b}) = b
<1> DEFINE S == {a, b}
<1>1. S \in SUBSET Nat /\ S # {}  OBVIOUS
<1>2. IsFiniteSet(S)
  <2>1. IsFiniteSet({a})  BY FS_Singleton
  <2>2. S = {a} \cup {b}  OBVIOUS
  <2> QED  BY <2>1, <2>2, FS_AddElement
<1>3. Max(S) \in S /\ \A y \in S : y <= Max(S)
  <2> HIDE DEF S
  <2> QED  BY <1>1, <1>2, MaxFacts
<1> QED  BY <1>1, <1>3

\* A finite set of rows has finitely many ids.
LEMMA IdsFinite ==
    ASSUME NEW S \in SUBSET Row, IsFiniteSet(S)
    PROVE  IsFiniteSet(Ids(S)) /\ Ids(S) \in SUBSET Nat
<1> DEFINE f == [r \in S |-> r.id]
<1>1. f \in Surjection(S, Ids(S))  BY DEF Surjection, Ids
<1> QED  BY <1>1, FS_Surjection DEF Ids, Row

\* MaxId is 0 or the id of a row, and no row has a larger one.
LEMMA MaxIdFacts ==
    ASSUME NEW S \in SUBSET Row, IsFiniteSet(S)
    PROVE  /\ MaxId(S) \in Nat
           /\ \A r \in S : r.id <= MaxId(S)
           /\ S # {} => \E r \in S : r.id = MaxId(S)
           /\ S = {} => MaxId(S) = 0
<1> DEFINE N == {0} \cup Ids(S)
<1>1. IsFiniteSet(Ids(S)) /\ Ids(S) \in SUBSET Nat  BY IdsFinite
<1>2. N \in SUBSET Nat /\ N # {}  BY <1>1
<1>3. IsFiniteSet(N)
  <2>1. N = Ids(S) \cup {0}  OBVIOUS
  <2> QED  BY <1>1, <2>1, FS_AddElement
<1>4. MaxId(S) = Max(N)  BY DEF MaxId
<1>5. MaxId(S) \in N /\ \A y \in N : y <= MaxId(S)  BY <1>2, <1>3, <1>4, MaxFacts
<1>6. \A r \in S : r.id \in N /\ r.id \in Nat  BY DEF Ids, Row
<1>7. S # {} => \E r \in S : r.id = MaxId(S)
  <2> SUFFICES ASSUME NEW q \in S, \A r \in S : r.id # MaxId(S) PROVE FALSE
    OBVIOUS
  <2>1. MaxId(S) = 0  BY <1>5 DEF Ids
  <2> QED  BY <1>5, <1>6, <2>1
<1> QED  BY <1>2, <1>5, <1>6, <1>7 DEF Ids

\* The elements of a sequence are finitely many.
LEMMA ToSetFacts ==
    ASSUME NEW T, NEW s \in Seq(T)
    PROVE  IsFiniteSet(ToSet(s)) /\ ToSet(s) \in SUBSET T
<1>1. Len(s) \in Nat /\ DOMAIN s = 1..Len(s)  OBVIOUS
<1>2. s \in Surjection(1..Len(s), ToSet(s))  BY <1>1 DEF Surjection, ToSet
<1>3. ExistsSurjection(1..Len(s), ToSet(s))  BY <1>2 DEF ExistsSurjection
<1>4. ToSet(s) \in SUBSET T  BY DEF ToSet
<1> QED  BY <1>1, <1>3, <1>4, FS_NatSurjection

\* FirstRows takes rows after cur, and with a row every earlier one.
LEMMA FirstRowsFacts ==
    ASSUME NEW S \in SUBSET Row, IsFiniteSet(S), NEW cur \in Nat, NEW n \in Int
    PROVE  /\ FirstRows(S, cur, n) \in SUBSET S
           /\ IsFiniteSet(FirstRows(S, cur, n))
           /\ \A r \in FirstRows(S, cur, n) : r.id > cur
           /\ \A r \in FirstRows(S, cur, n), x \in S :
                 cur < x.id /\ x.id <= r.id => x \in FirstRows(S, cur, n)
<1> DEFINE rest == {r \in S : r.id > cur}
           Before(r) == {q \in rest : q.id < r.id}
<1>1. FirstRows(S, cur, n) = {r \in rest : Cardinality(Before(r)) < n}
  BY DEF FirstRows
<1>2. \A r \in S : r.id \in Nat  BY DEF Row
<1>3. ASSUME NEW r \in FirstRows(S, cur, n), NEW x \in S, cur < x.id, x.id <= r.id
      PROVE  x \in FirstRows(S, cur, n)
  <2>1. IsFiniteSet(Before(r)) /\ Before(r) \subseteq S  BY FS_Subset
  <2>2. r \in S /\ Before(x) \subseteq Before(r)  BY <1>1, <1>2, <1>3
  <2>3. IsFiniteSet(Before(x)) /\ Cardinality(Before(x)) <= Cardinality(Before(r))
    BY <2>1, <2>2, FS_Subset
  <2>4. Cardinality(Before(x)) \in Nat /\ Cardinality(Before(r)) \in Nat
    BY <2>1, <2>3, FS_CardinalityType
  <2>5. Cardinality(Before(r)) < n  BY <1>1, <1>3
  <2>6. x \in rest  BY <1>2, <1>3
  <2>7. Cardinality(Before(x)) < n  BY <2>3, <2>4, <2>5
  <2> QED  BY <1>1, <2>6, <2>7
<1>4. FirstRows(S, cur, n) \in SUBSET S  BY <1>1
<1>5. IsFiniteSet(FirstRows(S, cur, n))  BY <1>4, FS_Subset
<1>6. \A r \in FirstRows(S, cur, n) : r.id > cur  BY <1>1
<1> QED  BY <1>3, <1>4, <1>5, <1>6

\* History is always one of the tables.
LEMMA HistoryTable == "history" \in Tables
BY BufferAssumption DEF BufferAssumption

\* The uploader's position names a table.
LEMMA TablePos ==
    /\ DOMAIN TableOrder = 1..Len(TableOrder) /\ Len(TableOrder) \in Nat
    /\ \A i \in DOMAIN TableOrder : TableOrder[i] \in Tables
BY BufferAssumption DEF BufferAssumption, Tables, ToSet

\* table t is done, with rows added to the packet
TableRead(t, rows) == \E more, full \in BOOLEAN : NextTable(t, rows, more, full)

\* the uploader after NextTable
LEMMA NextTableFields ==
    ASSUME up \in UploaderStates, NEW t \in Tables, NEW rows \in SUBSET Row,
           up.pos \in DOMAIN TableOrder, TableRead(t, rows)
    PROVE  /\ up' \in UploaderStates
           /\ up'.pc = "read" /\ up'.rows = {} /\ up'.unsaved = up.unsaved
           /\ up'.pkt[t] = up.pkt[t] \cup rows
           /\ \A u \in Tables \ {t} : up'.pkt[u] = up.pkt[u]
<1>0. PICK more, full \in BOOLEAN : NextTable(t, rows, more, full)
  BY Zenon DEF TableRead
<1>1. up' = [pc |-> "read", pos |-> up.pos + 1, cur |-> 0, gapid |-> 0, waitid |-> up.waitid,
             rows |-> {}, pkt |-> [up.pkt EXCEPT ![t] = @ \cup rows],
             more |-> up.more \/ more, full |-> full, unsaved |-> up.unsaved]
  BY <1>0 DEF NextTable, UploaderStates
<1>2. up.pos + 1 \in 1..(Len(TableOrder) + 1)
  BY TablePos
<1>3. [up.pkt EXCEPT ![t] = @ \cup rows] \in [Tables -> SUBSET Row]
  BY DEF UploaderStates
<1>4. (up.more \/ more) \in BOOLEAN  OBVIOUS
<1> QED  BY <1>0, <1>1, <1>2, <1>3, <1>4 DEF UploaderStates

\* The uploader at the start of a round: nothing fetched, nothing unsaved.
LEMMA UploaderFields ==
    ASSUME NEW pc \in {"idle", "read"}, up' = Uploader(pc, 1)
    PROVE  /\ up' \in UploaderStates
           /\ up'.pc = pc /\ up'.rows = {}
           /\ \A t \in Tables : up'.pkt[t] = {} /\ up'.unsaved[t] = 0
<1>1. 1 \in 1..(Len(TableOrder) + 1)  BY TablePos
<1> QED  BY <1>1 DEF Uploader, UploaderStates

\* the cursor after taking rows P
LEMMA AdvanceFacts ==
    ASSUME NEW P \in SUBSET Row, IsFiniteSet(P), NEW cur \in Nat
    PROVE  /\ Advance(cur, P) \in Nat /\ cur <= Advance(cur, P)
           /\ \A r \in P : r.id <= Advance(cur, P)
           /\ Advance(cur, P) = cur \/ \E r \in P : r.id = Advance(cur, P)
<1> DEFINE N == {cur} \cup Ids(P)
<1>1. IsFiniteSet(Ids(P)) /\ Ids(P) \in SUBSET Nat  BY IdsFinite
<1>2. N \in SUBSET Nat /\ N # {}  BY <1>1
<1>3. N = Ids(P) \cup {cur}  OBVIOUS
<1>4. IsFiniteSet(N)  BY <1>1, <1>3, FS_AddElement
<1>5. Max(N) \in N /\ \A y \in N : y <= Max(N)
  <2> HIDE DEF N
  <2> QED  BY <1>2, <1>4, MaxFacts
<1>6. Advance(cur, P) = Max(N)  BY DEF Advance
<1> QED  BY <1>2, <1>5, <1>6 DEF Ids

\* The uploader when it has read the last uploaded id (pb_get_lastid).
LEMMA ReadLastidFields ==
    ASSUME up \in UploaderStates, NEW t \in Tables, ids[t] \in Nat, ReadLastid(t)
    PROVE  /\ up' \in UploaderStates
           /\ up'.pc = "select" /\ up'.pos = up.pos /\ up'.cur = ids[t] /\ up'.gapid = 0
           /\ up'.rows = {} /\ up'.pkt = up.pkt /\ up'.unsaved = up.unsaved
<1>1. up' = [pc |-> "select", pos |-> up.pos, cur |-> ids[t], gapid |-> 0,
             waitid |-> up.waitid, rows |-> {}, pkt |-> up.pkt,
             more |-> up.more, full |-> up.full, unsaved |-> up.unsaved]
  BY DEF ReadLastid, UploaderStates
<1> QED  BY <1>1 DEF UploaderStates

\* A handle count that is exact is a natural number.
LEMMA CountNat ==
    ASSUME HandlesCounted'
    PROVE  db_handles_num' \in Nat
<1> DEFINE S == {w \in Writers : WritesDatabase(w)'}
<1>1. IsFiniteSet(S)  BY BufferAssumption, FS_Subset DEF BufferAssumption
<1>2. Cardinality(S) \in Nat  BY <1>1, FS_CardinalityType
<1> QED  BY <1>2 DEF HandlesCounted

\* a writer with a new place and new rows
LEMMA WriterTyped ==
    ASSUME wr \in [Writers -> WriterStates(Seq(Row))], NEW w \in Writers, NEW r \in Seq(Row),
           NEW pc \in {"idle", "open", "alloc", "insert", "committed"},
           wr' = [wr EXCEPT ![w].pc = pc, ![w].rows = r]
    PROVE  /\ wr' \in [Writers -> WriterStates(Seq(Row))]
           /\ wr'[w].pc = pc /\ wr'[w].dst = wr[w].dst /\ wr'[w].handle = wr[w].handle
           /\ wr'[w].rows = r
           /\ \A v \in Writers \ {w} : wr'[v] = wr[v]
<1>1. wr' \in [Writers -> WriterStates(Seq(Row))]  BY DEF WriterStates
<1>2. /\ wr'[w].pc = pc /\ wr'[w].dst = wr[w].dst /\ wr'[w].handle = wr[w].handle
      /\ wr'[w].rows = r
  BY DEF WriterStates
<1>3. \A v \in Writers \ {w} : wr'[v] = wr[v]  OBVIOUS
<1> QED  BY <1>1, <1>2, <1>3

\* The rows of a handle: their ids follow the last one, their values are new.
LEMMA NewRowsFacts ==
    ASSUME NEW t \in Tables, NEW last \in Nat, NEW n \in Nat, NEW h \in Nat, written[t] \in Nat
    PROVE  /\ NewRows(t, last, n, h) \in Seq(Row)
           /\ \A r \in ToSet(NewRows(t, last, n, h)) : r.id > last /\ r.id <= last + n
           /\ \A v \in Nat : written[t] < v /\ v <= written[t] + n =>
                 v \in Vals(ToSet(NewRows(t, last, n, h)))
<1> DEFINE s == NewRows(t, last, n, h)
<1>1. s = [k \in 1..n |-> [id |-> last + k, val |-> written[t] + k, handle |-> h]]
  BY DEF NewRows
<1>2. \A k \in 1..n : [id |-> last + k, val |-> written[t] + k, handle |-> h] \in Row
  BY DEF Row
<1>3. s \in Seq(Row) /\ DOMAIN s = 1..n  BY <1>1, <1>2
<1>4. ASSUME NEW r \in ToSet(s) PROVE r.id > last /\ r.id <= last + n
  <2>1. PICK k \in 1..n : r = s[k]  BY <1>3 DEF ToSet
  <2>2. r.id = last + k  BY <1>1, <2>1
  <2> QED  BY <2>2
<1>5. ASSUME NEW v \in Nat, written[t] < v, v <= written[t] + n PROVE v \in Vals(ToSet(s))
  <2> DEFINE k == v - written[t]
  <2>1. k \in 1..n /\ written[t] + k = v  BY <1>5
  <2>2. s[k].val = v  BY <1>1, <2>1
  <2>3. s[k] \in ToSet(s)  BY <1>3, <2>1 DEF ToSet
  <2> QED  BY <2>2, <2>3 DEF Vals
<1> QED  BY <1>3, <1>4, <1>5

----------------------------------------------------------------------------
(* The memory buffer: how many rows it holds and what removing rows leaves. *)

\* the rows' ids grow along the list
Rising(s) == \A i, j \in DOMAIN s : i < j => s[i].id < s[j].id

\* what a list keeps when rows are removed from its head
LEMMA SuffixFacts ==
    ASSUME NEW s \in Seq(Row), NEW i \in 1..(Len(s) + 1)
    PROVE  LET r == SubSeq(s, i, Len(s))
           IN  /\ r \in Seq(Row) /\ Len(r) = Len(s) - i + 1
               /\ \A k \in 1..Len(r) : r[k] = s[i + k - 1]
               /\ ToSet(r) \in SUBSET ToSet(s)
               /\ Rising(s) => Rising(r)
<1> DEFINE r == SubSeq(s, i, Len(s))
<1>1. Len(s) \in Nat /\ i \in Nat /\ 1 <= i /\ i <= Len(s) + 1 /\ DOMAIN s = 1..Len(s)
  OBVIOUS
<1>2. \A k \in i..Len(s) : s[k] \in Row  BY <1>1
<1>3. /\ r \in Seq(Row) /\ Len(r) = (IF i <= Len(s) THEN Len(s) - i + 1 ELSE 0)
      /\ \A k \in 1..(Len(s) - i + 1) : r[k] = s[i + k - 1]
  BY <1>1, <1>2, SubSeqProperties
<1> HIDE DEF r
<1>4. Len(r) = Len(s) - i + 1  BY <1>1, <1>3
<1>5. \A k \in 1..Len(r) : r[k] = s[i + k - 1] /\ i + k - 1 \in 1..Len(s)
  BY <1>1, <1>3, <1>4
<1>6. DOMAIN r = 1..Len(r)  BY <1>3
<1>7. ToSet(r) \in SUBSET ToSet(s)
  BY <1>1, <1>5, <1>6 DEF ToSet
<1>8. Rising(s) => Rising(r)
  <2> SUFFICES ASSUME Rising(s), NEW j \in DOMAIN r, NEW k \in DOMAIN r, j < k
               PROVE  r[j].id < r[k].id
    BY DEF Rising
  <2>1. i + j - 1 \in DOMAIN s /\ i + k - 1 \in DOMAIN s /\ i + j - 1 < i + k - 1
    BY <1>1, <1>5, <1>6
  <2>2. s[i + j - 1].id < s[i + k - 1].id  BY <2>1 DEF Rising
  <2> QED  BY <1>5, <1>6, <2>2
<1> QED  BY <1>3, <1>4, <1>5, <1>7, <1>8 DEF r

\* the places of the rows of a buffer m in table t, and in all the tables of T
Places(m, t) == {t} \X DOMAIN m[t]
PlacesIn(m, T) == UNION {Places(m, t) : t \in T}

\* The buffer's size is a number, and replacing the list of one table changes
\* it by the difference of the lengths.
LEMMA UsedFacts ==
    ASSUME NEW m \in [Tables -> Seq(Row)], NEW t \in Tables, NEW s \in Seq(Row)
    PROVE  /\ Used(m) \in Nat
           /\ Used([m EXCEPT ![t] = s]) = Used(m) - Len(m[t]) + Len(s)
<1> DEFINE n == [m EXCEPT ![t] = s]
           A(x) == PlacesIn(x, Tables \ {t})
<1>1. IsFiniteSet(Tables)
  BY BufferAssumption, ToSetFacts DEF BufferAssumption, Tables
<1>2. ASSUME NEW x \in [Tables -> Seq(Row)]
      PROVE  /\ IsFiniteSet(A(x)) /\ Cardinality(A(x)) \in Nat /\ Len(x[t]) \in Nat
             /\ Used(x) = Cardinality(A(x)) + Len(x[t])
  <2>1. ASSUME NEW u \in Tables
        PROVE  IsFiniteSet(Places(x, u)) /\ Cardinality(Places(x, u)) = Len(x[u])
    <3> DEFINE L == Len(x[u])
    <3>1. L \in Nat /\ DOMAIN x[u] = 1..L  OBVIOUS
    <3>2. Places(x, u) = {u} \X (1..L)  BY <3>1 DEF Places
    <3> HIDE DEF L
    <3>3. IsFiniteSet(1..L) /\ Cardinality(1..L) = IF 1 > L THEN 0 ELSE L - 1 + 1
      BY <3>1, FS_Interval
    <3>4. IsFiniteSet({u}) /\ Cardinality({u}) = 1  BY FS_Singleton
    <3>5. /\ IsFiniteSet({u} \X (1..L))
          /\ Cardinality({u} \X (1..L)) = Cardinality({u}) * Cardinality(1..L)
      BY <3>3, <3>4, FS_Product
    <3>6. Cardinality(1..L) = L  BY <3>1, <3>3
    <3>7. 1 * L = L  BY <3>1
    <3> QED  BY <3>2, <3>4, <3>5, <3>6, <3>7 DEF L
  <2> DEFINE others == {Places(x, u) : u \in Tables \ {t}}
  <2>2. IsFiniteSet(others)
    <3>1. IsFiniteSet(Tables \ {t})  BY <1>1, FS_RemoveElement
    <3> DEFINE f == [u \in Tables \ {t} |-> Places(x, u)]
    <3>2. f \in [Tables \ {t} -> others]  OBVIOUS
    <3>3. \A S \in others : \E u \in Tables \ {t} : f[u] = S  OBVIOUS
    <3> HIDE DEF f, others
    <3>4. f \in Surjection(Tables \ {t}, others)  BY <3>2, <3>3 DEF Surjection
    <3> QED  BY <3>1, <3>4, FS_Surjection
  <2>3. \A S \in others : IsFiniteSet(S)  BY <2>1
  <2>4. IsFiniteSet(A(x))
    <3> HIDE DEF others
    <3>1. IsFiniteSet(UNION others)  BY <2>2, <2>3, FS_UNION
    <3> QED  BY <3>1 DEF others, PlacesIn
  <2>5. A(x) \cap Places(x, t) = {}
    BY DEF PlacesIn, Places
  <2>6. PlacesIn(x, Tables) = A(x) \cup Places(x, t)
    BY DEF PlacesIn
  <2>7. Used(x) = Cardinality(PlacesIn(x, Tables))
    BY DEF Used, PlacesIn, Places
  <2> HIDE DEF A
  <2>8. Cardinality(A(x)) \in Nat  BY <2>4, FS_CardinalityType
  <2>9. Cardinality(A(x) \cup Places(x, t))
        = Cardinality(A(x)) + Cardinality(Places(x, t)) - Cardinality(A(x) \cap Places(x, t))
    BY <2>1, <2>4, FS_Union
  <2>10. Cardinality(A(x) \cap Places(x, t)) = 0  BY <2>5, FS_EmptySet
  <2>11. Len(x[t]) \in Nat /\ Cardinality(Places(x, t)) = Len(x[t])  BY <2>1
  <2> QED  BY <2>4, <2>6, <2>7, <2>8, <2>9, <2>10, <2>11
<1>3. n \in [Tables -> Seq(Row)] /\ n[t] = s /\ \A u \in Tables \ {t} : n[u] = m[u]
  OBVIOUS
<1> HIDE DEF n
<1>4. A(n) = A(m)  BY <1>3 DEF PlacesIn, Places
<1> HIDE DEF A
<1>5. /\ Cardinality(A(m)) \in Nat /\ Len(m[t]) \in Nat
      /\ Used(m) = Cardinality(A(m)) + Len(m[t])
  BY <1>2
<1>6. Len(n[t]) \in Nat /\ Used(n) = Cardinality(A(n)) + Len(n[t])
  BY <1>2, <1>3
<1>7. Used(m) \in Nat /\ Used(n) = Used(m) - Len(m[t]) + Len(s)
  BY <1>3, <1>4, <1>5, <1>6
<1> QED  BY <1>7 DEF n

\* What is left when the oldest rows of one list are discarded
\* (pb_free_space and the other *_check_age loops).
LEMMA DiscardHeadFacts ==
    ASSUME NEW m \in [Tables -> Seq(Row)], NEW t \in Tables, m[t] # <<>>
    PROVE  /\ DiscardHead(m, t) \in [Tables -> Seq(Row)]
           /\ \A u \in Tables : /\ ToSet(DiscardHead(m, t)[u]) \in SUBSET ToSet(m[u])
                                /\ Rising(m[u]) => Rising(DiscardHead(m, t)[u])
<1> DEFINE other == {i \in DOMAIN m[t] : m[t][i].handle # Head(m[t]).handle}
           next == IF t = "discovery" THEN Min(other \cup {Len(m[t]) + 1}) ELSE 2
           s == SubSeq(m[t], next, Len(m[t]))
<1>1. Len(m[t]) \in Nat /\ Len(m[t]) # 0 /\ DOMAIN m[t] = 1..Len(m[t]) /\ m[t] \in Seq(Row)
  OBVIOUS
<1>2. next \in 1..(Len(m[t]) + 1)
  <2> DEFINE T == other \cup {Len(m[t]) + 1}
  <2>1. T \in SUBSET (1..(Len(m[t]) + 1)) /\ T # {} /\ T \in SUBSET Nat  BY <1>1
  <2>2. Min(T) \in T
    <3> HIDE DEF T
    <3> QED  BY <2>1, MinFacts
  <2>3. 2 \in 1..(Len(m[t]) + 1)  BY <1>1
  <2> HIDE DEF T
  <2>4. next = IF t = "discovery" THEN Min(T) ELSE 2  BY DEF T
  <2> QED  BY <2>1, <2>2, <2>3, <2>4
<1>3. DiscardHead(m, t) = [m EXCEPT ![t] = s]  BY DEF DiscardHead
<1> HIDE DEF next
<1>4. s \in Seq(Row) /\ ToSet(s) \in SUBSET ToSet(m[t]) /\ (Rising(m[t]) => Rising(s))
  BY <1>1, <1>2, SuffixFacts
<1> HIDE DEF s
<1>5. DiscardHead(m, t)[t] = s /\ \A u \in Tables \ {t} : DiscardHead(m, t)[u] = m[u]
  BY <1>3
<1>6. DiscardHead(m, t) \in [Tables -> Seq(Row)]  BY <1>3, <1>4
<1> QED  BY <1>4, <1>5, <1>6

\* A row with a higher id than all others goes to the end of a list.
LEMMA AppendFacts ==
    ASSUME NEW s \in Seq(Row), NEW r \in Row
    PROVE  /\ Append(s, r) \in Seq(Row)
           /\ ToSet(Append(s, r)) = ToSet(s) \cup {r}
           /\ Rising(s) /\ (\A q \in ToSet(s) : q.id < r.id) => Rising(Append(s, r))
<1> DEFINE a == Append(s, r)
<1>1. /\ a \in Seq(Row) /\ Len(a) = Len(s) + 1 /\ a[Len(s) + 1] = r
      /\ \A i \in 1..Len(s) : a[i] = s[i]
  BY AppendProperties
<1>2. Len(s) \in Nat /\ DOMAIN s = 1..Len(s)  OBVIOUS
<1> HIDE DEF a
<1>3. DOMAIN a = 1..(Len(s) + 1)  BY <1>1, <1>2
<1>4. \A i \in DOMAIN a : i \in 1..Len(s) \/ i = Len(s) + 1  BY <1>2, <1>3
<1>5. ToSet(a) = ToSet(s) \cup {r}
  <2>1. \A i \in DOMAIN s : i \in DOMAIN a /\ a[i] = s[i]  BY <1>1, <1>2, <1>3
  <2>2. Len(s) + 1 \in DOMAIN a  BY <1>2, <1>3
  <2> QED  BY <1>1, <1>2, <1>4, <2>1, <2>2 DEF ToSet
<1>6. ASSUME Rising(s), \A q \in ToSet(s) : q.id < r.id
      PROVE  Rising(a)
  <2> SUFFICES ASSUME NEW i \in DOMAIN a, NEW j \in DOMAIN a, i < j PROVE a[i].id < a[j].id
    BY DEF Rising
  <2>1. i \in 1..Len(s) /\ a[i] = s[i]  BY <1>1, <1>2, <1>3, <1>4
  <2>2. CASE j \in 1..Len(s)  BY <1>1, <1>2, <1>6, <2>1, <2>2 DEF Rising
  <2>3. CASE j = Len(s) + 1
    <3>1. s[i] \in ToSet(s)  BY <1>2, <2>1 DEF ToSet
    <3> QED  BY <1>1, <1>6, <2>1, <2>3, <3>1
  <2> QED  BY <1>4, <2>2, <2>3
<1> QED  BY <1>1, <1>5, <1>6 DEF a

\* Induction: a set that has 0 and with each number below n the next one has n.
LEMMA Upward ==
    ASSUME NEW n \in Nat, NEW S, 0 \in S, \A k \in Nat : k < n /\ k \in S => k + 1 \in S
    PROVE  n \in S
<1> DEFINE T == {k \in Nat : k <= n /\ k \notin S}
<1>1. SUFFICES ASSUME T # {} PROVE FALSE
  OBVIOUS
<1>2. T \in SUBSET Nat  OBVIOUS
<1> HIDE DEF T
<1>3. PICK x \in T : \A y \in T : x <= y  BY <1>1, <1>2, LeastNat
<1>4. x \in Nat /\ x <= n /\ x \notin S  BY DEF T
<1>5. x - 1 \in Nat /\ x - 1 < n /\ (x - 1) + 1 = x  BY <1>4
<1>6. x - 1 \in S  BY <1>3, <1>4, <1>5 DEF T
<1> QED  BY <1>4, <1>5, <1>6

\* the contents that have room for a row, and the contents with row r added
Room(x) == IF Used(x) < MemSize THEN {x} ELSE FreeSpace(x)
Adding(S, t, r) == UNION {{[y EXCEPT ![t] = Append(@, r)] : y \in Room(x)} : x \in S}

\* f[k] is what the buffer can hold after k of the rows
AddedUpTo(f, m, t, rows, n) ==
    f = [k \in 0..n |-> IF k = 0 THEN {m} ELSE Adding(f[k - 1], t, rows[k])]

\* The recursive definition in AddDiscarding has a solution.
LEMMA AddSolvable ==
    ASSUME NEW m, NEW t, NEW rows, NEW n \in Nat
    PROVE  \E f : AddedUpTo(f, m, t, rows, n)
<1> DEFINE Solves(f, i) ==
             f = [k \in 0..i |-> IF k = 0 THEN {m} ELSE Adding(f[k - 1], t, rows[k])]
           S == {i \in Nat : \E f : Solves(f, i)}
<1>1. 0 \in S
  <2> DEFINE f == [k \in 0..0 |-> {m}]
  <2>1. Solves(f, 0)  OBVIOUS
  <2> QED  BY <2>1
<1>2. ASSUME NEW i \in Nat, i \in S PROVE i + 1 \in S
  <2>1. PICK f : Solves(f, i)  BY <1>2
  <2> DEFINE g == [k \in 0..(i + 1) |-> IF k = i + 1 THEN Adding(f[i], t, rows[i + 1]) ELSE f[k]]
             h == [k \in 0..(i + 1) |-> IF k = 0 THEN {m} ELSE Adding(g[k - 1], t, rows[k])]
  <2>2. ASSUME NEW k \in 0..(i + 1) PROVE g[k] = h[k]
    <3>1. CASE k = 0
      <4>1. f[0] = {m}  BY <2>1
      <4>2. 0 # i + 1 /\ 0 \in 0..(i + 1)  OBVIOUS
      <4> QED  BY <3>1, <4>1, <4>2
    <3>2. CASE k = i + 1
      <4>1. k # 0 /\ k - 1 = i /\ i \in 0..(i + 1) /\ i # i + 1  BY <3>2
      <4>2. g[k - 1] = f[i]  BY <4>1
      <4> QED  BY <3>2, <4>1, <4>2
    <3>3. CASE k # 0 /\ k # i + 1
      <4>1. k \in 0..i /\ k - 1 \in 0..i /\ k - 1 \in 0..(i + 1) /\ k - 1 # i + 1
        BY <3>3
      <4>2. f[k] = Adding(f[k - 1], t, rows[k])  BY <2>1, <3>3, <4>1
      <4>3. g[k - 1] = f[k - 1] /\ g[k] = f[k]  BY <3>3, <4>1
      <4> QED  BY <3>3, <4>2, <4>3
    <3> QED  BY <3>1, <3>2, <3>3
  <2>3. g = h  BY <2>2
  <2> HIDE DEF g
  <2>4. Solves(g, i + 1)  BY <2>3
  <2> HIDE DEF Solves
  <2> QED  BY <2>4
<1> HIDE DEF S
<1>3. n \in S  BY <1>1, <1>2, Upward
<1> QED  BY <1>3 DEF S, AddedUpTo

\* one row after the other
OneByOne(f, m, t, rows) ==
    f[0] = {m} /\ \A k \in Nat : k < Len(rows) => f[k + 1] = Adding(f[k], t, rows[k + 1])

\* AddDiscarding adds the rows one after the other.
LEMMA AddSteps ==
    ASSUME NEW m, NEW t, NEW rows, Len(rows) \in Nat
    PROVE  \E f : OneByOne(f, m, t, rows) /\ f[Len(rows)] = AddDiscarding(m, t, rows)
<1> DEFINE f == CHOOSE g : AddedUpTo(g, m, t, rows, Len(rows))
<1>1. AddDiscarding(m, t, rows) = f[Len(rows)]
  BY DEF AddDiscarding, Adding, Room, AddedUpTo
<1>2. AddedUpTo(f, m, t, rows, Len(rows))
  <2>1. \E g : AddedUpTo(g, m, t, rows, Len(rows))  BY AddSolvable
  <2> QED  BY <2>1
<1> HIDE DEF f
<1>3. f[0] = {m}  BY <1>2 DEF AddedUpTo
<1>4. ASSUME NEW k \in Nat, k < Len(rows) PROVE f[k + 1] = Adding(f[k], t, rows[k + 1])
  <2>1. k + 1 \in 0..Len(rows) /\ k + 1 # 0 /\ (k + 1) - 1 = k  BY <1>4
  <2> QED  BY <1>2, <2>1 DEF AddedUpTo
<1> QED  BY <1>1, <1>3, <1>4 DEF OneByOne

\* What the buffer holds after rows were added in memory mode: nothing but what
\* it held and the new rows, in order if the new rows' ids are the higher ones.
LEMMA AddDiscardingFacts ==
    ASSUME NEW m \in [Tables -> Seq(Row)], NEW t \in Tables, NEW rows \in Seq(Row),
           NEW x \in AddDiscarding(m, t, rows)
    PROVE  /\ x \in [Tables -> Seq(Row)]
           /\ \A u \in Tables :
                 ToSet(x[u]) \in SUBSET (ToSet(m[u]) \cup (IF u = t THEN ToSet(rows) ELSE {}))
           /\ /\ \A u \in Tables : Rising(m[u])
              /\ Rising(rows) /\ \A r \in ToSet(m[t]), q \in ToSet(rows) : r.id < q.id
              => \A u \in Tables : Rising(x[u])
<1> DEFINE L == Len(rows)
           new(u, k) == IF u = t THEN {rows[j] : j \in 1..k} ELSE {}
           Ready == /\ \A u \in Tables : Rising(m[u])
                    /\ Rising(rows) /\ \A r \in ToSet(m[t]), q \in ToSet(rows) : r.id < q.id
           P(y, k) == /\ y \in [Tables -> Seq(Row)]
                      /\ \A u \in Tables : ToSet(y[u]) \in SUBSET (ToSet(m[u]) \cup new(u, k))
                      /\ Ready => \A u \in Tables : Rising(y[u])
<1>1. L \in Nat /\ DOMAIN rows = 1..L /\ \A j \in 1..L : rows[j] \in Row
  OBVIOUS
<1>2. PICK f : OneByOne(f, m, t, rows) /\ f[L] = AddDiscarding(m, t, rows)
  BY <1>1, AddSteps
<1> DEFINE S == {k \in Nat : \A y \in f[k] : P(y, k)}
<1>3. 0 \in S
  <2>1. P(m, 0)  BY Zenon
  <2> HIDE DEF P
  <2> QED  BY <1>2, <2>1 DEF OneByOne
<1>4. ASSUME NEW k \in Nat, k < L, k \in S PROVE k + 1 \in S
  <2>0. k + 1 \in 1..L /\ rows[k + 1] \in Row  BY <1>1, <1>4
  <2> DEFINE r == rows[k + 1]
  <2> SUFFICES ASSUME NEW z \in f[k + 1] PROVE P(z, k + 1)
    <3> HIDE DEF P
    <3> QED  OBVIOUS
  <2>z. z \in Adding(f[k], t, r)  BY <1>2, <1>4 DEF OneByOne
  <2>1. PICK y \in f[k] : \E w \in Room(y) : z = [w EXCEPT ![t] = Append(@, r)]
    BY <2>z, Zenon DEF Adding
  <2>a. PICK w \in Room(y) : z = [w EXCEPT ![t] = Append(@, r)]
    BY <2>1
  <2>2. P(y, k)  BY <1>4
  <2>3. P(w, k)
    <3>1. CASE w = y  BY <2>2, <3>1
    <3>2. CASE w \in FreeSpace(y)
      <4>1. PICK u \in Tables : y[u] # <<>> /\ w = DiscardHead(y, u)
        BY <3>2 DEF FreeSpace
      <4>2. y \in [Tables -> Seq(Row)]  BY <2>2
      <4>3. /\ w \in [Tables -> Seq(Row)]
            /\ \A v \in Tables : /\ ToSet(w[v]) \in SUBSET ToSet(y[v])
                                 /\ Rising(y[v]) => Rising(w[v])
        BY <4>1, <4>2, DiscardHeadFacts
      <4> HIDE DEF new, Ready
      <4> QED  BY <2>2, <4>3
    <3> QED  BY <2>a, <3>1, <3>2 DEF Room
  <2>4. \A v : new(v, k) \in SUBSET new(v, k + 1)
    <3>1. \A j \in 1..k : j \in 1..(k + 1)  OBVIOUS
    <3> QED  BY <3>1
  <2>5. r \in new(t, k + 1)
    <3>1. k + 1 \in 1..(k + 1)  OBVIOUS
    <3> QED  BY <3>1
  <2>6. w[t] \in Seq(Row) /\ w \in [Tables -> Seq(Row)]  BY <2>3
  <2>7. z[t] = Append(w[t], r) /\ \A u \in Tables \ {t} : z[u] = w[u]
    BY <2>a, <2>6
  <2>8. Append(w[t], r) \in Seq(Row) /\ ToSet(Append(w[t], r)) = ToSet(w[t]) \cup {r}
    BY <2>0, <2>6, AppendFacts
  <2>9. z \in [Tables -> Seq(Row)]  BY <2>a, <2>6, <2>8
  <2>10. ASSUME NEW u \in Tables PROVE ToSet(z[u]) \in SUBSET (ToSet(m[u]) \cup new(u, k + 1))
    <3>1. ToSet(w[u]) \in SUBSET (ToSet(m[u]) \cup new(u, k))  BY <2>3
    <3>2. ToSet(w[u]) \in SUBSET (ToSet(m[u]) \cup new(u, k + 1))  BY <2>4, <3>1
    <3> HIDE DEF new
    <3> QED  BY <2>5, <2>7, <2>8, <3>2
  <2>11. ASSUME Ready, NEW u \in Tables PROVE Rising(z[u])
    <3>1. Rising(w[u]) /\ Rising(w[t])  BY <2>3, <2>11
    <3>2. \A q \in ToSet(w[t]) : q.id < r.id
      <4> SUFFICES ASSUME NEW q \in ToSet(w[t]) PROVE q.id < r.id  OBVIOUS
      <4>1. r \in ToSet(rows)  BY <1>1, <2>0 DEF ToSet
      <4>2. CASE q \in ToSet(m[t])  BY <2>11, <4>1, <4>2
      <4>3. CASE q \in new(t, k)
        <5>1. PICK j \in 1..k : q = rows[j]  BY <4>3
        <5>2. j \in DOMAIN rows /\ k + 1 \in DOMAIN rows /\ j < k + 1  BY <1>1, <2>0
        <5> QED  BY <2>11, <5>1, <5>2 DEF Rising
      <4> QED  BY <2>3, <4>2, <4>3
    <3>3. Rising(Append(w[t], r))  BY <2>0, <2>6, <3>1, <3>2, AppendFacts
    <3> QED  BY <2>7, <3>1, <3>3
  <2> HIDE DEF new, Ready
  <2> QED  BY <2>9, <2>10, <2>11
<1>5. L \in S
  <2> HIDE DEF S, L
  <2> QED  BY <1>1, <1>3, <1>4, Upward
<1>6. P(x, L)  BY <1>2, <1>5
<1>7. {rows[j] : j \in 1..L} = ToSet(rows)  BY <1>1 DEF ToSet
<1> QED  BY <1>6, <1>7

----------------------------------------------------------------------------
(* Types.  They need to know that the sets of rows are finite, and that the  *)
(* memory buffer is not overfull unless the oldest rows may be discarded.    *)

UpTyped ==
    /\ up \in UploaderStates /\ IsFiniteSet(up.rows)
    /\ \A t \in Tables : IsFiniteSet(up.pkt[t])

DbTyped ==
    /\ db \in [Tables -> SUBSET Row] /\ ids \in [Tables -> Nat]
    /\ \A t \in Tables : IsFiniteSet(db[t])

BufferTyped ==
    /\ mode \in {"disk", "memory", "hybrid"} /\ state \in States
    /\ mode = "memory" <=> Mode = "memory"
    /\ mem \in [Tables -> Seq(Row)] /\ (mode # "memory" => Used(mem) <= MemSize)
    /\ lastid_sent \in [Tables -> Nat] /\ lastid_db \in [Tables -> Nat]

IdsTyped ==
    /\ dc_ids \in [Tables -> Nat \cup {-1}] /\ idcache \in [Tables -> Nat]
    /\ written \in [Tables -> Nat]

WritersTyped ==
    /\ wr \in [Writers -> WriterStates(Seq(Row))]
    /\ handleid \in Nat /\ history_handleids \in SUBSET (1..handleid)

RestTyped ==
    /\ server \in ServerStates /\ stopping \in BOOLEAN /\ restarts \in Nat
    /\ dropped \in [Tables -> SUBSET Nat]

BufferInv == UpTyped /\ DbTyped /\ BufferTyped /\ IdsTyped /\ WritersTyped /\ RestTyped

\* the rows a history fetch looks at
Fetched == FirstRows(db["history"], up.cur, MaxRecords - Cardinality(up.rows))

\* A fetch returns rows after the cursor and leaves none out before its last one.
LEMMA FetchedFacts ==
    ASSUME UpTyped, DbTyped
    PROVE  /\ Fetched \in SUBSET db["history"] /\ Fetched \in SUBSET Row /\ IsFiniteSet(Fetched)
           /\ \A r \in Fetched : r.id > up.cur
           /\ \A r \in Fetched, x \in db["history"] :
                 up.cur < x.id /\ x.id <= r.id => x \in Fetched
<1>1. db["history"] \in SUBSET Row /\ IsFiniteSet(db["history"])
  BY HistoryTable DEF DbTyped
<1>2. up.cur \in Nat  BY DEF UpTyped, UploaderStates
<1>3. MaxRecords - Cardinality(up.rows) \in Int
  BY FS_CardinalityType, BufferAssumption DEF UpTyped, BufferAssumption
<1> QED  BY <1>1, <1>2, <1>3, FirstRowsFacts DEF Fetched

\* The uploader when the fetched ids have a gap.
LEMMA GapFields ==
    ASSUME UpTyped, DbTyped, SelectHistoryGap
    PROVE  LET P == BeforeGap(Fetched, up.cur, up.gapid)
           IN  /\ P \in SUBSET Fetched
               /\ up' \in UploaderStates /\ IsFiniteSet(up'.rows)
               /\ up'.pc = "gap" /\ up'.pos = up.pos /\ up'.rows = up.rows \cup P
               /\ up'.cur = Advance(up.cur, P)
               /\ \E r \in Fetched : up'.gapid = r.id
               /\ up'.pkt = up.pkt /\ up'.unsaved = up.unsaved
<1> DEFINE P == BeforeGap(Fetched, up.cur, up.gapid)
           g == Min(Ids(Fetched \ P))
<1>1. P \in SUBSET Fetched /\ P # Fetched
  BY DEF SelectHistoryGap, BeforeGap, Fetched
<1>2. Fetched \in SUBSET Row /\ IsFiniteSet(Fetched)  BY FetchedFacts
<1>3. Ids(Fetched \ P) \in SUBSET Nat /\ Ids(Fetched \ P) # {}
  BY <1>1, <1>2 DEF Ids, Row
<1>4. g \in Nat /\ \E r \in Fetched : g = r.id
  BY <1>3, MinFacts DEF Ids
<1>5. up.cur \in Nat /\ up.rows \in SUBSET Row /\ IsFiniteSet(up.rows) /\ up \in UploaderStates
  BY DEF UpTyped, UploaderStates
<1>6. P \in SUBSET Row /\ IsFiniteSet(P)  BY <1>1, <1>2, FS_Subset
<1>7. Advance(up.cur, P) \in Nat  BY <1>5, <1>6, AdvanceFacts
<1>8. up' = [pc |-> "gap", pos |-> up.pos, cur |-> Advance(up.cur, P), gapid |-> g,
             waitid |-> up.waitid, rows |-> up.rows \cup P, pkt |-> up.pkt,
             more |-> up.more, full |-> up.full, unsaved |-> up.unsaved]
  BY <1>5 DEF SelectHistoryGap, UploaderStates, Fetched
<1>9. IsFiniteSet(up.rows \cup P)  BY <1>5, <1>6, FS_Union
<1>10. up.rows \cup P \in SUBSET Row  BY <1>5, <1>6
<1> HIDE DEF P, g
<1>11. up' \in UploaderStates
  BY <1>4, <1>5, <1>7, <1>8, <1>10 DEF UploaderStates
<1> QED  BY <1>1, <1>4, <1>8, <1>9, <1>11 DEF P

\* The uploader after a history fetch without a gap: it has the rows up to
\* `last`, and either goes on after them or is done with the table.
LEMMA SelectHistoryFields ==
    ASSUME UpTyped, DbTyped, NEW last \in Nat, NEW full \in BOOLEAN, SelectHistory(last, full)
    PROVE  LET R == up.rows \cup Fetched
               E == {r \in R : r.id <= last}
           IN  /\ E \in SUBSET Row /\ IsFiniteSet(E)
               /\ up' \in UploaderStates /\ up'.rows = {} /\ up'.unsaved = up.unsaved
               /\ up'.pkt["history"] = up.pkt["history"] \cup E
               /\ \A u \in Tables \ {"history"} : up'.pkt[u] = up.pkt[u]
               /\ \/ up'.pc = "read"
                  \/ /\ E = R /\ R # {} /\ up'.pc = "select" /\ up'.pos = up.pos
                     /\ up'.cur = last /\ up'.gapid = 0
<1> DEFINE R == up.rows \cup Fetched
           E == {r \in R : r.id <= last}
<1>1. up.pos \in DOMAIN TableOrder /\ (E # R => full) /\ up.pc = "select"
  BY DEF SelectHistory, Reading, Fetched
<1>2. Fetched \in SUBSET Row /\ IsFiniteSet(Fetched)  BY FetchedFacts
<1>3. IsFiniteSet(up.rows) /\ up \in UploaderStates /\ up.rows \in SUBSET Row
  BY DEF UpTyped, UploaderStates
<1>4. IsFiniteSet(R)  BY <1>2, <1>3, FS_Union
<1>5. E \in SUBSET Row /\ IsFiniteSet(E)  BY <1>2, <1>3, <1>4, FS_Subset
<1>6. \/ /\ E = R /\ R # {}
         /\ up' = [pc |-> "select", pos |-> up.pos, cur |-> last, gapid |-> 0,
                   waitid |-> up.waitid, rows |-> {},
                   pkt |-> [up.pkt EXCEPT !["history"] = @ \cup E],
                   more |-> up.more, full |-> up.full, unsaved |-> up.unsaved]
      \/ TableRead("history", E)
  <2>1. Cardinality({}) = 0  BY FS_EmptySet
  <2>2. MaxRecords # 0  BY BufferAssumption DEF BufferAssumption
  <2>3. CASE Cardinality(R) = MaxRecords /\ ~full
    <3>1. up' = [up EXCEPT !.cur = last, !.gapid = 0, !.rows = {}, !.pkt["history"] = @ \cup E]
      BY <2>3 DEF SelectHistory, Fetched
    <3>2. E = R /\ R # {}  BY <1>1, <2>1, <2>2, <2>3
    <3> HIDE DEF E
    <3> QED  BY <1>1, <1>3, <3>1, <3>2 DEF UploaderStates
  <2>4. CASE ~(Cardinality(R) = MaxRecords /\ ~full)
    <3>1. NextTable("history", E, Cardinality(R) = MaxRecords, full)
      BY <2>4 DEF SelectHistory, Fetched
    <3>2. (Cardinality(R) = MaxRecords) \in BOOLEAN  OBVIOUS
    <3> HIDE DEF R, E
    <3> QED  BY <3>1, <3>2, Zenon DEF TableRead
  <2> QED  BY <2>3, <2>4
<1> HIDE DEF R, E
<1>7. CASE TableRead("history", E)
  BY <1>1, <1>3, <1>5, <1>7, HistoryTable, NextTableFields DEF R, E
<1>8. CASE ~TableRead("history", E)
  <2>1. [up.pkt EXCEPT !["history"] = @ \cup E] \in [Tables -> SUBSET Row]
    BY <1>3, <1>5 DEF UploaderStates
  <2>2. /\ up' \in UploaderStates /\ up'.rows = {} /\ up'.unsaved = up.unsaved
        /\ up'.pkt["history"] = up.pkt["history"] \cup E
        /\ \A u \in Tables \ {"history"} : up'.pkt[u] = up.pkt[u]
        /\ E = R /\ R # {} /\ up'.pc = "select" /\ up'.pos = up.pos
        /\ up'.cur = last /\ up'.gapid = 0
    BY <1>3, <1>6, <1>8, <2>1, HistoryTable DEF UploaderStates
  <2> QED  BY <1>5, <2>2 DEF R, E
<1> QED  BY <1>7, <1>8

\* The uploader after a fetch of discovery or autoregistration rows: the packet
\* has gained rows of the table alone.
LEMMA SelectOtherFields ==
    ASSUME UpTyped, DbTyped, NEW t \in Tables, NEW last \in Nat, NEW full \in BOOLEAN,
           SelectOther(t, last, full)
    PROVE  /\ UpTyped' /\ up'.unsaved = up.unsaved
           /\ \A u \in Tables \ {t} : up'.pkt[u] = up.pkt[u]
           /\ up'.pc = "read" \/ (up'.pc = "select" /\ up'.pos = up.pos)
<1> DEFINE F == FirstRows(db[t], up.cur, MaxRecords)
           P == IF up.gapid = 0 THEN BeforeGap(F, up.cur, 0) ELSE F
           E == {r \in P : r.id <= last}
           pk == [up.pkt EXCEPT ![t] = @ \cup E]
<1>1. /\ up \in UploaderStates /\ up.cur \in Nat /\ up.rows \in SUBSET Row
      /\ IsFiniteSet(up.rows) /\ IsFiniteSet(up.pkt[t]) /\ up.pkt[t] \in SUBSET Row
      /\ db[t] \in SUBSET Row /\ IsFiniteSet(db[t])
  BY DEF UpTyped, DbTyped, UploaderStates
<1>2. F \in SUBSET Row /\ IsFiniteSet(F)
  <2>1. MaxRecords \in Int  BY BufferAssumption DEF BufferAssumption
  <2>2. F \in SUBSET db[t] /\ IsFiniteSet(F)  BY <1>1, <2>1, FirstRowsFacts
  <2> QED  BY <1>1, <2>2
<1>3. P \in SUBSET F /\ E \in SUBSET P  BY DEF BeforeGap
<1>4. P \in SUBSET Row /\ IsFiniteSet(P) /\ E \in SUBSET Row /\ IsFiniteSet(E)
  <2> HIDE DEF F, P, E
  <2> QED  BY <1>2, <1>3, FS_Subset
<1>5. IsFiniteSet(up.rows \cup E) /\ IsFiniteSet(up.pkt[t] \cup E)
  BY <1>1, <1>4, FS_Union
<1>6. up.pc = "select" /\ up.pos \in DOMAIN TableOrder
  BY DEF SelectOther, Reading
<1>7. \/ TableRead(t, E)
      \/ \E rows, cur, gapid :
            /\ rows \in {{}, up.rows \cup E} /\ cur \in Nat /\ gapid \in Nat
            /\ up' = [pc |-> "select", pos |-> up.pos, cur |-> cur, gapid |-> gapid,
                      waitid |-> up.waitid, rows |-> rows, pkt |-> pk,
                      more |-> up.more, full |-> up.full, unsaved |-> up.unsaved]
  <2>1. CASE full
    <3>1. NextTable(t, E, TRUE, TRUE)  BY <2>1 DEF SelectOther
    <3> HIDE DEF E
    <3> QED  BY <3>1, Zenon DEF TableRead
  <2>2. CASE ~full /\ P # F
    <3>1. up' = [up EXCEPT !.rows = up.rows \cup E, !.cur = Advance(@, P),
                           !.gapid = Min(Ids(F \ P)), !.pkt[t] = @ \cup E]
      BY <2>2 DEF SelectOther
    <3>2. Ids(F \ P) \in SUBSET Nat /\ Ids(F \ P) # {}  BY <1>2, <1>3, <2>2 DEF Ids, Row
    <3>3. Min(Ids(F \ P)) \in Nat  BY <3>2, MinFacts
    <3>4. Advance(up.cur, P) \in Nat
      <4> HIDE DEF P
      <4> QED  BY <1>1, <1>4, AdvanceFacts
    <3> HIDE DEF E, P, F
    <3> QED  BY <1>1, <1>6, <3>1, <3>3, <3>4 DEF UploaderStates
  <2>3. CASE ~full /\ P = F /\ Cardinality(up.rows \cup E) = MaxRecords
    <3>1. up' = [up EXCEPT !.rows = {}, !.cur = last, !.gapid = 0, !.pkt[t] = @ \cup E]
      BY <2>3 DEF SelectOther
    <3> HIDE DEF E, P, F
    <3> QED  BY <1>1, <1>6, <3>1 DEF UploaderStates
  <2>4. CASE ~full /\ P = F /\ Cardinality(up.rows \cup E) # MaxRecords
    <3>1. NextTable(t, E, FALSE, FALSE)  BY <2>4 DEF SelectOther
    <3> HIDE DEF E
    <3> QED  BY <3>1, Zenon DEF TableRead
  <2> QED  BY <2>1, <2>2, <2>3, <2>4
<1>8. /\ up' \in UploaderStates /\ up'.rows \in {{}, up.rows \cup E}
      /\ up'.unsaved = up.unsaved /\ up'.pkt[t] = up.pkt[t] \cup E
      /\ \A u \in Tables \ {t} : up'.pkt[u] = up.pkt[u]
      /\ up'.pc = "read" \/ (up'.pc = "select" /\ up'.pos = up.pos)
  <2> HIDE DEF E
  <2>1. CASE TableRead(t, E)
    BY <1>1, <1>4, <1>6, <2>1, NextTableFields
  <2>2. CASE ~TableRead(t, E)
    <3>1. pk \in [Tables -> SUBSET Row]  BY <1>1, <1>4 DEF UploaderStates
    <3>2. up.rows \cup E \in SUBSET Row  BY <1>1, <1>4
    <3> QED  BY <1>1, <1>7, <2>2, <3>1, <3>2 DEF UploaderStates
  <2> QED  BY <2>1, <2>2
<1> HIDE DEF E
<1>9. IsFiniteSet(up'.rows)  BY <1>5, <1>8, FS_EmptySet, <1>1
<1>10. \A u \in Tables : IsFiniteSet(up'.pkt[u])  BY <1>5, <1>8 DEF UpTyped
<1> QED  BY <1>8, <1>9, <1>10 DEF UpTyped

\* The uploader after it has taken k rows from memory.
LEMMA ReadMemoryFields ==
    ASSUME BufferTyped, NEW t \in Tables, NEW k \in 0..Len(mem[t]), NEW full \in BOOLEAN,
           ReadMemory(t, k, full)
    PROVE  /\ TableRead(t, ToSet(SubSeq(mem[t], 1, k)))
           /\ ToSet(SubSeq(mem[t], 1, k)) = {mem[t][i] : i \in 1..k}
           /\ ToSet(SubSeq(mem[t], 1, k)) \in SUBSET ToSet(mem[t])
           /\ ToSet(SubSeq(mem[t], 1, k)) \in SUBSET Row
           /\ IsFiniteSet(ToSet(SubSeq(mem[t], 1, k)))
<1> DEFINE s == SubSeq(mem[t], 1, k)
           chunk == Min({MaxRecords, Len(mem[t]) - MaxRecords * ((k - 1) \div MaxRecords)})
           more == IF t = "history" THEN k > 0 /\ full /\ chunk = MaxRecords ELSE k < Len(mem[t])
<1>1. /\ mem[t] \in Seq(Row) /\ Len(mem[t]) \in Nat /\ DOMAIN mem[t] = 1..Len(mem[t])
      /\ k \in Nat /\ k <= Len(mem[t]) /\ \A i \in 1..k : mem[t][i] \in Row
  BY DEF BufferTyped
<1>2. /\ s \in Seq(Row) /\ Len(s) = (IF 1 <= k THEN k - 1 + 1 ELSE 0)
      /\ \A i \in 1..(k - 1 + 1) : s[i] = mem[t][1 + i - 1]
  BY <1>1, SubSeqProperties
<1> HIDE DEF s
<1>3. DOMAIN s = 1..k /\ \A i \in 1..k : s[i] = mem[t][i] /\ i \in DOMAIN mem[t]
  <2>1. Len(s) = k /\ DOMAIN s = 1..Len(s)  BY <1>1, <1>2
  <2>2. \A i \in 1..k : 1 + i - 1 = i /\ i \in 1..(k - 1 + 1) /\ i \in 1..Len(mem[t])
    BY <1>1
  <2> QED  BY <1>1, <1>2, <2>1, <2>2
<1>4. ToSet(s) = {mem[t][i] : i \in 1..k}  BY <1>3 DEF ToSet
<1>5. ToSet(s) \in SUBSET ToSet(mem[t])
  <2>1. \A i \in 1..k : mem[t][i] \in ToSet(mem[t])  BY <1>3 DEF ToSet
  <2> QED  BY <1>4, <2>1
<1>6. IsFiniteSet(ToSet(s)) /\ ToSet(s) \in SUBSET Row  BY <1>2, ToSetFacts
<1>7. NextTable(t, ToSet(s), more, full)  BY DEF ReadMemory, s
<1>8. more \in BOOLEAN
  <2> HIDE DEF chunk
  <2>1. (k > 0 /\ full /\ chunk = MaxRecords) \in BOOLEAN  OBVIOUS
  <2>2. (k < Len(mem[t])) \in BOOLEAN  OBVIOUS
  <2> QED  BY <2>1, <2>2
<1> HIDE DEF more
<1>9. TableRead(t, ToSet(s))  BY <1>7, <1>8, Zenon DEF TableRead
<1> QED  BY <1>4, <1>5, <1>6, <1>9 DEF s

\* Reading changes the uploader alone.
LEMMA ReadQuiet ==
    ASSUME Read
    PROVE  UNCHANGED <<pbVars, idVars, dbVars, wr, server, histVars>>
<1> DEFINE Same == UNCHANGED <<pbVars, idVars, dbVars, wr, server, histVars>>
<1>1. UploadStart \/ SelectHistoryGap \/ CollectHandles \/ WaitHandles => Same
  BY DEF UploadStart, SelectHistoryGap, CollectHandles, WaitHandles
<1>2. \A t : ReadLastid(t) => Same  BY DEF ReadLastid
<1>3. \A t, more : SkipTable(t, more) => Same  BY DEF SkipTable
<1>4. \A t, k, full : ReadMemory(t, k, full) => Same  BY DEF ReadMemory
<1>5. \A last, full : SelectHistory(last, full) => Same  BY DEF SelectHistory
<1>6. \A t, last, full : SelectOther(t, last, full) => Same  BY DEF SelectOther
<1> HIDE DEF Same
<1>7. Same  BY <1>1, <1>2, <1>3, <1>4, <1>5, <1>6 DEF Read
<1> QED  BY <1>7 DEF Same

\* The ids a fetch may stop at.
LEMMA RowIdsNat ==
    ASSUME UpTyped, DbTyped
    PROVE  /\ RowIds(up.rows \cup db["history"]) \in SUBSET Nat
           /\ \A t \in Tables : RowIds(db[t]) \in SUBSET Nat
<1>1. up.rows \in SUBSET Row  BY DEF UpTyped, UploaderStates
<1>2. \A t \in Tables : db[t] \in SUBSET Row  BY DEF DbTyped
<1> QED  BY <1>1, <1>2, HistoryTable DEF RowIds, Ids, Row

\* Reading keeps the uploader's types.
LEMMA ReadTyped ==
    ASSUME UpTyped, DbTyped, BufferTyped, WritersTyped, Read
    PROVE  UpTyped'
<1>0. up \in UploaderStates /\ IsFiniteSet(up.rows) /\ \A t \in Tables : IsFiniteSet(up.pkt[t])
  BY DEF UpTyped
<1>e. IsFiniteSet({})  BY FS_EmptySet
<1>1. CASE UploadStart
  <2>1. up' = Uploader("read", 1)  BY <1>1 DEF UploadStart
  <2>2. up' \in UploaderStates /\ up'.rows = {} /\ \A t \in Tables : up'.pkt[t] = {}
    BY <2>1, UploaderFields
  <2> QED  BY <1>e, <2>2 DEF UpTyped
<1>2. CASE SelectHistoryGap
  <2>1. up' \in UploaderStates /\ IsFiniteSet(up'.rows) /\ up'.pkt = up.pkt
    BY <1>2, GapFields
  <2> QED  BY <1>0, <2>1 DEF UpTyped
<1>3. CASE CollectHandles
  <2> DEFINE N == {0} \cup history_handleids
             id == Max(N)
  <2>1. history_handleids \in SUBSET (1..handleid) /\ handleid \in Nat  BY DEF WritersTyped
  <2>a. IsFiniteSet(1..handleid)  BY <2>1, FS_Interval
  <2>b. IsFiniteSet(history_handleids)  BY <2>1, <2>a, FS_Subset
  <2>c. \A i \in 1..handleid : i \in Nat  BY <2>1
  <2>2. N \in SUBSET Nat /\ N # {}  BY <2>1, <2>c
  <2>3. IsFiniteSet(N)
    <3>1. N = history_handleids \cup {0}  OBVIOUS
    <3> QED  BY <2>b, <3>1, FS_AddElement
  <2> HIDE DEF N
  <2>4. id \in Nat  BY <2>2, <2>3, MaxFacts
  <2>5. up' = [up EXCEPT !.pc = "wait", !.waitid = id]  BY <1>3 DEF CollectHandles, N
  <2> HIDE DEF id
  <2>6. up' \in UploaderStates /\ up'.rows = up.rows /\ up'.pkt = up.pkt
    BY <1>0, <2>4, <2>5 DEF UploaderStates
  <2> QED  BY <1>0, <2>6 DEF UpTyped
<1>4. CASE WaitHandles
  <2>1. up' = [up EXCEPT !.pc = "select", !.waitid = 0]  BY <1>4 DEF WaitHandles
  <2>2. up' \in UploaderStates /\ up'.rows = up.rows /\ up'.pkt = up.pkt
    BY <1>0, <2>1 DEF UploaderStates
  <2> QED  BY <1>0, <2>2 DEF UpTyped
<1>5. ASSUME NEW t \in Tables, ReadLastid(t) PROVE UpTyped'
  <2>1. ids[t] \in Nat  BY DEF DbTyped
  <2>2. up' \in UploaderStates /\ up'.rows = {} /\ up'.pkt = up.pkt
    BY <1>0, <1>5, <2>1, ReadLastidFields
  <2> QED  BY <1>0, <1>e, <2>2 DEF UpTyped
<1>6. ASSUME NEW t \in Tables, NEW rows \in SUBSET Row, IsFiniteSet(rows),
             up.pos \in DOMAIN TableOrder, TableRead(t, rows)
      PROVE  UpTyped'
  <2>1. /\ up' \in UploaderStates /\ up'.rows = {} /\ up'.pkt[t] = up.pkt[t] \cup rows
        /\ \A u \in Tables \ {t} : up'.pkt[u] = up.pkt[u]
    BY <1>0, <1>6, NextTableFields
  <2>2. IsFiniteSet(up.pkt[t] \cup rows)  BY <1>0, <1>6, FS_Union
  <2> QED  BY <1>0, <1>e, <2>1, <2>2 DEF UpTyped
<1>7. ASSUME NEW t \in Tables, NEW more \in BOOLEAN, SkipTable(t, more) PROVE UpTyped'
  <2>1. up.pos \in DOMAIN TableOrder  BY <1>7 DEF SkipTable, Reading
  <2>2. TableRead(t, {})  BY <1>7, Zenon DEF SkipTable, TableRead
  <2>3. {} \in SUBSET Row  OBVIOUS
  <2> QED  BY <1>e, <1>6, <2>1, <2>2, <2>3
<1>8. ASSUME NEW t \in Tables, NEW full \in BOOLEAN, NEW k \in 0..Len(mem[t]),
             ReadMemory(t, k, full)
      PROVE  UpTyped'
  <2>1. up.pos \in DOMAIN TableOrder  BY <1>8 DEF ReadMemory, Reading
  <2> DEFINE rows == ToSet(SubSeq(mem[t], 1, k))
  <2>2. TableRead(t, rows) /\ rows \in SUBSET Row /\ IsFiniteSet(rows)
    BY <1>8, ReadMemoryFields
  <2> HIDE DEF rows
  <2> QED  BY <1>6, <2>1, <2>2
<1>9. ASSUME NEW full \in BOOLEAN, NEW last \in RowIds(up.rows \cup db["history"]),
             SelectHistory(last, full)
      PROVE  UpTyped'
  <2> DEFINE E == {r \in up.rows \cup Fetched : r.id <= last}
  <2>1. last \in Nat  BY RowIdsNat
  <2>2. /\ IsFiniteSet(E) /\ up' \in UploaderStates /\ up'.rows = {}
        /\ up'.pkt["history"] = up.pkt["history"] \cup E
        /\ \A u \in Tables \ {"history"} : up'.pkt[u] = up.pkt[u]
    BY <1>9, <2>1, SelectHistoryFields
  <2> HIDE DEF E
  <2>3. IsFiniteSet(up.pkt["history"] \cup E)  BY <1>0, <2>2, HistoryTable, FS_Union
  <2> QED  BY <1>0, <1>e, <2>2, <2>3 DEF UpTyped
<1>10. ASSUME NEW t \in Tables, NEW full \in BOOLEAN, NEW last \in RowIds(db[t]),
              SelectOther(t, last, full)
       PROVE  UpTyped'
  <2>1. last \in Nat  BY RowIdsNat
  <2> QED  BY <1>10, <2>1, SelectOtherFields
<1> QED  BY <1>1, <1>2, <1>3, <1>4, <1>5, <1>7, <1>8, <1>9, <1>10 DEF Read

\* The server's record of a packet keeps its types.
LEMMA DeliverTyped ==
    ASSUME UpTyped, RestTyped, Deliver
    PROVE  /\ UpTyped' /\ RestTyped'
           /\ up'.pc = "reply" /\ up'.pkt = up.pkt /\ up'.rows = up.rows
           /\ up'.unsaved = up.unsaved
<1> DEFINE H == up.pkt["history"]
           fresh == Fresh(H)
           last == Max({server.last, MaxId(H)})
           accepted == [t \in Tables |-> server.accepted[t] \cup
                           Vals(IF t = "history" THEN fresh ELSE up.pkt[t])]
<1>1. up \in UploaderStates /\ server \in ServerStates  BY DEF UpTyped, RestTyped
<1>2. up' = [up EXCEPT !.pc = "reply"] /\ UNCHANGED histVars  BY DEF Deliver
<1>3. /\ up' \in UploaderStates /\ up'.pc = "reply" /\ up'.pkt = up.pkt /\ up'.rows = up.rows
      /\ up'.unsaved = up.unsaved
  BY <1>1, <1>2 DEF UploaderStates
<1>4. UpTyped'  BY <1>3 DEF UpTyped
<1>5. H \in SUBSET Row /\ IsFiniteSet(H) /\ fresh \in SUBSET H
  BY <1>1, HistoryTable DEF UpTyped, UploaderStates, Fresh
<1>6. last \in Nat
  <2>1. server.last \in Nat  BY <1>1 DEF ServerStates
  <2>2. MaxId(H) \in Nat  BY <1>5, MaxIdFacts
  <2> QED  BY <2>1, <2>2, MaxOfTwo
<1>7. server' = [last |-> last,
                 refused |-> server.refused \cup (Vals(H \ fresh) \ server.session),
                 session |-> server.session \cup Vals(fresh),
                 twice |-> server.twice \cup (Vals(fresh) \cap server.session),
                 accepted |-> accepted]
  BY DEF Deliver
<1>8. \A r \in Row : r.val \in Nat  BY DEF Row
<1> HIDE DEF last, fresh
<1>9. Vals(fresh) \in SUBSET Nat /\ Vals(H \ fresh) \in SUBSET Nat
  BY <1>5, <1>8 DEF Vals
<1>10. accepted \in [Tables -> SUBSET Nat]
  <2>1. \A t \in Tables : up.pkt[t] \in SUBSET Row  BY <1>1 DEF UploaderStates
  <2>2. \A t \in Tables : Vals(up.pkt[t]) \in SUBSET Nat  BY <1>8, <2>1 DEF Vals
  <2>3. \A t \in Tables : server.accepted[t] \in SUBSET Nat  BY <1>1 DEF ServerStates
  <2>4. \A t \in Tables : Vals(IF t = "history" THEN fresh ELSE up.pkt[t]) \in SUBSET Nat
    BY <1>9, <2>2
  <2> QED  BY <2>3, <2>4
<1> HIDE DEF accepted, H
<1>11. server' \in ServerStates
  BY <1>1, <1>6, <1>7, <1>9, <1>10 DEF ServerStates
<1>12. RestTyped'  BY <1>2, <1>11 DEF RestTyped, histVars
<1> QED  BY <1>3, <1>4, <1>12

\* What a list keeps when it loses its acknowledged rows: all it loses have ids
\* up to the acknowledged one.
LEMMA ClearedFacts ==
    ASSUME NEW s \in Seq(Row), NEW lastid \in Nat
    PROVE  /\ Cleared(s, lastid) \in Seq(Row) /\ Len(Cleared(s, lastid)) <= Len(s)
           /\ ToSet(Cleared(s, lastid)) \in SUBSET ToSet(s)
           /\ \A r \in ToSet(s) \ ToSet(Cleared(s, lastid)) : r.id <= lastid
           /\ Rising(s) => Rising(Cleared(s, lastid))
<1> DEFINE keep == {i \in DOMAIN s : s[i].id > lastid}
           first == Min(keep)
<1>1. Len(s) \in Nat /\ DOMAIN s = 1..Len(s) /\ \A i \in 1..Len(s) : s[i] \in Row /\ s[i].id \in Nat
  <2>1. Len(s) \in Nat /\ DOMAIN s = 1..Len(s) /\ \A i \in 1..Len(s) : s[i] \in Row  OBVIOUS
  <2> QED  BY <2>1 DEF Row
<1>2. CASE keep = {}
  <2>1. Cleared(s, lastid) = <<>>  BY <1>2 DEF Cleared
  <2>2. /\ <<>> \in Seq(Row) /\ Len(<<>>) = 0 /\ ToSet(<<>>) = {} /\ Rising(<<>>)
    BY DEF ToSet, Rising
  <2>3. \A r \in ToSet(s) : r.id <= lastid  BY <1>1, <1>2 DEF ToSet
  <2> QED  BY <1>1, <2>1, <2>2, <2>3
<1>3. CASE keep # {}
  <2>1. keep \in SUBSET Nat  BY <1>1
  <2>2. first \in keep /\ \A i \in keep : first <= i
    <3> HIDE DEF keep
    <3> QED  BY <1>3, <2>1, MinFacts
  <2>3. Cleared(s, lastid) = SubSeq(s, first, Len(s))  BY <1>3 DEF Cleared
  <2> DEFINE r == SubSeq(s, first, Len(s))
  <2>4. first \in 1..(Len(s) + 1) /\ first \in 1..Len(s)  BY <1>1, <2>2
  <2> HIDE DEF first
  <2>5. /\ r \in Seq(Row) /\ Len(r) = Len(s) - first + 1
        /\ \A k \in 1..Len(r) : r[k] = s[first + k - 1]
        /\ ToSet(r) \in SUBSET ToSet(s)
        /\ Rising(s) => Rising(r)
    BY <2>4, SuffixFacts
  <2> HIDE DEF r
  <2>6. ASSUME NEW i \in 1..Len(s), s[i] \notin ToSet(r) PROVE s[i].id <= lastid
    <3>1. CASE i < first
      <4>1. i \notin keep  BY <2>2, <2>4, <3>1
      <4> QED  BY <1>1, <4>1
    <3>2. CASE i >= first
      <4>1. i - first + 1 \in 1..Len(r) /\ first + (i - first + 1) - 1 = i
        BY <1>1, <2>4, <2>5, <3>2
      <4>2. DOMAIN r = 1..Len(r)  BY <2>5
      <4>3. r[i - first + 1] = s[i]  BY <2>5, <4>1
      <4>4. s[i] \in ToSet(r)  BY <4>1, <4>2, <4>3 DEF ToSet
      <4> QED  BY <2>6, <4>4
    <3> QED  BY <1>1, <2>4, <3>1, <3>2
  <2>7. \A q \in ToSet(s) \ ToSet(r) : q.id <= lastid  BY <1>1, <2>6 DEF ToSet
  <2>8. Len(r) <= Len(s)  BY <1>1, <2>4, <2>5
  <2> QED  BY <2>3, <2>5, <2>7, <2>8 DEF r
<1> QED  BY <1>2, <1>3

\* Acknowledging a table: the last id sent is remembered, the list is cleared.
LEMMA SetLastidFields ==
    ASSUME UpTyped, BufferTyped, NEW t \in Tables, SetLastid(t)
    PROVE  /\ UpTyped' /\ BufferTyped'
           /\ up'.pc = "set" /\ up'.pkt = up.pkt /\ up'.rows = up.rows
           /\ up'.unsaved[t] \in {up.unsaved[t], MaxId(up.pkt[t])}
           /\ \A u \in Tables \ {t} : up'.unsaved[u] = up.unsaved[u] /\ mem'[u] = mem[u]
           /\ mem'[t] \in {mem[t], Cleared(mem[t], MaxId(up.pkt[t]))}
           /\ up.pkt[t] = {} => mem' = mem
<1> DEFINE lastid == MaxId(up.pkt[t])
           s == Cleared(mem[t], lastid)
           fromDb == up.pkt[t] # {} /\ Src(state) = "database"
           n == IF fromDb THEN lastid ELSE up.unsaved[t]
<1>1. /\ up \in UploaderStates /\ up.pkt[t] \in SUBSET Row /\ IsFiniteSet(up.pkt[t])
      /\ up.unsaved[t] \in Nat /\ up.unsaved \in [Tables -> Nat]
      /\ lastid_sent \in [Tables -> Nat] /\ mem \in [Tables -> Seq(Row)] /\ mem[t] \in Seq(Row)
  BY DEF UpTyped, BufferTyped, UploaderStates
<1>2. lastid \in Nat  BY <1>1, MaxIdFacts
<1>3. /\ up.pos \in DOMAIN TableOrder /\ up.pc = "set" /\ UNCHANGED <<mode, state, lastid_db>>
      /\ up' = [up EXCEPT !.pos = @ + 1, !.unsaved[t] = n]
      /\ mem' = (IF up.pkt[t] = {} \/ fromDb THEN mem ELSE [mem EXCEPT ![t] = s])
      /\ lastid_sent' = (IF up.pkt[t] = {} THEN lastid_sent ELSE [lastid_sent EXCEPT ![t] = lastid])
  BY DEF SetLastid, Reading
<1>4. up.pos + 1 \in 1..(Len(TableOrder) + 1)  BY <1>3, TablePos
<1>5. n \in Nat /\ n \in {up.unsaved[t], lastid}  BY <1>1, <1>2
<1> HIDE DEF lastid
<1>6. s \in Seq(Row) /\ Len(s) <= Len(mem[t])  BY <1>1, <1>2, ClearedFacts
<1> HIDE DEF n, s, fromDb
<1>7. up' = [pc |-> "set", pos |-> up.pos + 1, cur |-> up.cur, gapid |-> up.gapid,
             waitid |-> up.waitid, rows |-> up.rows, pkt |-> up.pkt,
             more |-> up.more, full |-> up.full,
             unsaved |-> [up.unsaved EXCEPT ![t] = n]]
  BY <1>1, <1>3 DEF UploaderStates
<1>8. [up.unsaved EXCEPT ![t] = n] \in [Tables -> Nat]  BY <1>1, <1>5
<1>9. up' \in UploaderStates  BY <1>1, <1>4, <1>7, <1>8 DEF UploaderStates
<1>10. UpTyped'  BY <1>7, <1>9 DEF UpTyped
<1>11. /\ up'.unsaved[t] = n /\ \A u \in Tables \ {t} : up'.unsaved[u] = up.unsaved[u]
  BY <1>1, <1>7
<1>12. /\ mem'[t] \in {mem[t], s} /\ mem' \in [Tables -> Seq(Row)]
       /\ \A u \in Tables \ {t} : mem'[u] = mem[u]
       /\ up.pkt[t] = {} => mem' = mem
  BY <1>1, <1>3, <1>6
<1>13. Used(mem') <= Used(mem)
  <2>1. CASE mem' = mem
    <3>1. Used(mem) \in Nat  BY <1>1, UsedFacts
    <3> QED  BY <2>1, <3>1
  <2>2. CASE mem' = [mem EXCEPT ![t] = s]
    <3>1. Used(mem) \in Nat /\ Used(mem') = Used(mem) - Len(mem[t]) + Len(s)
      BY <1>1, <1>6, <2>2, UsedFacts
    <3>2. Len(s) \in Nat /\ Len(mem[t]) \in Nat  BY <1>1, <1>6
    <3> QED  BY <1>6, <3>1, <3>2
  <2> QED  BY <1>3, <2>1, <2>2
<1>14. BufferTyped'
  <2>1. Used(mem) \in Nat /\ Used(mem') \in Nat /\ MemSize \in Nat
    BY <1>1, <1>12, UsedFacts, BufferAssumption DEF BufferAssumption
  <2>2. mode' # "memory" => Used(mem') <= MemSize
    BY <1>3, <1>13, <2>1 DEF BufferTyped
  <2>3. lastid_sent' \in [Tables -> Nat]  BY <1>1, <1>2, <1>3
  <2> QED  BY <1>3, <1>12, <2>2, <2>3 DEF BufferTyped
<1> QED  BY <1>5, <1>7, <1>10, <1>11, <1>12, <1>14 DEF lastid, s

\* The other ends of a round: the reply, the commit of the ids, a failure.
LEMMA RoundTyped ==
    ASSUME UpTyped, DbTyped,
           SendFails \/ ReplyReceived \/ SkipUpdate \/ \E ok \in BOOLEAN : CommitLastids(ok)
    PROVE  /\ UpTyped' /\ DbTyped' /\ db' = db
           /\ UNCHANGED <<pbVars, idVars, wr, server, histVars>>
           /\ \A t \in Tables : up'.pkt[t] \in {up.pkt[t], {}}
           /\ \/ up'.pc = "idle" /\ \A t \in Tables : up'.pkt[t] = {}
              \/ up.pc \in {"reply", "set"} /\ up'.pkt = up.pkt /\ up'.pc \in {"set", "update"}
<1>0. up \in UploaderStates /\ IsFiniteSet({}) /\ 1 \in 1..(Len(TableOrder) + 1)
  BY FS_EmptySet, TablePos DEF UpTyped
<1>1. CASE SendFails \/ SkipUpdate
  <2>1. up' = Uploader("idle", 1) /\ UNCHANGED <<pbVars, idVars, dbVars, wr, server, histVars>>
    BY <1>1 DEF SendFails, SkipUpdate
  <2>2. up' \in UploaderStates /\ up'.rows = {} /\ up'.pc = "idle" /\ \A t \in Tables : up'.pkt[t] = {}
    BY <2>1, UploaderFields
  <2>3. UpTyped'  BY <1>0, <2>2 DEF UpTyped
  <2>4. DbTyped' /\ db' = db  BY <2>1 DEF DbTyped, dbVars
  <2> QED  BY <2>1, <2>2, <2>3, <2>4
<1>2. CASE ReplyReceived
  <2>1. /\ up' = [up EXCEPT !.pc = "set", !.pos = 1] /\ up.pc = "reply"
        /\ UNCHANGED <<pbVars, idVars, dbVars, wr, server, histVars>>
    BY <1>2 DEF ReplyReceived
  <2>2. up' \in UploaderStates /\ up'.rows = up.rows /\ up'.pkt = up.pkt /\ up'.pc = "set"
    BY <1>0, <2>1 DEF UploaderStates
  <2>3. UpTyped'  BY <2>2 DEF UpTyped
  <2>4. DbTyped' /\ db' = db  BY <2>1 DEF DbTyped, dbVars
  <2> QED  BY <2>1, <2>2, <2>3, <2>4
<1>3. ASSUME NEW ok \in BOOLEAN, CommitLastids(ok)
      PROVE  /\ UpTyped' /\ DbTyped' /\ db' = db
             /\ UNCHANGED <<pbVars, idVars, wr, server, histVars>>
             /\ up.pc = "set" /\ up'.pkt = up.pkt /\ up'.pc = "update"
  <2>1. /\ UNCHANGED <<pbVars, idVars, db, wr, server, histVars>> /\ up.pc = "set"
        /\ ids' = [t \in Tables |-> IF ok /\ up.unsaved[t] # 0 THEN up.unsaved[t] ELSE ids[t]]
        /\ up' = [up EXCEPT !.pc = "update", !.unsaved = [t \in Tables |-> 0]]
    BY <1>3 DEF CommitLastids
  <2>2. [t \in Tables |-> 0] \in [Tables -> Nat]  OBVIOUS
  <2>3. up' \in UploaderStates /\ up'.rows = up.rows /\ up'.pkt = up.pkt /\ up'.pc = "update"
    BY <1>0, <2>1, <2>2 DEF UploaderStates
  <2>4. UpTyped'  BY <2>3 DEF UpTyped
  <2>5. \A t \in Tables : up.unsaved[t] \in Nat /\ ids[t] \in Nat
    BY <1>0 DEF UploaderStates, DbTyped
  <2>6. ids' \in [Tables -> Nat]  BY <2>1, <2>5
  <2>7. DbTyped'  BY <2>1, <2>6 DEF DbTyped
  <2> QED  BY <2>1, <2>3, <2>4, <2>7
<1> QED  BY <1>1, <1>2, <1>3

\* pb_flush_lastids writes ids.
LEMMA FlushedTyped ==
    ASSUME BufferTyped, DbTyped
    PROVE  FlushedLastids(ids) \in [Tables -> Nat]
<1>1. \A t \in Tables : lastid_sent[t] \in Nat /\ ids[t] \in Nat
  BY DEF BufferTyped, DbTyped
<1> QED  BY <1>1 DEF FlushedLastids

\* pb_update_state: only a drained transition ends in memory state.
LEMMA UpdateTyped ==
    ASSUME BufferTyped, DbTyped, UpdateState
    PROVE  /\ UpTyped' /\ BufferTyped' /\ DbTyped' /\ db' = db
           /\ up'.pc = "idle" /\ \A t \in Tables : up'.pkt[t] = {}
           /\ UNCHANGED <<mode, mem, lastid_sent, lastid_db, db_handles_num, handleid,
                          history_handleids, idVars, wr, server, histVars>>
           /\ mode # "hybrid" => state' = state
           /\ mode = "hybrid" /\ state = "database_memory" /\ state' = "memory" => Drained
<1>1. /\ state' = NextState /\ up' = Uploader("idle", 1)
      /\ ids' = ids \/ ids' = FlushedLastids(ids)
      /\ UNCHANGED <<mode, mem, lastid_sent, lastid_db, db_handles_num, handleid,
                     history_handleids, idVars, db, wr, server, histVars>>
  BY DEF UpdateState
<1>2. up' \in UploaderStates /\ up'.rows = {} /\ up'.pc = "idle" /\ \A t \in Tables : up'.pkt[t] = {}
  BY <1>1, UploaderFields
<1>3. UpTyped'  BY <1>2, FS_EmptySet DEF UpTyped
<1>4. state \in States  BY DEF BufferTyped
<1>5. /\ state' \in States /\ (mode # "hybrid" => state' = state)
      /\ mode = "hybrid" /\ state = "database_memory" /\ state' = "memory" => Drained
  BY <1>1, <1>4 DEF NextState, States
<1>6. BufferTyped'  BY <1>1, <1>5 DEF BufferTyped
<1>7. ids' \in [Tables -> Nat]
  BY <1>1, FlushedTyped DEF DbTyped
<1>8. DbTyped'  BY <1>1, <1>7 DEF DbTyped
<1> QED  BY <1>1, <1>2, <1>3, <1>5, <1>6, <1>8

\* The uploader keeps every type.
LEMMA UploaderInv ==
    ASSUME BufferInv, Read \/ Deliver \/ SendFails \/ Acknowledge
    PROVE  BufferInv'
<1>0. UpTyped /\ DbTyped /\ BufferTyped /\ IdsTyped /\ WritersTyped /\ RestTyped
  BY DEF BufferInv
<1>1. ASSUME UNCHANGED <<wr, handleid, history_handleids>> PROVE WritersTyped'
  BY <1>0, <1>1 DEF WritersTyped
<1>2. ASSUME UNCHANGED <<idVars, written>> PROVE IdsTyped'
  BY <1>0, <1>2 DEF IdsTyped, idVars
<1>3. ASSUME UNCHANGED <<server, stopping, restarts, dropped>> PROVE RestTyped'
  BY <1>0, <1>3 DEF RestTyped
<1>4. ASSUME UNCHANGED pbVars PROVE BufferTyped'
  BY <1>0, <1>4 DEF BufferTyped, pbVars
<1>5. ASSUME UNCHANGED dbVars PROVE DbTyped'
  BY <1>0, <1>5 DEF DbTyped, dbVars
<1>6. CASE Read
  <2>1. UNCHANGED <<pbVars, idVars, dbVars, wr, server, histVars>>  BY <1>6, ReadQuiet
  <2>2. UpTyped'  BY <1>0, <1>6, ReadTyped
  <2> QED  BY <1>1, <1>2, <1>3, <1>4, <1>5, <2>1, <2>2 DEF BufferInv, pbVars, histVars
<1>7. CASE Deliver
  <2>1. UNCHANGED <<pbVars, idVars, dbVars, wr, histVars>>  BY <1>7 DEF Deliver
  <2>2. UpTyped' /\ RestTyped'  BY <1>0, <1>7, DeliverTyped
  <2> QED  BY <1>1, <1>2, <1>4, <1>5, <2>1, <2>2 DEF BufferInv, pbVars, histVars
<1>8. CASE SendFails \/ ReplyReceived \/ SkipUpdate \/ \E ok \in BOOLEAN : CommitLastids(ok)
  <2>1. UpTyped' /\ DbTyped' /\ UNCHANGED <<pbVars, idVars, wr, server, histVars>>
    BY <1>0, <1>8, RoundTyped
  <2> QED  BY <1>1, <1>2, <1>3, <1>4, <2>1 DEF BufferInv, pbVars, histVars
<1>9. CASE UpdateState
  <2>1. /\ UpTyped' /\ BufferTyped' /\ DbTyped'
        /\ UNCHANGED <<handleid, history_handleids, idVars, wr, server, histVars>>
    BY <1>0, <1>9, UpdateTyped
  <2> QED  BY <1>1, <1>2, <1>3, <2>1 DEF BufferInv, histVars
<1>10. ASSUME NEW t \in Tables, SetLastid(t) PROVE BufferInv'
  <2>1. UpTyped' /\ BufferTyped'  BY <1>0, <1>10, SetLastidFields
  <2>2. UNCHANGED <<handleid, history_handleids, idVars, dbVars, wr, server, histVars>>
    BY <1>10 DEF SetLastid
  <2> QED  BY <1>1, <1>2, <1>3, <1>5, <2>1, <2>2 DEF BufferInv, histVars
<1> QED  BY <1>6, <1>7, <1>8, <1>9, <1>10 DEF Acknowledge

\* What is left when expired rows are dropped from the head of a list.
LEMMA UnexpiredFacts ==
    ASSUME BufferTyped, NEW t \in Tables, NEW m \in Unexpired(t)
    PROVE  /\ m \in [Tables -> Seq(Row)] /\ Used(m) <= Used(mem)
           /\ \A u \in Tables : /\ ToSet(m[u]) \in SUBSET ToSet(mem[u])
                                /\ Rising(mem[u]) => Rising(m[u])
<1>1. mem \in [Tables -> Seq(Row)] /\ mem[t] \in Seq(Row) /\ Len(mem[t]) \in Nat
  BY DEF BufferTyped
<1>2. PICK k \in 0..Len(mem[t]) : m = [mem EXCEPT ![t] = SubSeq(@, k + 1, Len(@))]
  <2>1. PICK k \in 0..(IF MayExpire /\ state = "memory" THEN Len(mem[t]) ELSE 0) :
          m = [mem EXCEPT ![t] = SubSeq(@, k + 1, Len(@))]
    BY DEF Unexpired
  <2>2. k \in 0..Len(mem[t])  BY <1>1, <2>1
  <2> QED  BY <2>1, <2>2
<1> DEFINE s == SubSeq(mem[t], k + 1, Len(mem[t]))
<1>3. k + 1 \in 1..(Len(mem[t]) + 1)  BY <1>1
<1>4. /\ s \in Seq(Row) /\ Len(s) = Len(mem[t]) - (k + 1) + 1
      /\ ToSet(s) \in SUBSET ToSet(mem[t]) /\ (Rising(mem[t]) => Rising(s))
  BY <1>1, <1>3, SuffixFacts
<1>5. m = [mem EXCEPT ![t] = s]  BY <1>2
<1> HIDE DEF s
<1>6. m \in [Tables -> Seq(Row)] /\ m[t] = s /\ \A u \in Tables \ {t} : m[u] = mem[u]
  BY <1>1, <1>4, <1>5
<1>7. Used(mem) \in Nat /\ Used(m) = Used(mem) - Len(mem[t]) + Len(s)
  BY <1>1, <1>4, <1>5, UsedFacts
<1>8. Used(m) <= Used(mem)  BY <1>1, <1>4, <1>7
<1> QED  BY <1>4, <1>6, <1>8

\* A buffer without rows.
LEMMA NoRowsFacts ==
    NoRows \in [Tables -> Seq(Row)] /\ Used(NoRows) = 0
<1>1. NoRows \in [Tables -> Seq(Row)] /\ \A t \in Tables : DOMAIN NoRows[t] = {}
  BY DEF NoRows
<1>2. UNION {{t} \X DOMAIN NoRows[t] : t \in Tables} = {}  BY <1>1
<1> QED  BY <1>1, <1>2, FS_EmptySet DEF Used

\* What an insert leaves in the tables.
LEMMA InsertedFacts ==
    ASSUME DbTyped, NEW rows \in [Tables -> SUBSET Row], \A t \in Tables : IsFiniteSet(rows[t])
    PROVE  /\ Inserted(db, rows) \in [Tables -> SUBSET Row]
           /\ \A t \in Tables : /\ IsFiniteSet(Inserted(db, rows)[t])
                                /\ Inserted(db, rows)[t] \in SUBSET (db[t] \cup rows[t])
<1>1. db \in [Tables -> SUBSET Row] /\ \A t \in Tables : IsFiniteSet(db[t])  BY DEF DbTyped
<1>2. \A t \in Tables : IsFiniteSet(db[t] \cup rows[t])  BY <1>1, FS_Union
<1>3. CASE Conflict(db, rows)
  <2>1. Inserted(db, rows) = db  BY <1>3 DEF Inserted
  <2> QED  BY <1>1, <2>1
<1>4. CASE ~Conflict(db, rows)
  <2>1. Inserted(db, rows) = [t \in Tables |-> db[t] \cup rows[t]]  BY <1>4 DEF Inserted
  <2> QED  BY <1>1, <1>2, <2>1
<1> QED  BY <1>3, <1>4

\* The rows of a buffer, and their largest id.
LEMMA MemRowsFacts ==
    ASSUME NEW m \in [Tables -> Seq(Row)]
    PROVE  /\ MemRows(m) \in [Tables -> SUBSET Row]
           /\ \A t \in Tables : /\ MemRows(m)[t] = ToSet(m[t]) /\ IsFiniteSet(MemRows(m)[t])
                                /\ MaxId(ToSet(m[t])) \in Nat
                                /\ \A r \in ToSet(m[t]) : r.id <= MaxId(ToSet(m[t]))
<1>1. ASSUME NEW t \in Tables
      PROVE  IsFiniteSet(ToSet(m[t])) /\ ToSet(m[t]) \in SUBSET Row
  <2>1. m[t] \in Seq(Row)  OBVIOUS
  <2> QED  BY <2>1, ToSetFacts
<1>2. \A t \in Tables : /\ MaxId(ToSet(m[t])) \in Nat
                        /\ \A r \in ToSet(m[t]) : r.id <= MaxId(ToSet(m[t]))
  BY <1>1, MaxIdFacts
<1> QED  BY <1>1, <1>2 DEF MemRows

\* What a flush of the memory contents m writes: rows of the buffer, ids, and
\* a last id that is not below any of the rows.
LEMMA FlushFacts ==
    ASSUME BufferTyped, DbTyped, NEW m \in [Tables -> Seq(Row)]
    PROVE  /\ FlushDb(m) \in [Tables -> SUBSET Row] /\ FlushIds(m) \in [Tables -> Nat]
           /\ FlushLastidDb(m) \in [Tables -> Nat]
           /\ \A t \in Tables :
                 /\ IsFiniteSet(FlushDb(m)[t])
                 /\ FlushDb(m)[t] \in SUBSET (db[t] \cup ToSet(m[t]))
                 /\ mode = "memory" => FlushDb(m)[t] = db[t]
                 /\ lastid_db[t] <= FlushLastidDb(m)[t]
                 /\ mode # "memory" => \A r \in ToSet(m[t]) : r.id <= FlushLastidDb(m)[t]
<1>1. /\ db \in [Tables -> SUBSET Row] /\ ids \in [Tables -> Nat]
      /\ \A t \in Tables : IsFiniteSet(db[t])
      /\ lastid_db \in [Tables -> Nat]
  BY DEF DbTyped, BufferTyped
<1>2. /\ MemRows(m) \in [Tables -> SUBSET Row]
      /\ \A t \in Tables : /\ MemRows(m)[t] = ToSet(m[t]) /\ IsFiniteSet(MemRows(m)[t])
                           /\ MaxId(ToSet(m[t])) \in Nat
                           /\ \A r \in ToSet(m[t]) : r.id <= MaxId(ToSet(m[t])) /\ r.id \in Nat
  <2>1. ASSUME NEW t \in Tables PROVE \A r \in ToSet(m[t]) : r.id \in Nat
    <3>1. ToSet(m[t]) \in SUBSET Row  BY MemRowsFacts
    <3> QED  BY <3>1 DEF Row
  <2> QED  BY <2>1, MemRowsFacts
<1>3. /\ FlushDb(m) \in [Tables -> SUBSET Row]
      /\ \A t \in Tables : /\ IsFiniteSet(FlushDb(m)[t])
                           /\ FlushDb(m)[t] \in SUBSET (db[t] \cup ToSet(m[t]))
                           /\ mode = "memory" => FlushDb(m)[t] = db[t]
  <2>1. CASE mode = "memory"
    <3>1. FlushDb(m) = db  BY <2>1 DEF FlushDb
    <3> QED  BY <1>1, <3>1
  <2>2. CASE mode # "memory"
    <3>1. FlushDb(m) = Inserted(db, MemRows(m))  BY <2>2 DEF FlushDb
    <3> QED  BY <1>2, <2>2, <3>1, InsertedFacts
  <2> QED  BY <2>1, <2>2
<1>4. FlushIds(m) \in [Tables -> Nat]  BY <1>1, FlushedTyped DEF FlushIds
<1>5. ASSUME NEW t \in Tables
      PROVE  LET last == Max({lastid_db[t], MaxId(ToSet(m[t]))})
             IN  last \in Nat /\ lastid_db[t] <= last /\ MaxId(ToSet(m[t])) <= last
  BY <1>1, <1>2, MaxOfTwo
<1>6. FlushLastidDb(m) = [t \in Tables |-> IF mode = "memory" THEN lastid_db[t]
                             ELSE Max({lastid_db[t], MaxId(ToSet(m[t]))})]
  BY DEF FlushLastidDb
<1>7. FlushLastidDb(m) \in [Tables -> Nat]  BY <1>1, <1>5, <1>6
<1>8. ASSUME NEW t \in Tables
      PROVE  /\ lastid_db[t] <= FlushLastidDb(m)[t]
             /\ mode # "memory" => \A r \in ToSet(m[t]) : r.id <= FlushLastidDb(m)[t]
  <2>1. CASE mode = "memory"
    <3>1. FlushLastidDb(m)[t] = lastid_db[t] /\ lastid_db[t] \in Nat  BY <1>1, <1>6, <2>1
    <3> QED  BY <2>1, <3>1
  <2>2. CASE mode # "memory"
    <3> DEFINE last == Max({lastid_db[t], MaxId(ToSet(m[t]))})
    <3>1. FlushLastidDb(m)[t] = last  BY <1>6, <2>2
    <3>2. last \in Nat /\ lastid_db[t] <= last /\ MaxId(ToSet(m[t])) <= last  BY <1>5
    <3> HIDE DEF last
    <3>3. \A r \in ToSet(m[t]) : r.id <= last  BY <1>2, <3>2
    <3> QED  BY <3>1, <3>2, <3>3
  <2> QED  BY <2>1, <2>2
<1> QED  BY <1>3, <1>4, <1>7, <1>8

\* The values a step discards.
LEMMA DiscardedTyped ==
    ASSUME BufferTyped, RestTyped, NEW m, NEW t, NEW new \in SUBSET Row
    PROVE  Discarded(m, t, new) \in [Tables -> SUBSET Nat]
<1>1. \A r \in Row : r.val \in Nat  BY DEF Row
<1>2. mem \in [Tables -> Seq(Row)]  BY DEF BufferTyped
<1>3. ASSUME NEW u \in Tables PROVE Lost(m, u, IF u = t THEN new ELSE {}) \in SUBSET Nat
  <2>1. ToSet(mem[u]) \in SUBSET Row
    <3>1. mem[u] \in Seq(Row)  BY <1>2
    <3> QED  BY <3>1, ToSetFacts
  <2>2. Vals(ToSet(mem[u]) \cup (IF u = t THEN new ELSE {})) \in SUBSET Nat
    BY <1>1, <2>1 DEF Vals
  <2> QED  BY <2>2 DEF Lost
<1>4. \A u \in Tables : dropped[u] \in SUBSET Nat  BY DEF RestTyped
<1> QED  BY <1>3, <1>4 DEF Discarded

\* The counters give out natural numbers.
LEMMA LastNat ==
    ASSUME IdsTyped, DbTyped, NEW t \in Tables
    PROVE  DcLast(t) \in Nat /\ CachedLast(t) \in Nat
<1>1. db[t] \in SUBSET Row /\ IsFiniteSet(db[t])  BY DEF DbTyped
<1>2. MaxId(db[t]) \in Nat  BY <1>1, MaxIdFacts
<1> QED  BY <1>2 DEF IdsTyped, DcLast, CachedLast

\* Except in memory mode, as many rows are added as there is room for.
LEMMA FittingFacts ==
    ASSUME BufferTyped, mode # "memory", NEW m \in [Tables -> Seq(Row)], Used(m) <= Used(mem),
           NEW n \in Nat
    PROVE  Fitting(m, n) \in 0..n /\ Used(m) + Fitting(m, n) <= MemSize /\ Used(m) \in Nat
<1>1. Used(m) \in Nat /\ Used(mem) \in Nat /\ Used(mem) <= MemSize /\ MemSize \in Nat
  <2>1. mem \in [Tables -> Seq(Row)] /\ Used(mem) <= MemSize  BY DEF BufferTyped
  <2>2. \E t \in Tables : TRUE  BY HistoryTable
  <2>3. <<>> \in Seq(Row)  OBVIOUS
  <2> QED  BY <2>1, <2>2, <2>3, UsedFacts, BufferAssumption DEF BufferAssumption
<1> DEFINE S == {n, MemSize - Used(m)}
<1>2. S \in SUBSET Nat /\ S # {}  BY <1>1
<1>3. Min(S) \in S /\ \A y \in S : Min(S) <= y
  <2> HIDE DEF S
  <2> QED  BY <1>2, MinFacts
<1>4. Fitting(m, n) = Min(S)  BY DEF Fitting
<1> QED  BY <1>1, <1>3, <1>4

\* Replacing the list of one table by a longer one.
LEMMA ListAdded ==
    ASSUME NEW m \in [Tables -> Seq(Row)], NEW t \in Tables, NEW rows \in Seq(Row)
    PROVE  LET x == [m EXCEPT ![t] = @ \o rows]
           IN  x \in [Tables -> Seq(Row)] /\ Used(x) = Used(m) + Len(rows)
<1> DEFINE s == m[t] \o rows
<1>1. m[t] \in Seq(Row) /\ Len(m[t]) \in Nat /\ Len(rows) \in Nat  OBVIOUS
<1>2. s \in Seq(Row) /\ Len(s) = Len(m[t]) + Len(rows)  BY <1>1
<1>3. [m EXCEPT ![t] = @ \o rows] = [m EXCEPT ![t] = s]  OBVIOUS
<1> HIDE DEF s
<1>4. Used(m) \in Nat /\ Used([m EXCEPT ![t] = s]) = Used(m) - Len(m[t]) + Len(s)
  BY <1>2, UsedFacts
<1>5. [m EXCEPT ![t] = s] \in [Tables -> Seq(Row)]  BY <1>2
<1> QED  BY <1>1, <1>2, <1>3, <1>4, <1>5

\* The two ends of a store.
LEMMA DoneTyped ==
    ASSUME WritersTyped, NEW w \in Writers, handleid' = handleid, Done(w)
    PROVE  /\ WritersTyped' /\ wr'[w] = Closed
           /\ \A v \in Writers \ {w} : wr'[v] = wr[v]
<1>1. /\ wr \in [Writers -> WriterStates(Seq(Row))] /\ wr' = [wr EXCEPT ![w] = Closed]
      /\ history_handleids' \in SUBSET history_handleids
  BY DEF Done, Deregister, WritersTyped
<1>2. Closed \in WriterStates(Seq(Row))  BY DEF Closed, WriterStates
<1>3. wr' \in [Writers -> WriterStates(Seq(Row))]  BY <1>1, <1>2
<1>4. handleid' \in Nat /\ history_handleids' \in SUBSET (1..handleid')
  BY <1>1 DEF WritersTyped
<1>5. wr'[w] = Closed /\ \A v \in Writers \ {w} : wr'[v] = wr[v]  BY <1>1
<1> QED  BY <1>3, <1>4, <1>5 DEF WritersTyped

LEMMA ToDatabaseTyped ==
    ASSUME WritersTyped, NEW w \in Writers, handleid' = handleid, NEW pc \in {"insert", "alloc"},
           NEW rows \in Seq(Row), ToDatabase(w, pc, rows)
    PROVE  /\ WritersTyped' /\ wr'[w].pc = pc /\ wr'[w].dst = wr[w].dst /\ wr'[w].rows = rows
           /\ \A v \in Writers \ {w} : wr'[v] = wr[v]
<1>1. /\ wr \in [Writers -> WriterStates(Seq(Row))]
      /\ wr' = [wr EXCEPT ![w].pc = pc, ![w].rows = rows]
      /\ history_handleids' = history_handleids
  BY DEF ToDatabase, WritersTyped
<1>2. /\ wr' \in [Writers -> WriterStates(Seq(Row))]
      /\ wr'[w].pc = pc /\ wr'[w].dst = wr[w].dst /\ wr'[w].rows = rows
      /\ \A v \in Writers \ {w} : wr'[v] = wr[v]
  BY <1>1, WriterTyped
<1> QED  BY <1>1, <1>2 DEF WritersTyped

\* Falling back to the database keeps the types.
LEMMA FallbackTyped ==
    ASSUME BufferTyped, DbTyped, NEW m \in [Tables -> Seq(Row)],
           Fallback(m), UNCHANGED <<mode, lastid_sent>>
    PROVE  BufferTyped' /\ DbTyped'
<1>1. /\ db' = FlushDb(m) /\ ids' = FlushIds(m) /\ lastid_db' = FlushLastidDb(m)
      /\ mem' = NoRows /\ state' = "database"
  BY DEF Fallback
<1>2. DbTyped'  BY <1>1, FlushFacts DEF DbTyped
<1>3. lastid_db' \in [Tables -> Nat]  BY <1>1, FlushFacts
<1>4. mem' \in [Tables -> Seq(Row)] /\ Used(mem') <= MemSize
  <2>1. MemSize \in Nat  BY BufferAssumption DEF BufferAssumption
  <2> QED  BY <1>1, <2>1, NoRowsFacts
<1>5. BufferTyped'  BY <1>1, <1>3, <1>4 DEF BufferTyped, States
<1> QED  BY <1>2, <1>5

\* The buffer and the rest of the rows when not all of them fit.
LEMMA OverflowFacts ==
    ASSUME BufferTyped, mode # "memory", NEW t \in Tables, NEW m \in [Tables -> Seq(Row)],
           Used(m) <= Used(mem), NEW rows \in Seq(Row)
    PROVE  LET fit == Fitting(m, Len(rows))
               filled == [m EXCEPT ![t] = @ \o SubSeq(rows, 1, fit)]
           IN  /\ filled \in [Tables -> Seq(Row)] /\ Used(filled) <= MemSize
               /\ SubSeq(rows, fit + 1, Len(rows)) \in Seq(Row)
<1> DEFINE fit == Fitting(m, Len(rows))
           s == SubSeq(rows, 1, fit)
           filled == [m EXCEPT ![t] = @ \o s]
<1>1. Len(rows) \in Nat /\ DOMAIN rows = 1..Len(rows) /\ \A i \in 1..Len(rows) : rows[i] \in Row
  OBVIOUS
<1>2. fit \in 0..Len(rows) /\ Used(m) + fit <= MemSize /\ Used(m) \in Nat
  BY <1>1, FittingFacts
<1> HIDE DEF fit
<1>3. fit \in Int /\ \A i \in 1..fit : rows[i] \in Row  BY <1>1, <1>2
<1>4. s \in Seq(Row) /\ Len(s) = IF 1 <= fit THEN fit - 1 + 1 ELSE 0
  BY <1>3, SubSeqProperties
<1>5. Len(s) = fit  BY <1>2, <1>4
<1> HIDE DEF s
<1>6. filled \in [Tables -> Seq(Row)] /\ Used(filled) = Used(m) + Len(s)
  BY <1>4, ListAdded
<1>7. SubSeq(rows, fit + 1, Len(rows)) \in Seq(Row)
  <2>1. fit + 1 \in 1..(Len(rows) + 1)  BY <1>1, <1>2
  <2> QED  BY <2>1, SuffixFacts
<1>8. Used(filled) <= MemSize  BY <1>2, <1>5, <1>6
<1> QED  BY <1>6, <1>7, <1>8 DEF fit, s

\* The four ways to store rows keep the types.
LEMMA StoreTyped ==
    ASSUME BufferTyped, DbTyped, WritersTyped, RestTyped,
           NEW w \in Writers, NEW t \in Tables, NEW m \in Unexpired(t),
           NEW pc \in {"insert", "alloc"}, NEW rows \in Seq(Row), NEW dbrows \in Seq(Row),
           UNCHANGED <<mode, lastid_sent, handleid>>,
           \/ StoreTooOld(w, t, m, pc, dbrows) \/ StoreInMemory(w, t, m, rows)
           \/ StoreOverflow(w, t, m, pc, rows) \/ StoreInDatabase(w, pc, dbrows)
    PROVE  /\ BufferTyped' /\ DbTyped' /\ WritersTyped'
           /\ dropped' \in [Tables -> SUBSET Nat]
<1>1. m \in [Tables -> Seq(Row)] /\ Used(m) <= Used(mem)  BY UnexpiredFacts
<1>2. {} \in SUBSET Row /\ ToSet(rows) \in SUBSET Row /\ Len(rows) \in Nat  BY ToSetFacts
<1>3. CASE StoreTooOld(w, t, m, pc, dbrows)
  <2>1. /\ Fallback(m) /\ ToDatabase(w, pc, dbrows) /\ dropped' = Discarded(m, t, {})
    BY <1>3 DEF StoreTooOld
  <2>2. BufferTyped' /\ DbTyped'  BY <1>1, <2>1, FallbackTyped
  <2>3. WritersTyped'  BY <2>1, ToDatabaseTyped
  <2>4. dropped' \in [Tables -> SUBSET Nat]  BY <1>2, <2>1, DiscardedTyped
  <2> QED  BY <2>2, <2>3, <2>4
<1>4. CASE StoreInMemory(w, t, m, rows)
  <2>1. /\ dropped' = Discarded(mem', t, ToSet(rows)) /\ Done(w)
        /\ UNCHANGED <<state, lastid_db, dbVars>>
        /\ IF mode = "memory" THEN mem' \in AddDiscarding(m, t, rows)
           ELSE Fitting(m, Len(rows)) = Len(rows) /\ mem' = [m EXCEPT ![t] = @ \o rows]
    BY <1>4 DEF StoreInMemory
  <2>2. mem' \in [Tables -> Seq(Row)] /\ (mode # "memory" => Used(mem') <= MemSize)
    <3>1. CASE mode = "memory"  BY <1>1, <2>1, <3>1, AddDiscardingFacts
    <3>2. CASE mode # "memory"
      <4>1. Used(m) + Len(rows) <= MemSize  BY <1>1, <1>2, <2>1, <3>2, FittingFacts
      <4>2. mem' \in [Tables -> Seq(Row)] /\ Used(mem') = Used(m) + Len(rows)
        <5> DEFINE x == [m EXCEPT ![t] = @ \o rows]
        <5>1. x \in [Tables -> Seq(Row)] /\ Used(x) = Used(m) + Len(rows)
          BY <1>1, ListAdded
        <5>2. mem' = x  BY <2>1, <3>2
        <5> HIDE DEF x
        <5> QED  BY <5>1, <5>2
      <4> QED  BY <4>1, <4>2
    <3> QED  BY <3>1, <3>2
  <2>3. BufferTyped'  BY <2>1, <2>2 DEF BufferTyped
  <2>4. DbTyped'  BY <2>1 DEF DbTyped, dbVars
  <2>5. WritersTyped'  BY <2>1, DoneTyped
  <2>6. dropped' \in [Tables -> SUBSET Nat]  BY <1>2, <2>1, DiscardedTyped
  <2> QED  BY <2>3, <2>4, <2>5, <2>6
<1>5. CASE StoreOverflow(w, t, m, pc, rows)
  <2> DEFINE fit == Fitting(m, Len(rows))
             filled == [m EXCEPT ![t] = @ \o SubSeq(rows, 1, fit)]
             rest == SubSeq(rows, fit + 1, Len(rows))
  <2>1. /\ mode # "memory" /\ dropped' = Discarded(m, t, {})
        /\ \/ Fallback(filled)
           \/ mem' = filled /\ state' = "memory_database" /\ UNCHANGED <<lastid_db, dbVars>>
        /\ ToDatabase(w, pc, IF pc = "insert" THEN rest ELSE <<>>)
    BY <1>5 DEF StoreOverflow
  <2>2. /\ filled \in [Tables -> Seq(Row)] /\ Used(filled) <= MemSize /\ rest \in Seq(Row)
    BY <1>1, <2>1, OverflowFacts
  <2> HIDE DEF filled, rest
  <2>3. BufferTyped' /\ DbTyped'
    <3>1. CASE Fallback(filled)  BY <2>2, <3>1, FallbackTyped
    <3>2. CASE mem' = filled /\ state' = "memory_database" /\ UNCHANGED <<lastid_db, dbVars>>
      <4>1. BufferTyped'  BY <2>2, <3>2 DEF BufferTyped, States
      <4>2. DbTyped'  BY <3>2 DEF DbTyped, dbVars
      <4> QED  BY <4>1, <4>2
    <3> QED  BY <2>1, <3>1, <3>2
  <2>4. (IF pc = "insert" THEN rest ELSE <<>>) \in Seq(Row)  BY <2>2
  <2>5. WritersTyped'  BY <2>1, <2>4, ToDatabaseTyped
  <2>6. dropped' \in [Tables -> SUBSET Nat]  BY <1>2, <2>1, DiscardedTyped
  <2> QED  BY <2>3, <2>5, <2>6
<1>6. CASE StoreInDatabase(w, pc, dbrows)
  <2>1. ToDatabase(w, pc, dbrows) /\ UNCHANGED <<state, mem, lastid_db, dbVars, dropped>>
    BY <1>6 DEF StoreInDatabase
  <2>2. BufferTyped'  BY <2>1 DEF BufferTyped
  <2>3. DbTyped'  BY <2>1 DEF DbTyped, dbVars
  <2>4. WritersTyped'  BY <2>1, ToDatabaseTyped
  <2> QED  BY <2>1, <2>2, <2>3, <2>4 DEF RestTyped
<1> QED  BY <1>3, <1>4, <1>5, <1>6

\* Taking ids and values.
LEMMA TakenTyped ==
    ASSUME IdsTyped, DbTyped, NEW t \in Tables, NEW n \in Nat, TakeDcIds(t, n), idcache' = idcache
    PROVE  IdsTyped'
<1>1. DcLast(t) + n \in Nat  BY LastNat
<1>2. /\ dc_ids' = [dc_ids EXCEPT ![t] = DcLast(t) + n]
      /\ written' = [written EXCEPT ![t] = @ + n]
  BY DEF TakeDcIds
<1>3. dc_ids' \in [Tables -> Nat \cup {-1}]  BY <1>1, <1>2 DEF IdsTyped
<1>4. written' \in [Tables -> Nat]  BY <1>2 DEF IdsTyped
<1> QED  BY <1>3, <1>4 DEF IdsTyped

\* A handle that is opened has a new number.
LEMMA OpenTyped ==
    ASSUME WritersTyped, NEW w \in Writers, Open(w)
    PROVE  WritersTyped'
<1> DEFINE s == [pc |-> "open", dst |-> Dst(state), handle |-> handleid + 1, rows |-> <<>>]
<1>1. handleid \in Nat /\ history_handleids \in SUBSET (1..handleid)  BY DEF WritersTyped
<1>2. s \in WriterStates(Seq(Row))  BY <1>1 DEF Dst, WriterStates
<1>3. /\ wr' = [wr EXCEPT ![w] = s] /\ handleid' = handleid + 1
      /\ history_handleids' \in {history_handleids, history_handleids \cup {handleid + 1}}
  BY DEF Open
<1>4. wr' \in [Writers -> WriterStates(Seq(Row))]
  <2> HIDE DEF s
  <2> QED  BY <1>2, <1>3 DEF WritersTyped
<1>5. handleid' \in Nat /\ history_handleids' \in SUBSET (1..handleid')  BY <1>1, <1>3
<1> QED  BY <1>4, <1>5 DEF WritersTyped

\* Rows of a memory handle.
LEMMA CloseMemoryTyped ==
    ASSUME BufferInv, NEW w \in Writers, NEW n \in 1..MaxBatch, CloseMemory(w, n)
    PROVE  BufferInv'
<1> DEFINE t == WriterTable[w]
           rows == NewRows(t, DcLast(t), n, wr[w].handle)
<1>0. UpTyped /\ DbTyped /\ BufferTyped /\ IdsTyped /\ WritersTyped /\ RestTyped
  BY DEF BufferInv
<1>1. /\ t \in Tables /\ n \in Nat /\ wr[w].handle \in Nat /\ written[t] \in Nat
      /\ DcLast(t) \in Nat
  <2>1. t \in Tables /\ MaxBatch \in Nat  BY BufferAssumption DEF BufferAssumption
  <2>2. wr[w].handle \in Nat  BY <1>0 DEF WritersTyped, WriterStates
  <2> QED  BY <1>0, <2>1, <2>2, LastNat DEF IdsTyped
<1>2. rows \in Seq(Row)  BY <1>1, NewRowsFacts
<1>3. /\ TakeDcIds(t, n)
      /\ \E m \in Unexpired(t) :
            \/ StoreTooOld(w, t, m, "insert", rows) \/ StoreInMemory(w, t, m, rows)
            \/ StoreOverflow(w, t, m, "insert", rows) \/ StoreInDatabase(w, "insert", rows)
      /\ UNCHANGED <<mode, lastid_sent, handleid, idcache, up, server, stopping, restarts>>
  BY DEF CloseMemory
<1> HIDE DEF rows
<1>4. PICK m \in Unexpired(t) :
            \/ StoreTooOld(w, t, m, "insert", rows) \/ StoreInMemory(w, t, m, rows)
            \/ StoreOverflow(w, t, m, "insert", rows) \/ StoreInDatabase(w, "insert", rows)
  BY <1>3
<1>5. /\ BufferTyped' /\ DbTyped' /\ WritersTyped'
      /\ dropped' \in [Tables -> SUBSET Nat]
  BY <1>0, <1>1, <1>2, <1>3, <1>4, StoreTyped
<1>6. IdsTyped'  BY <1>0, <1>1, <1>3, TakenTyped
<1>7. UpTyped' /\ RestTyped'  BY <1>0, <1>3, <1>5 DEF UpTyped, RestTyped
<1> QED  BY <1>5, <1>6, <1>7 DEF BufferInv

\* An autoregistration row.
LEMMA WriteHostTyped ==
    ASSUME BufferInv, NEW w \in Writers, WriteHost(w)
    PROVE  BufferInv'
<1> DEFINE t == WriterTable[w]
           rows == NewRows(t, DcLast(t), 1, 0)
<1>0. UpTyped /\ DbTyped /\ BufferTyped /\ IdsTyped /\ WritersTyped /\ RestTyped
  BY DEF BufferInv
<1>1. t \in Tables /\ written[t] \in Nat /\ DcLast(t) \in Nat
  <2>1. t \in Tables  BY BufferAssumption DEF BufferAssumption
  <2> QED  BY <1>0, <2>1, LastNat DEF IdsTyped
<1>2. rows \in Seq(Row) /\ <<>> \in Seq(Row)
  <2>1. 1 \in Nat /\ 0 \in Nat  OBVIOUS
  <2>2. rows \in Seq(Row)  BY <1>1, <2>1, NewRowsFacts
  <2> QED  BY <2>2
<1>3. /\ \E m \in Unexpired(t) :
            \/ StoreInMemory(w, t, m, rows) /\ TakeDcIds(t, 1)
            \/ /\ \/ StoreTooOld(w, t, m, "alloc", <<>>)
                  \/ StoreOverflow(w, t, m, "alloc", rows)
                  \/ StoreInDatabase(w, "alloc", <<>>)
               /\ UNCHANGED <<dc_ids, written>>
      /\ UNCHANGED <<mode, lastid_sent, handleid, idcache, up, server, stopping, restarts>>
  BY DEF WriteHost
<1> HIDE DEF rows
<1>4. PICK m \in Unexpired(t) :
            \/ StoreInMemory(w, t, m, rows) /\ TakeDcIds(t, 1)
            \/ /\ \/ StoreTooOld(w, t, m, "alloc", <<>>)
                  \/ StoreOverflow(w, t, m, "alloc", rows)
                  \/ StoreInDatabase(w, "alloc", <<>>)
               /\ UNCHANGED <<dc_ids, written>>
  BY <1>3
<1>5. /\ BufferTyped' /\ DbTyped' /\ WritersTyped'
      /\ dropped' \in [Tables -> SUBSET Nat]
  BY <1>0, <1>1, <1>2, <1>3, <1>4, StoreTyped
<1>6. IdsTyped'
  <2>1. CASE TakeDcIds(t, 1)  BY <1>0, <1>1, <1>3, <2>1, TakenTyped
  <2>2. CASE UNCHANGED <<dc_ids, written>>  BY <1>0, <1>3, <2>2 DEF IdsTyped
  <2> QED  BY <1>4, <2>1, <2>2
<1>7. UpTyped' /\ RestTyped'  BY <1>0, <1>3, <1>5 DEF UpTyped, RestTyped
<1> QED  BY <1>5, <1>6, <1>7 DEF BufferInv

\* Rows of a database handle.
LEMMA AllocIdsTyped ==
    ASSUME BufferInv, NEW w \in Writers, NEW n \in 0..MaxBatch, AllocIds(w, n)
    PROVE  BufferInv'
<1> DEFINE t == WriterTable[w]
           rows == NewRows(t, CachedLast(t), n, wr[w].handle)
<1>0. UpTyped /\ DbTyped /\ BufferTyped /\ IdsTyped /\ WritersTyped /\ RestTyped
  BY DEF BufferInv
<1>1. /\ t \in Tables /\ n \in Nat /\ wr[w].handle \in Nat /\ written[t] \in Nat
      /\ CachedLast(t) \in Nat
  <2>1. t \in Tables /\ MaxBatch \in Nat  BY BufferAssumption DEF BufferAssumption
  <2>2. wr[w].handle \in Nat  BY <1>0 DEF WritersTyped, WriterStates
  <2> QED  BY <1>0, <2>1, <2>2, LastNat DEF IdsTyped
<1>2. rows \in Seq(Row)  BY <1>1, NewRowsFacts
<1>3. /\ TakeCachedIds(t, n)
      /\ wr' = [wr EXCEPT ![w].pc = "insert", ![w].rows = rows]
      /\ UNCHANGED <<pbVars, dc_ids, dbVars, up, server, stopping, dropped, restarts>>
  BY DEF AllocIds
<1> HIDE DEF rows
<1>4. WritersTyped'
  <2>1. wr' \in [Writers -> WriterStates(Seq(Row))]
    BY <1>0, <1>2, <1>3, WriterTyped DEF WritersTyped
  <2> QED  BY <1>0, <1>3, <2>1 DEF WritersTyped, pbVars
<1>5. IdsTyped'
  <2>1. /\ idcache' = (IF n = 0 THEN idcache ELSE [idcache EXCEPT ![t] = CachedLast(t) + n])
        /\ written' = [written EXCEPT ![t] = @ + n]
    BY <1>3 DEF TakeCachedIds
  <2>2. CachedLast(t) + n \in Nat  BY <1>1
  <2>3. idcache' \in [Tables -> Nat]  BY <1>0, <2>1, <2>2 DEF IdsTyped
  <2>4. written' \in [Tables -> Nat]  BY <1>0, <1>1, <2>1 DEF IdsTyped
  <2> QED  BY <1>0, <1>3, <2>3, <2>4 DEF IdsTyped
<1>6. UpTyped' /\ DbTyped' /\ BufferTyped' /\ RestTyped'
  BY <1>0, <1>3 DEF UpTyped, DbTyped, BufferTyped, RestTyped, pbVars, dbVars
<1> QED  BY <1>4, <1>5, <1>6 DEF BufferInv

\* The transaction of a database handle.
LEMMA CommitTyped ==
    ASSUME BufferInv, NEW w \in Writers, Commit(w)
    PROVE  BufferInv'
<1> DEFINE rows == [t \in Tables |-> IF t = WriterTable[w] THEN ToSet(wr[w].rows) ELSE {}]
<1>0. UpTyped /\ DbTyped /\ BufferTyped /\ IdsTyped /\ WritersTyped /\ RestTyped
  BY DEF BufferInv
<1>1. wr[w].rows \in Seq(Row)  BY <1>0 DEF WritersTyped, WriterStates
<1>2. /\ db' = Inserted(db, rows) /\ wr' = [wr EXCEPT ![w].pc = "committed"]
      /\ UNCHANGED <<pbVars, idVars, ids, up, server, histVars>>
  BY DEF Commit
<1>3. rows \in [Tables -> SUBSET Row] /\ \A t \in Tables : IsFiniteSet(rows[t])
  BY <1>1, ToSetFacts, FS_EmptySet
<1> HIDE DEF rows
<1>4. DbTyped'
  <2>1. /\ db' \in [Tables -> SUBSET Row] /\ \A t \in Tables : IsFiniteSet(db'[t])
    BY <1>0, <1>2, <1>3, InsertedFacts
  <2> QED  BY <1>0, <1>2, <2>1 DEF DbTyped
<1>5. WritersTyped'
  <2>1. wr' \in [Writers -> WriterStates(Seq(Row))]
    BY <1>0, <1>2 DEF WritersTyped, WriterStates
  <2> QED  BY <1>0, <1>2, <2>1 DEF WritersTyped, pbVars
<1>6. UpTyped' /\ BufferTyped' /\ IdsTyped' /\ RestTyped'
  BY <1>0, <1>2 DEF UpTyped, BufferTyped, IdsTyped, RestTyped, pbVars, idVars, histVars
<1> QED  BY <1>4, <1>5, <1>6 DEF BufferInv

\* A writer closes its handle.
LEMMA ClosedTyped ==
    ASSUME BufferInv, NEW w \in Writers, CloseEmpty(w) \/ Finish(w)
    PROVE  BufferInv'
<1> DEFINE t == WriterTable[w]
           lastid == MaxId(ToSet(wr[w].rows))
<1>0. UpTyped /\ DbTyped /\ BufferTyped /\ IdsTyped /\ WritersTyped /\ RestTyped
  BY DEF BufferInv
<1>1. /\ wr' = [wr EXCEPT ![w] = Closed] /\ history_handleids' = Deregister(w)
      /\ UNCHANGED <<mode, state, mem, lastid_sent, handleid, idVars, dbVars, up, server,
                     histVars>>
  BY DEF CloseEmpty, Finish
<1>2. WritersTyped'
  <2>1. Closed \in WriterStates(Seq(Row))  BY DEF Closed, WriterStates
  <2>2. wr' \in [Writers -> WriterStates(Seq(Row))]  BY <1>0, <1>1, <2>1 DEF WritersTyped
  <2> QED  BY <1>0, <1>1, <2>2 DEF WritersTyped, Deregister
<1>3. lastid_db' \in [Tables -> Nat]
  <2>1. CASE CloseEmpty(w)  BY <1>0, <2>1 DEF CloseEmpty, BufferTyped
  <2>2. CASE Finish(w)
    <3>1. lastid \in Nat
      <4>1. wr[w].rows \in Seq(Row)  BY <1>0 DEF WritersTyped, WriterStates
      <4> QED  BY <4>1, ToSetFacts, MaxIdFacts
    <3>2. lastid_db' = [lastid_db EXCEPT ![t] = IF @ < lastid THEN lastid ELSE @]
      BY <2>2 DEF Finish
    <3> HIDE DEF lastid
    <3> QED  BY <1>0, <3>1, <3>2 DEF BufferTyped
  <2> QED  BY <2>1, <2>2
<1>4. BufferTyped'  BY <1>0, <1>1, <1>3 DEF BufferTyped
<1>5. UpTyped' /\ DbTyped' /\ IdsTyped' /\ RestTyped'
  BY <1>0, <1>1 DEF UpTyped, DbTyped, IdsTyped, RestTyped, dbVars, idVars, histVars
<1> QED  BY <1>2, <1>4, <1>5 DEF BufferInv

\* Every step of a writing process keeps the types.
LEMMA WriteTyped ==
    ASSUME BufferInv, NEW w \in Writers, Write(w)
    PROVE  BufferInv'
<1>1. CASE Open(w)
  <2>1. WritersTyped'  BY <1>1, OpenTyped DEF BufferInv
  <2>2. UNCHANGED <<mode, state, mem, lastid_sent, lastid_db, idVars, dbVars, up, server,
                    histVars>>
    BY <1>1 DEF Open
  <2>3. UpTyped' /\ DbTyped' /\ BufferTyped' /\ IdsTyped' /\ RestTyped'
    BY <2>2 DEF BufferInv, UpTyped, DbTyped, BufferTyped, IdsTyped, RestTyped, idVars, dbVars,
                histVars
  <2> QED  BY <2>1, <2>3 DEF BufferInv
<1> QED  BY <1>1, CloseMemoryTyped, WriteHostTyped, AllocIdsTyped, CommitTyped, ClosedTyped
         DEF Write

\* The housekeeper only removes rows.
LEMMA HousekeepTyped ==
    ASSUME BufferInv, NEW t \in Tables, Housekeep(t)
    PROVE  BufferInv' /\ \A u \in Tables : db'[u] \in SUBSET db[u]
<1>0. UpTyped /\ DbTyped /\ BufferTyped /\ IdsTyped /\ WritersTyped /\ RestTyped
  BY DEF BufferInv
<1>1. PICK gone \in SUBSET db[t], expired \in SUBSET db[t] :
         /\ db' = [db EXCEPT ![t] = @ \ gone]
         /\ dropped' = [dropped EXCEPT ![t] = @ \cup Vals(expired)]
  <2> DEFINE old == {r \in db[t] : r.id < MaxId(db[t])}
             sent == {r \in old : r.id <= ids[t]}
  <2>1. PICK expired \in SUBSET (old \ sent) :
         /\ db' = [db EXCEPT ![t] = @ \ (sent \cup expired)]
         /\ dropped' = [dropped EXCEPT ![t] = @ \cup Vals(expired)]
    BY DEF Housekeep
  <2>2. sent \cup expired \in SUBSET db[t] /\ expired \in SUBSET db[t]  OBVIOUS
  <2> HIDE DEF old, sent
  <2> QED  BY <2>1, <2>2
<1>2. UNCHANGED <<pbVars, idVars, ids, wr, up, server, stopping, written, restarts>>
  BY DEF Housekeep
<1>3. /\ db' \in [Tables -> SUBSET Row] /\ \A u \in Tables : db'[u] \in SUBSET db[u]
  BY <1>0, <1>1 DEF DbTyped
<1>4. \A u \in Tables : IsFiniteSet(db'[u])  BY <1>0, <1>3, FS_Subset DEF DbTyped
<1>5. DbTyped'  BY <1>0, <1>2, <1>3, <1>4 DEF DbTyped
<1>6. RestTyped'
  <2>1. Vals(expired) \in SUBSET Nat  BY <1>0, <1>1 DEF Vals, Row, DbTyped
  <2>2. dropped' \in [Tables -> SUBSET Nat]  BY <1>0, <1>1, <2>1 DEF RestTyped
  <2> QED  BY <1>0, <1>2, <2>2 DEF RestTyped
<1>7. UpTyped' /\ BufferTyped' /\ IdsTyped' /\ WritersTyped'
  BY <1>0, <1>2 DEF UpTyped, BufferTyped, IdsTyped, WritersTyped, pbVars, idVars
<1> QED  BY <1>3, <1>5, <1>6, <1>7 DEF BufferInv

\* What the proxy starts with.
LEMMA StartTyped ==
    ASSUME BufferInv, NEW dbv \in [Tables -> SUBSET Row], NEW idsv \in [Tables -> Nat],
           \A t \in Tables : IsFiniteSet(dbv[t]),
           Start(dbv, idsv), dropped' \in [Tables -> SUBSET Nat]
    PROVE  /\ BufferInv' /\ mode' = Mode /\ mem' = NoRows /\ db' = dbv /\ restarts' = restarts + 1
           /\ up'.pc = "idle" /\ up'.rows = {} /\ (\A t \in Tables : up'.pkt[t] = {})
           /\ wr' = [w \in Writers |-> Closed] /\ dc_ids' = [t \in Tables |-> -1]
           /\ written' = written /\ server'.last = 0 /\ server'.accepted = server.accepted
           /\ state' \in {"database", "memory"} /\ (Mode = "memory" => state' = "memory")
           /\ Mode # "memory" => lastid_db'["history"] = MaxId(dbv["history"])
<1>0. UpTyped /\ DbTyped /\ BufferTyped /\ IdsTyped /\ WritersTyped /\ RestTyped
  BY DEF BufferInv
<1>1. \A t \in Tables : MaxId(dbv[t]) \in Nat  BY MaxIdFacts
<1>2. StartedIds(dbv, idsv) \in [Tables -> Nat]
  <2>1. ASSUME NEW t \in Tables PROVE Min({idsv[t], MaxId(dbv[t])}) \in Nat
    <3>1. {idsv[t], MaxId(dbv[t])} \in SUBSET Nat /\ {idsv[t], MaxId(dbv[t])} # {}  BY <1>1
    <3> QED  BY <3>1, MinFacts
  <2> QED  BY <2>1 DEF StartedIds
<1>3. /\ mode' = Mode /\ state' = StartedState(dbv, idsv) /\ mem' = NoRows
      /\ handleid' = 0 /\ history_handleids' = {} /\ db' = dbv /\ ids' = StartedIds(dbv, idsv)
      /\ wr' = [w \in Writers |-> Closed] /\ up' = Uploader("idle", 1)
      /\ dc_ids' = [t \in Tables |-> -1] /\ written' = written
      /\ server' = [server EXCEPT !.last = 0, !.session = {}]
  BY DEF Start
<1>4. idcache' = [t \in Tables |-> 0] /\ stopping' = FALSE /\ restarts' = restarts + 1
  BY DEF Start
<1>5. lastid_db' \in [Tables -> Nat] /\ lastid_sent' \in [Tables -> Nat]
      /\ (Mode # "memory" => lastid_db'["history"] = MaxId(dbv["history"]))
  <2>1. lastid_db' = [t \in Tables |-> IF t = "history" /\ Mode # "memory"
                                       THEN [u \in Tables |-> MaxId(dbv[u])][t] ELSE 0]
    BY DEF Start
  <2>2. lastid_sent' = [t \in Tables |-> IF t = "history" /\ Mode # "memory"
                                         THEN StartedIds(dbv, idsv)[t] ELSE 0]
    BY DEF Start
  <2> QED  BY <1>1, <1>2, <2>1, <2>2, HistoryTable
<1>6. /\ up' \in UploaderStates /\ up'.pc = "idle" /\ up'.rows = {}
      /\ \A t \in Tables : up'.pkt[t] = {}
  BY <1>3, UploaderFields
<1>7. UpTyped'  BY <1>6, FS_EmptySet DEF UpTyped
<1>8. DbTyped'  BY <1>2, <1>3 DEF DbTyped
<1>9. state' \in {"database", "memory"} /\ (Mode = "memory" => state' = "memory")
  BY <1>3 DEF StartedState
<1>10. BufferTyped'
  <2>1. Mode \in {"disk", "memory", "hybrid"} /\ MemSize \in Nat
    BY BufferAssumption DEF BufferAssumption
  <2>2. mem' \in [Tables -> Seq(Row)] /\ Used(mem') <= MemSize  BY <1>3, <2>1, NoRowsFacts
  <2> QED  BY <1>3, <1>5, <1>9, <2>1, <2>2 DEF BufferTyped, States
<1>11. IdsTyped'
  <2>1. dc_ids' \in [Tables -> Nat \cup {-1}]
    <3>1. dc_ids' = [t \in Tables |-> -1]  BY <1>3, Zenon
    <3> QED  BY <3>1
  <2>2. idcache' \in [Tables -> Nat]
    <3>1. idcache' = [t \in Tables |-> 0]  BY <1>4, Zenon
    <3> QED  BY <3>1
  <2> QED  BY <1>0, <1>3, <2>1, <2>2 DEF IdsTyped
<1>12. WritersTyped'
  <2>1. Closed \in WriterStates(Seq(Row))  BY DEF Closed, WriterStates
  <2>2. wr' \in [Writers -> WriterStates(Seq(Row))]
    <3>1. wr' = [w \in Writers |-> Closed]  BY <1>3, Zenon
    <3> QED  BY <2>1, <3>1
  <2>3. handleid' \in Nat /\ history_handleids' \in SUBSET (1..handleid')
    <3>1. handleid' = 0 /\ history_handleids' = {}  BY <1>3, Zenon
    <3> QED  BY <3>1
  <2> QED  BY <2>2, <2>3 DEF WritersTyped
<1>13. server' \in ServerStates /\ server'.last = 0 /\ server'.accepted = server.accepted
  BY <1>0, <1>3 DEF RestTyped, ServerStates
<1>14. RestTyped'
  <2>1. stopping' \in BOOLEAN  BY <1>4, Zenon
  <2>2. restarts' \in Nat
    <3>1. restarts' = restarts + 1  BY <1>4, Zenon
    <3> QED  BY <1>0, <3>1 DEF RestTyped
  <2> QED  BY <1>13, <2>1, <2>2 DEF RestTyped
<1>15. BufferInv'  BY <1>7, <1>8, <1>10, <1>11, <1>12, <1>14 DEF BufferInv
<1> QED  BY <1>3, <1>4, <1>5, <1>6, <1>9, <1>13, <1>15

\* The values a crash or a stop discards.
LEMMA ValuesTyped ==
    ASSUME BufferTyped, WritersTyped, NEW t \in Tables
    PROVE  InMemory(t) \in SUBSET Nat /\ InFlight(t) \in SUBSET Nat
<1>1. \A r \in Row : r.val \in Nat  BY DEF Row
<1>2. ASSUME NEW s \in Seq(Row) PROVE Vals(ToSet(s)) \in SUBSET Nat
  <2>1. ToSet(s) \in SUBSET Row  BY ToSetFacts
  <2> QED  BY <1>1, <2>1 DEF Vals
<1>3. InMemory(t) \in SUBSET Nat
  <2>1. mem[t] \in Seq(Row)  BY DEF BufferTyped
  <2> QED  BY <1>2, <2>1 DEF InMemory
<1>4. InFlight(t) \in SUBSET Nat
  <2>1. \A w \in Writers : wr[w].rows \in Seq(Row)  BY DEF WritersTyped, WriterStates
  <2>2. \A w \in Writers : Vals(ToSet(wr[w].rows)) \in SUBSET Nat  BY <1>2, <2>1
  <2> QED  BY <2>2 DEF InFlight
<1> QED  BY <1>3, <1>4

\* A crash or a stop ends in the state of a proxy that has just started.
LEMMA RestartTyped ==
    ASSUME BufferInv, Crash \/ Stop
    PROVE  /\ BufferInv' /\ mode' = Mode /\ mem' = NoRows /\ restarts' = restarts + 1
           /\ up'.pc = "idle" /\ up'.rows = {} /\ (\A t \in Tables : up'.pkt[t] = {})
           /\ wr' = [w \in Writers |-> Closed] /\ dc_ids' = [t \in Tables |-> -1]
           /\ written' = written /\ server'.last = 0 /\ server'.accepted = server.accepted
           /\ state' \in {"database", "memory"} /\ (Mode = "memory" => state' = "memory")
           /\ Mode # "memory" => lastid_db'["history"] = MaxId(db'["history"])
           /\ mode = "memory" => \A t \in Tables : /\ db'[t] = db[t]
                                                  /\ dropped[t] \cup InMemory(t) \subseteq dropped'[t]
<1>0. DbTyped /\ BufferTyped /\ WritersTyped /\ RestTyped  BY DEF BufferInv
<1>1. \A t \in Tables : InMemory(t) \in SUBSET Nat /\ InFlight(t) \in SUBSET Nat
  BY <1>0, ValuesTyped
<1>2. \A t \in Tables : dropped[t] \in SUBSET Nat  BY <1>0 DEF RestTyped
<1>3. CASE Crash
  <2>1. Start(db, ids) /\ dropped' = [t \in Tables |-> dropped[t] \cup InMemory(t) \cup InFlight(t)]
    BY <1>3 DEF Crash
  <2>2. dropped' \in [Tables -> SUBSET Nat]  BY <1>1, <1>2, <2>1
  <2>3. /\ db \in [Tables -> SUBSET Row] /\ ids \in [Tables -> Nat]
        /\ \A t \in Tables : IsFiniteSet(db[t])
    BY <1>0 DEF DbTyped
  <2>4. \A t \in Tables : dropped[t] \cup InMemory(t) \subseteq dropped'[t]  BY <2>1
  <2>5. db' = db  BY <2>1 DEF Start
  <2> QED  BY <2>1, <2>2, <2>3, <2>4, <2>5, StartTyped
<1>4. CASE Stop
  <2> DEFINE D == FlushDb(mem)
             I == FlushIds(mem)
  <2>1. /\ Start(D, I)
        /\ dropped' = IF mode = "memory"
                      THEN [t \in Tables |-> dropped[t] \cup InMemory(t)] ELSE dropped
    BY <1>4 DEF Stop
  <2>2. dropped' \in [Tables -> SUBSET Nat]  BY <1>0, <1>1, <1>2, <2>1 DEF RestTyped
  <2>3. mem \in [Tables -> Seq(Row)]  BY <1>0 DEF BufferTyped
  <2>4. /\ D \in [Tables -> SUBSET Row] /\ I \in [Tables -> Nat]
        /\ \A t \in Tables : IsFiniteSet(D[t]) /\ (mode = "memory" => D[t] = db[t])
    BY <1>0, <2>3, FlushFacts
  <2>5. mode = "memory" => \A t \in Tables : dropped[t] \cup InMemory(t) \subseteq dropped'[t]
    BY <2>1
  <2> HIDE DEF D, I
  <2>6. db' = D  BY <2>1 DEF Start
  <2> QED  BY <2>1, <2>2, <2>4, <2>5, <2>6, StartTyped
<1> QED  BY <1>3, <1>4

LEMMA DisableTyped ==
    ASSUME BufferInv, Disable
    PROVE  BufferInv'
<1>0. UpTyped /\ DbTyped /\ BufferTyped /\ IdsTyped /\ WritersTyped /\ RestTyped
  BY DEF BufferInv
<1>1. /\ mode' = (IF mode = "hybrid" THEN "disk" ELSE mode)
      /\ state' = (IF mode = "hybrid" THEN "database" ELSE state) /\ stopping' = TRUE
      /\ UNCHANGED <<mem, lastid_sent, lastid_db, handleid, history_handleids, idVars, dbVars,
                     wr, up, server, written, dropped, restarts>>
  BY DEF Disable
<1>2. BufferTyped'  BY <1>0, <1>1 DEF BufferTyped, States
<1>3. stopping' \in BOOLEAN  BY <1>1, Zenon
<1>4. UpTyped' /\ DbTyped' /\ IdsTyped' /\ WritersTyped' /\ RestTyped'
  BY <1>0, <1>1, <1>3 DEF UpTyped, DbTyped, IdsTyped, WritersTyped, RestTyped, idVars, dbVars
<1> QED  BY <1>2, <1>4 DEF BufferInv

LEMMA InitTyped ==
    ASSUME Init
    PROVE  BufferInv
<1>1. UpTyped
  <2>1. up = Uploader("idle", 1)  BY DEF Init
  <2>2. 1 \in 1..(Len(TableOrder) + 1)  BY TablePos
  <2>3. up \in UploaderStates /\ up.rows = {} /\ \A t \in Tables : up.pkt[t] = {}
    BY <2>1, <2>2 DEF Uploader, UploaderStates
  <2> QED  BY <2>3, FS_EmptySet DEF UpTyped
<1>2. DbTyped  BY FS_EmptySet DEF Init, DbTyped
<1>3. BufferTyped
  <2>1. Mode \in {"disk", "memory", "hybrid"} /\ MemSize \in Nat
    BY BufferAssumption DEF BufferAssumption
  <2>2. mem \in [Tables -> Seq(Row)] /\ Used(mem) <= MemSize
    <3>1. mem = NoRows  BY DEF Init
    <3> QED  BY <2>1, <3>1, NoRowsFacts
  <2> QED  BY <2>1, <2>2 DEF Init, BufferTyped, States
<1>4. IdsTyped  BY DEF Init, IdsTyped
<1>5. WritersTyped
  <2>1. Closed \in WriterStates(Seq(Row))  BY DEF Closed, WriterStates
  <2> QED  BY <2>1 DEF Init, WritersTyped
<1>6. RestTyped
  <2>1. server \in ServerStates  BY DEF Init, ServerStates
  <2> QED  BY <2>1 DEF Init, RestTyped
<1> QED  BY <1>1, <1>2, <1>3, <1>4, <1>5, <1>6 DEF BufferInv

LEMMA NextTyped ==
    ASSUME BufferInv, [Next]_vars
    PROVE  BufferInv'
<1>1. CASE UNCHANGED vars
  <2>1. UNCHANGED <<pbVars, idVars, dbVars, wr, up, server, histVars>>  BY <1>1 DEF vars
  <2>2. UpTyped' /\ DbTyped' /\ BufferTyped' /\ IdsTyped' /\ WritersTyped' /\ RestTyped'
    BY <2>1 DEF BufferInv, UpTyped, DbTyped, BufferTyped, IdsTyped, WritersTyped, RestTyped,
                pbVars, idVars, dbVars, histVars
  <2> QED  BY <2>2 DEF BufferInv
<1> QED  BY <1>1, WriteTyped, UploaderInv, HousekeepTyped, RestartTyped, DisableTyped DEF Next

\* The types hold in every reachable state, in all modes.
THEOREM BufferInvariant == Spec => []BufferInv
<1>1. Init => BufferInv  BY InitTyped
<1>2. BufferInv /\ [Next]_vars => BufferInv'  BY NextTyped
<1> QED  BY <1>1, <1>2, PTL DEF Spec

\* Every variable of the buffer keeps its type in every mode, through flushes,
\* failed transactions and restarts; no counter of handles and no row id falls
\* below zero.
THEOREM BufferTypes == Spec => []TypeOK
<1>1. HandlesCounted => db_handles_num \in Nat
  <2>1. IsFiniteSet({w \in Writers : WritesDatabase(w)})
    BY BufferAssumption, FS_Subset DEF BufferAssumption
  <2> QED  BY <2>1, FS_CardinalityType DEF HandlesCounted
<1>2. BufferInv /\ HandlesCounted => TypeOK
  BY <1>1 DEF BufferInv, UpTyped, DbTyped, BufferTyped, IdsTyped, WritersTyped, RestTyped, TypeOK
<1> QED  BY <1>2, BufferInvariant, HandleCount, PTL

----------------------------------------------------------------------------
(* The switch back to memory. *)

\* Every row of the database is at or below the last id of its table, or has
\* just been committed by a handle that has still to raise the last id.
DbBelow ==
    Mode # "memory" => \A t \in Tables : t = "history" \/ restarts = 0 =>
        \A r \in db[t] :
            \/ r.id <= lastid_db[t]
            \/ \E w \in Writers : /\ wr[w].pc = "committed" /\ WriterTable[w] = t
                                  /\ r \in ToSet(wr[w].rows)

\* A step that keeps the committed handles, and puts only rows into the
\* database that the last id covers.
LEMMA BelowKept ==
    ASSUME BufferInv, BufferInv', DbBelow, restarts' = restarts,
           \A w \in Writers : wr[w].pc = "committed" => wr'[w] = wr[w],
           \A t \in Tables : /\ lastid_db[t] <= lastid_db'[t]
                             /\ \A r \in db'[t] : r \in db[t] \/ Mode = "memory" \/ r.id <= lastid_db'[t]
    PROVE  DbBelow'
<1> SUFFICES ASSUME Mode # "memory", NEW t \in Tables, t = "history" \/ restarts = 0,
                    NEW r \in db'[t], ~(r.id <= lastid_db'[t])
             PROVE  \E w \in Writers : /\ wr'[w].pc = "committed" /\ WriterTable[w] = t
                                       /\ r \in ToSet(wr'[w].rows)
  BY DEF DbBelow
<1>1. r.id \in Nat /\ lastid_db[t] \in Nat /\ lastid_db'[t] \in Nat /\ lastid_db[t] <= lastid_db'[t]
  BY DEF BufferInv, DbTyped, BufferTyped, Row
<1>2. r \in db[t] /\ ~(r.id <= lastid_db[t])  BY <1>1
<1>3. PICK w \in Writers : /\ wr[w].pc = "committed" /\ WriterTable[w] = t
                           /\ r \in ToSet(wr[w].rows)
  BY <1>2 DEF DbBelow
<1> QED  BY <1>3

\* The four ways to store rows: what is flushed is covered by the last id, and
\* none of them ends in memory state.
LEMMA StoreBelow ==
    ASSUME BufferInv, NEW w \in Writers, NEW t \in Tables, NEW m \in Unexpired(t),
           NEW pc, NEW rows \in Seq(Row), NEW dbrows,
           \/ StoreTooOld(w, t, m, pc, dbrows) \/ StoreInMemory(w, t, m, rows)
           \/ StoreOverflow(w, t, m, pc, rows) \/ StoreInDatabase(w, pc, dbrows)
    PROVE  /\ state' \in {state, "database", "memory_database"}
           /\ \A u \in Tables :
                 /\ lastid_db[u] <= lastid_db'[u]
                 /\ \A r \in db'[u] : r \in db[u] \/ Mode = "memory" \/ r.id <= lastid_db'[u]
<1>0. BufferTyped /\ DbTyped  BY DEF BufferInv
<1>1. m \in [Tables -> Seq(Row)] /\ Used(m) <= Used(mem)  BY <1>0, UnexpiredFacts
<1>2. \A u \in Tables : lastid_db[u] \in Nat  BY <1>0 DEF BufferTyped
<1>3. mode = "memory" <=> Mode = "memory"  BY <1>0 DEF BufferTyped
<1> DEFINE Covered == \A u \in Tables :
                 /\ lastid_db[u] <= lastid_db'[u]
                 /\ \A r \in db'[u] : r \in db[u] \/ Mode = "memory" \/ r.id <= lastid_db'[u]
<1>4. ASSUME UNCHANGED <<lastid_db, dbVars>> PROVE Covered
  <2>1. lastid_db' = lastid_db /\ db' = db  BY <1>4 DEF dbVars
  <2> QED  BY <1>2, <2>1
<1>5. ASSUME NEW x \in [Tables -> Seq(Row)], Fallback(x) PROVE Covered /\ state' = "database"
  <2>1. db' = FlushDb(x) /\ lastid_db' = FlushLastidDb(x) /\ state' = "database"
    BY <1>5 DEF Fallback
  <2>2. ASSUME NEW u \in Tables
        PROVE  /\ lastid_db[u] <= lastid_db'[u]
               /\ db'[u] \in SUBSET (db[u] \cup ToSet(x[u]))
               /\ mode # "memory" => \A r \in ToSet(x[u]) : r.id <= lastid_db'[u]
    BY <1>0, <2>1, FlushFacts
  <2> QED  BY <1>3, <2>1, <2>2
<1> HIDE DEF Covered
<1>6. CASE StoreTooOld(w, t, m, pc, dbrows)
  BY <1>1, <1>5, <1>6 DEF StoreTooOld, Covered
<1>7. CASE StoreInMemory(w, t, m, rows)
  <2>1. UNCHANGED <<state, lastid_db, dbVars>>  BY <1>7 DEF StoreInMemory
  <2> QED  BY <1>4, <2>1 DEF Covered
<1>8. CASE StoreInDatabase(w, pc, dbrows)
  <2>1. UNCHANGED <<state, lastid_db, dbVars>>  BY <1>8 DEF StoreInDatabase
  <2> QED  BY <1>4, <2>1 DEF Covered
<1>9. CASE StoreOverflow(w, t, m, pc, rows)
  <2> DEFINE filled == [m EXCEPT ![t] = @ \o SubSeq(rows, 1, Fitting(m, Len(rows)))]
  <2>1. /\ mode # "memory"
        /\ \/ Fallback(filled)
           \/ state' = "memory_database" /\ UNCHANGED <<lastid_db, dbVars>>
    BY <1>9 DEF StoreOverflow
  <2>2. filled \in [Tables -> Seq(Row)]  BY <1>0, <1>1, <2>1, OverflowFacts
  <2> HIDE DEF filled
  <2> QED  BY <1>4, <1>5, <2>1, <2>2 DEF Covered
<1> QED  BY <1>6, <1>7, <1>8, <1>9

\* A writer's step does not end in memory state, and what it puts into the
\* database is covered unless it is the commit of a database handle.
LEMMA WriteBelow ==
    ASSUME BufferInv, BufferInv', NEW w \in Writers, Write(w)
    PROVE  /\ state' \in {state, "database", "memory_database"} /\ restarts' = restarts
           /\ DbBelow => DbBelow'
<1>0. /\ wr \in [Writers -> WriterStates(Seq(Row))] /\ lastid_db \in [Tables -> Nat]
      /\ DbTyped /\ WriterTable[w] \in Tables
  BY BufferAssumption DEF BufferInv, WritersTyped, BufferTyped, BufferAssumption
<1>1. ASSUME wr[w].pc # "committed", restarts' = restarts,
             \A v \in Writers \ {w} : wr'[v] = wr[v],
             \A u \in Tables :
                 /\ lastid_db[u] <= lastid_db'[u]
                 /\ \A r \in db'[u] : r \in db[u] \/ Mode = "memory" \/ r.id <= lastid_db'[u]
      PROVE  DbBelow => DbBelow'
  <2>1. \A v \in Writers : wr[v].pc = "committed" => wr'[v] = wr[v]  BY <1>1
  <2> QED  BY <1>1, <2>1, BelowKept
<1>2. ASSUME Open(w) \/ CloseEmpty(w) \/ \E n \in 0..MaxBatch : AllocIds(w, n)
      PROVE  state' = state /\ restarts' = restarts /\ (DbBelow => DbBelow')
  <2>1. /\ wr[w].pc # "committed"
        /\ UNCHANGED <<state, lastid_db, db, restarts>>
    BY <1>2 DEF Open, CloseEmpty, AllocIds, pbVars, dbVars, histVars
  <2>2. \A v \in Writers \ {w} : wr'[v] = wr[v]
    BY <1>0, <1>2, Zenon DEF Open, CloseEmpty, AllocIds
  <2>3. \A u \in Tables : lastid_db[u] <= lastid_db'[u] /\ db'[u] = db[u]  BY <1>0, <2>1
  <2> QED  BY <1>1, <2>1, <2>2, <2>3
<1>3. ASSUME NEW n \in 1..MaxBatch, CloseMemory(w, n)
      PROVE  /\ state' \in {state, "database", "memory_database"} /\ restarts' = restarts
             /\ DbBelow => DbBelow'
  <2> DEFINE t == WriterTable[w]
             rows == NewRows(t, DcLast(t), n, wr[w].handle)
  <2>1. rows \in Seq(Row)
    <3>1. DcLast(t) \in Nat /\ written[t] \in Nat
      BY <1>0, LastNat DEF BufferInv, IdsTyped
    <3>2. n \in Nat /\ wr[w].handle \in Nat
      BY <1>0, BufferAssumption DEF BufferAssumption, WriterStates
    <3> QED  BY <1>0, <3>1, <3>2, NewRowsFacts
  <2>2. PICK m \in Unexpired(t) :
            \/ StoreTooOld(w, t, m, "insert", rows) \/ StoreInMemory(w, t, m, rows)
            \/ StoreOverflow(w, t, m, "insert", rows) \/ StoreInDatabase(w, "insert", rows)
    BY <1>3 DEF CloseMemory
  <2>3. wr[w].pc # "committed" /\ restarts' = restarts  BY <1>3 DEF CloseMemory
  <2> HIDE DEF rows
  <2>4. Done(w) \/ \E r : ToDatabase(w, "insert", r)
    BY <2>2, StoreSteps
  <2>5. \A v \in Writers \ {w} : wr'[v] = wr[v]
    BY <1>0, <2>4, Zenon DEF Done, ToDatabase
  <2>6. /\ state' \in {state, "database", "memory_database"}
        /\ \A u \in Tables :
              /\ lastid_db[u] <= lastid_db'[u]
              /\ \A r \in db'[u] : r \in db[u] \/ Mode = "memory" \/ r.id <= lastid_db'[u]
    BY <1>0, <2>1, <2>2, StoreBelow
  <2> QED  BY <1>1, <2>3, <2>5, <2>6
<1>4. ASSUME WriteHost(w)
      PROVE  /\ state' \in {state, "database", "memory_database"} /\ restarts' = restarts
             /\ DbBelow => DbBelow'
  <2> DEFINE t == WriterTable[w]
             rows == NewRows(t, DcLast(t), 1, 0)
  <2>1. rows \in Seq(Row)
    <3>1. DcLast(t) \in Nat /\ written[t] \in Nat /\ 1 \in Nat /\ 0 \in Nat
      BY <1>0, LastNat DEF BufferInv, IdsTyped
    <3> QED  BY <1>0, <3>1, NewRowsFacts
  <2>2. PICK m \in Unexpired(t) :
            \/ StoreTooOld(w, t, m, "alloc", <<>>) \/ StoreInMemory(w, t, m, rows)
            \/ StoreOverflow(w, t, m, "alloc", rows) \/ StoreInDatabase(w, "alloc", <<>>)
    BY <1>4 DEF WriteHost
  <2>3. wr[w].pc # "committed" /\ restarts' = restarts  BY <1>4 DEF WriteHost
  <2> HIDE DEF rows
  <2>4. Done(w) \/ \E r : ToDatabase(w, "alloc", r)
    BY <2>2, StoreSteps
  <2>5. \A v \in Writers \ {w} : wr'[v] = wr[v]
    BY <1>0, <2>4, Zenon DEF Done, ToDatabase
  <2>6. /\ state' \in {state, "database", "memory_database"}
        /\ \A u \in Tables :
              /\ lastid_db[u] <= lastid_db'[u]
              /\ \A r \in db'[u] : r \in db[u] \/ Mode = "memory" \/ r.id <= lastid_db'[u]
    BY <1>0, <2>1, <2>2, StoreBelow
  <2> QED  BY <1>1, <2>3, <2>5, <2>6
<1>5. ASSUME Commit(w)
      PROVE  state' = state /\ restarts' = restarts /\ (DbBelow => DbBelow')
  <2> DEFINE rows == [t \in Tables |-> IF t = WriterTable[w] THEN ToSet(wr[w].rows) ELSE {}]
  <2>1. /\ db' = Inserted(db, rows) /\ wr' = [wr EXCEPT ![w].pc = "committed"]
        /\ wr[w].pc = "insert" /\ UNCHANGED <<state, lastid_db, restarts>>
    BY <1>5 DEF Commit, pbVars, histVars
  <2>2. rows \in [Tables -> SUBSET Row] /\ \A t \in Tables : IsFiniteSet(rows[t])
    <3>1. wr[w].rows \in Seq(Row)  BY <1>0 DEF WriterStates
    <3> QED  BY <3>1, ToSetFacts, FS_EmptySet
  <2>3. \A t \in Tables : rows[t] = IF t = WriterTable[w] THEN ToSet(wr[w].rows) ELSE {}
    OBVIOUS
  <2> HIDE DEF rows
  <2>4. \A t \in Tables : db'[t] \in SUBSET (db[t] \cup rows[t])
    BY <1>0, <2>1, <2>2, InsertedFacts
  <2>5. /\ wr'[w].pc = "committed" /\ wr'[w].rows = wr[w].rows
        /\ \A v \in Writers \ {w} : wr'[v] = wr[v]
    BY <1>0, <2>1 DEF WriterStates
  <2>6. DbBelow => DbBelow'
    <3> SUFFICES ASSUME DbBelow, Mode # "memory", NEW t \in Tables, t = "history" \/ restarts = 0,
                        NEW r \in db'[t], ~(r.id <= lastid_db[t])
                 PROVE  \E v \in Writers : /\ wr'[v].pc = "committed" /\ WriterTable[v] = t
                                           /\ r \in ToSet(wr'[v].rows)
      BY <2>1 DEF DbBelow
    <3>1. CASE r \in db[t]
      <4>1. PICK v \in Writers : /\ wr[v].pc = "committed" /\ WriterTable[v] = t
                                 /\ r \in ToSet(wr[v].rows)
        BY <3>1 DEF DbBelow
      <4>2. v # w  BY <2>1, <4>1
      <4> QED  BY <2>5, <4>1, <4>2
    <3>2. CASE r \notin db[t]
      <4>1. t = WriterTable[w] /\ r \in ToSet(wr[w].rows)  BY <2>3, <2>4, <3>2
      <4> QED  BY <2>5, <4>1
    <3> QED  BY <3>1, <3>2
  <2> QED  BY <2>1, <2>6
<1>6. ASSUME Finish(w)
      PROVE  state' = state /\ restarts' = restarts /\ (DbBelow => DbBelow')
  <2> DEFINE u == WriterTable[w]
             lastid == MaxId(ToSet(wr[w].rows))
  <2>1. /\ lastid_db' = [lastid_db EXCEPT ![u] = IF @ < lastid THEN lastid ELSE @]
        /\ wr' = [wr EXCEPT ![w] = Closed]
        /\ UNCHANGED <<state, db, restarts>>
    BY <1>6 DEF Finish, dbVars, histVars
  <2>2. lastid \in Nat /\ \A r \in ToSet(wr[w].rows) : r.id \in Nat /\ r.id <= lastid
    <3>1. wr[w].rows \in Seq(Row)  BY <1>0 DEF WriterStates
    <3>2. ToSet(wr[w].rows) \in SUBSET Row /\ IsFiniteSet(ToSet(wr[w].rows))
      BY <3>1, ToSetFacts
    <3> QED  BY <3>2, MaxIdFacts DEF Row
  <2> HIDE DEF lastid
  <2>3. /\ \A t \in Tables : lastid_db'[t] \in Nat /\ lastid_db[t] <= lastid_db'[t]
        /\ lastid <= lastid_db'[u]
    BY <1>0, <2>1, <2>2
  <2>4. DbBelow => DbBelow'
    <3> SUFFICES ASSUME DbBelow, Mode # "memory", NEW t \in Tables, t = "history" \/ restarts = 0,
                        NEW r \in db[t], ~(r.id <= lastid_db'[t])
                 PROVE  \E v \in Writers : /\ wr'[v].pc = "committed" /\ WriterTable[v] = t
                                           /\ r \in ToSet(wr'[v].rows)
      BY <2>1 DEF DbBelow
    <3>1. r.id \in Nat /\ lastid_db[t] \in Nat  BY <1>0 DEF DbTyped, Row
    <3>2. ~(r.id <= lastid_db[t])  BY <2>3, <3>1
    <3>3. PICK v \in Writers : /\ wr[v].pc = "committed" /\ WriterTable[v] = t
                               /\ r \in ToSet(wr[v].rows)
      BY <3>2 DEF DbBelow
    <3>4. v # w  BY <2>2, <2>3, <3>1, <3>3
    <3>5. wr'[v] = wr[v]  BY <1>0, <2>1, <3>4
    <3> QED  BY <3>3, <3>5
  <2> QED  BY <2>1, <2>4
<1> QED  BY <1>2, <1>3, <1>4, <1>5, <1>6 DEF Write

\* No other step puts rows into the database, lowers a last id, or ends in
\* memory state, except pb_update_state when everything is drained.
LEMMA BelowNext ==
    ASSUME BufferInv, BufferInv', DbBelow, [Next]_vars
    PROVE  /\ DbBelow'
           /\ state = "database_memory" /\ state' = "memory" /\ restarts' = restarts
              => mode = "hybrid" /\ Drained /\ db' = db /\ lastid_sent' = lastid_sent
<1> DEFINE Quiet == /\ UNCHANGED <<wr, lastid_db, restarts>>
                    /\ \A t \in Tables : db'[t] \in SUBSET db[t]
           Switch == state = "database_memory" /\ state' = "memory" /\ restarts' = restarts
           Goal == DbBelow' /\ (Switch => /\ mode = "hybrid" /\ Drained
                                          /\ db' = db /\ lastid_sent' = lastid_sent)
<1>0. UpTyped /\ DbTyped /\ BufferTyped /\ RestTyped  BY DEF BufferInv
<1>1. ASSUME Quiet PROVE DbBelow'
  <2>1. \A t \in Tables : lastid_db[t] \in Nat  BY <1>0 DEF BufferTyped
  <2>2. \A t \in Tables : lastid_db[t] <= lastid_db'[t]  BY <1>1, <2>1
  <2> QED  BY <1>1, <2>2, BelowKept
<1>2. ASSUME UNCHANGED <<wr, pbVars, db, restarts>> PROVE Goal
  <2>1. Quiet /\ state' = state  BY <1>2 DEF pbVars
  <2> QED  BY <1>1, <2>1
<1>3. ASSUME NEW w \in Writers, Write(w) PROVE Goal
  BY <1>3, WriteBelow
<1>4. CASE Read
  <2>1. UNCHANGED <<pbVars, idVars, dbVars, wr, server, histVars>>  BY <1>4, ReadQuiet
  <2> QED  BY <1>2, <2>1 DEF dbVars, histVars
<1>5. CASE Deliver \/ SendFails \/ ReplyReceived \/ SkipUpdate \/ \E ok \in BOOLEAN : CommitLastids(ok)
  <2>1. UNCHANGED <<wr, pbVars, db, restarts>>
    BY <1>5 DEF Deliver, SendFails, ReplyReceived, SkipUpdate, CommitLastids, dbVars, histVars
  <2> QED  BY <1>2, <2>1
<1>6. CASE \E t \in Tables : SetLastid(t)
  <2>1. Quiet /\ state' = state  BY <1>6 DEF SetLastid, dbVars, histVars
  <2> QED  BY <1>1, <2>1
<1>7. CASE UpdateState
  <2>1. /\ db' = db /\ UNCHANGED <<wr, lastid_db, lastid_sent>> /\ restarts' = restarts
        /\ mode # "hybrid" => state' = state
        /\ mode = "hybrid" /\ state = "database_memory" /\ state' = "memory" => Drained
    BY <1>0, <1>7, UpdateTyped DEF histVars
  <2>2. Quiet  BY <2>1
  <2> QED  BY <1>1, <2>1, <2>2
<1>8. CASE \E t \in Tables : Housekeep(t)
  <2>1. PICK t \in Tables : Housekeep(t)  BY <1>8
  <2>2. UNCHANGED <<pbVars, wr, restarts>>  BY <2>1 DEF Housekeep
  <2>3. \A u \in Tables : db'[u] \in SUBSET db[u]  BY <2>1, HousekeepTyped
  <2>4. Quiet /\ state' = state  BY <2>2, <2>3 DEF pbVars
  <2> QED  BY <1>1, <2>4
<1>9. CASE Disable
  <2>1. Quiet /\ state' \in {"database", state}  BY <1>9 DEF Disable, dbVars
  <2> QED  BY <1>1, <2>1
<1>10. CASE Crash \/ Stop
  <2>1. /\ restarts' = restarts + 1
        /\ Mode # "memory" => lastid_db'["history"] = MaxId(db'["history"])
    BY <1>10, RestartTyped
  <2>2. restarts \in Nat  BY <1>0 DEF RestTyped
  <2>3. restarts' # 0 /\ restarts' # restarts  BY <2>1, <2>2
  <2>4. \A r \in db'["history"] : r.id <= MaxId(db'["history"])
    <3>1. db'["history"] \in SUBSET Row /\ IsFiniteSet(db'["history"])
      BY HistoryTable DEF BufferInv, DbTyped
    <3> QED  BY <3>1, MaxIdFacts
  <2>5. DbBelow'  BY <2>1, <2>3, <2>4 DEF DbBelow
  <2> QED  BY <2>3, <2>5
<1>11. CASE UNCHANGED vars
  BY <1>2, <1>11 DEF vars, dbVars, histVars
<1> QED  BY <1>3, <1>4, <1>5, <1>6, <1>7, <1>8, <1>9, <1>10, <1>11 DEF Next, Acknowledge

THEOREM BelowInvariant == Spec => []DbBelow
<1>1. Init => DbBelow  BY DEF Init, DbBelow
<1>2. BufferInv /\ BufferInv' /\ DbBelow /\ [Next]_vars => DbBelow'  BY BelowNext
<1> QED  BY <1>1, <1>2, BufferInvariant, PTL DEF Spec

\* When pb_update_state goes from database_memory to memory, no handle is still
\* going to write to the database, and no row there (of history, or of any table
\* before the first restart) is above the last id sent: the uploader, which will
\* read from memory, leaves none behind.
THEOREM SwitchDrained == Spec => DrainedSwitch
<1> DEFINE Left == state = "database_memory" /\ state' = "memory" /\ restarts' = restarts =>
                      /\ \A w \in Writers : ~WritesDatabase(w)
                      /\ \A t \in Tables : t = "history" \/ restarts = 0 =>
                            \A r \in db[t] : r.id <= lastid_sent[t]
<1>1. BufferInv /\ BufferInv' /\ DbBelow /\ HandlesCounted /\ [Next]_vars => [Left]_vars
  <2> SUFFICES ASSUME BufferInv, BufferInv', DbBelow, HandlesCounted, [Next]_vars,
                      state = "database_memory", state' = "memory", restarts' = restarts
               PROVE  /\ \A w \in Writers : ~WritesDatabase(w)
                      /\ \A t \in Tables : t = "history" \/ restarts = 0 =>
                            \A r \in db[t] : r.id <= lastid_sent[t]
    OBVIOUS
  <2>1. mode = "hybrid" /\ Drained  BY BelowNext
  <2>2. Mode # "memory" /\ \A t \in Tables : /\ lastid_db[t] \in Nat /\ lastid_sent[t] \in Nat
                                             /\ \A r \in db[t] : r.id \in Nat
    BY <2>1 DEF BufferInv, BufferTyped, DbTyped, Row
  <2>3. \A w \in Writers : ~WritesDatabase(w)
    <3> DEFINE S == {w \in Writers : WritesDatabase(w)}
    <3>1. IsFiniteSet(S)  BY BufferAssumption, FS_Subset DEF BufferAssumption
    <3>2. Cardinality(S) = 0  BY <2>1 DEF Drained, HandlesCounted
    <3>3. S = {}  BY <3>1, <3>2, FS_EmptySet
    <3> QED  BY <3>3
  <2>4. ASSUME NEW t \in Tables, t = "history" \/ restarts = 0, NEW r \in db[t]
        PROVE  r.id <= lastid_sent[t]
    <3>1. r.id <= lastid_db[t]  BY <2>2, <2>3, <2>4 DEF DbBelow, WritesDatabase
    <3>2. lastid_db[t] <= lastid_sent[t]  BY <2>1 DEF Drained
    <3> QED  BY <2>2, <3>1, <3>2
  <2> QED  BY <2>3, <2>4
<1> QED  BY <1>1, BufferInvariant, BelowInvariant, HandleCount, PTL DEF Spec, DrainedSwitch

----------------------------------------------------------------------------
(* Memory mode. *)

\* There is nothing in the database and nobody writes there or reads from it.
MemShape ==
    /\ Mode = "memory" /\ state = "memory"
    /\ \A t \in Tables : db[t] = {}
    /\ \A w \in Writers : wr[w].pc = "idle" \/ (wr[w].pc = "open" /\ wr[w].dst = "memory")
    /\ up.pc \in {"idle", "read", "reply", "set", "update"}

\* the rows of the buffer and of the packet
Held(t) == ToSet(mem[t]) \cup up.pkt[t]

\* The rows' ids grow along each list and are given out already; the packet has
\* every row of the list below one of its own.
MemOrder == \A t \in Tables :
    /\ Rising(mem[t])
    /\ \A r \in Held(t) : r.id <= DcLast(t)
    /\ \A r \in ToSet(mem[t]), q \in up.pkt[t] : r.id <= q.id => r \in up.pkt[t]

\* The server knows the values below the session's last id.
MemSession ==
    /\ server.last <= DcLast("history")
    /\ \A r \in Held("history") : r.id <= server.last => r.val \in server.accepted["history"]

\* The rows of a packet that is answered have been accepted.
MemSent ==
    up.pc \in {"reply", "set"} => \A t \in Tables : Vals(up.pkt[t]) \subseteq server.accepted[t]

MemInv == MemShape /\ MemOrder /\ MemSession /\ MemSent /\ BufferNoLoss

\* In memory mode a value is accepted, discarded or still in the buffer.
LEMMA MemKeeps ==
    ASSUME MemShape, NEW t \in Tables
    PROVE  /\ Kept(t) = server.accepted[t] \cup dropped[t] \cup InMemory(t)
           /\ BufferNoLoss => 1..written[t] \subseteq server.accepted[t] \cup dropped[t] \cup InMemory(t)
<1>1. InFlight(t) = {}  BY DEF MemShape, InFlight
<1>2. InDatabase(t) = {}  BY DEF MemShape, InDatabase, Vals
<1> QED  BY <1>1, <1>2 DEF Kept, BufferNoLoss, NoLoss

\* So nothing is lost when no value leaves these three sets but into another.
LEMMA NoneLost ==
    ASSUME MemShape',
           \A t \in Tables :
              1..written'[t] \subseteq server'.accepted[t] \cup dropped'[t] \cup InMemory(t)'
    PROVE  BufferNoLoss'
<1> SUFFICES ASSUME NEW t \in Tables PROVE 1..written'[t] \subseteq Kept(t)'
  BY DEF BufferNoLoss, NoLoss
<1>1. InFlight(t)' = {}  BY DEF MemShape, InFlight
<1>2. InDatabase(t)' = {}  BY DEF MemShape, InDatabase, Vals
<1>3. Kept(t)' = server'.accepted[t] \cup dropped'[t] \cup InMemory(t)'  BY <1>1, <1>2 DEF Kept
<1> QED  BY <1>3

\* The rows of a step, in the order of their ids.
LEMMA NewRowsRise ==
    ASSUME NEW t \in Tables, NEW last \in Nat, NEW n \in Nat, NEW h \in Nat, written[t] \in Nat
    PROVE  Rising(NewRows(t, last, n, h))
<1> DEFINE s == NewRows(t, last, n, h)
<1>1. s = [k \in 1..n |-> [id |-> last + k, val |-> written[t] + k, handle |-> h]]
  BY DEF NewRows
<1>2. DOMAIN s = 1..n /\ \A k \in 1..n : s[k].id = last + k  BY <1>1
<1> HIDE DEF s
<1>3. Rising(s)  BY <1>2 DEF Rising
<1> QED  BY <1>3 DEF s

\* A step that leaves the buffer, the counters and the server alone, and keeps
\* or drops the packet.
LEMMA MemKept ==
    ASSUME BufferInv, MemInv, MemShape',
           UNCHANGED <<mem, dc_ids, server, written, dropped>>,
           \A t \in Tables : up'.pkt[t] \in {up.pkt[t], {}},
           up'.pc \in {"reply", "set"} =>
              up.pc \in {"reply", "set"} \/ \A t \in Tables : up'.pkt[t] = {}
    PROVE  MemInv'
<1>0. MemShape /\ MemOrder /\ MemSession /\ MemSent /\ BufferNoLoss  BY DEF MemInv
<1>1. ASSUME NEW t \in Tables PROVE DcLast(t)' = DcLast(t)
  <2>1. db[t] = {} /\ db'[t] = {}  BY <1>0 DEF MemShape
  <2> QED  BY <2>1 DEF DcLast
<1>2. \A t \in Tables : Held(t)' \in SUBSET Held(t) /\ up'.pkt[t] \in SUBSET up.pkt[t]
  BY DEF Held
<1>3. MemOrder'
  <2> SUFFICES ASSUME NEW t \in Tables
               PROVE  /\ Rising(mem'[t])
                      /\ \A r \in Held(t)' : r.id <= DcLast(t)'
                      /\ \A r \in ToSet(mem'[t]), q \in up'.pkt[t] : r.id <= q.id => r \in up'.pkt[t]
    BY DEF MemOrder
  <2>1. Rising(mem'[t]) /\ \A r \in Held(t)' : r.id <= DcLast(t)'
    BY <1>0, <1>1, <1>2 DEF MemOrder
  <2>2. \A r \in ToSet(mem'[t]), q \in up'.pkt[t] : r.id <= q.id => r \in up'.pkt[t]
    <3>1. CASE up'.pkt[t] = {}  BY <3>1
    <3>2. CASE up'.pkt[t] = up.pkt[t]  BY <1>0, <3>2 DEF MemOrder
    <3> QED  BY <3>1, <3>2
  <2> QED  BY <2>1, <2>2
<1>4. MemSession'  BY <1>0, <1>1, <1>2, HistoryTable DEF MemSession
<1>5. MemSent'
  <2> SUFFICES ASSUME up'.pc \in {"reply", "set"}, NEW t \in Tables
               PROVE  Vals(up'.pkt[t]) \subseteq server'.accepted[t]
    BY DEF MemSent
  <2>1. CASE up.pc \in {"reply", "set"}
    BY <1>0, <1>2, <2>1 DEF MemSent, Vals
  <2>2. CASE up'.pkt[t] = {}  BY <2>2 DEF Vals
  <2> QED  BY <2>1, <2>2
<1>6. BufferNoLoss'
  <2>1. \A t \in Tables : InMemory(t)' = InMemory(t)  BY DEF InMemory
  <2> QED  BY <1>0, <2>1, MemKeeps, NoneLost
<1> QED  BY <1>3, <1>4, <1>5, <1>6 DEF MemInv

\* A table is read from memory: its first rows go into the packet.
LEMMA MemRead ==
    ASSUME BufferInv, MemInv, NEW t \in Tables, NEW k \in 0..Len(mem[t]), NEW full \in BOOLEAN,
           ReadMemory(t, k, full)
    PROVE  MemInv'
<1> DEFINE taken == ToSet(SubSeq(mem[t], 1, k))
<1>0. /\ MemShape /\ MemOrder /\ MemSession /\ MemSent /\ BufferNoLoss
      /\ BufferTyped /\ up \in UploaderStates
  BY DEF MemInv, BufferInv, UpTyped
<1>1. /\ TableRead(t, taken) /\ taken = {mem[t][i] : i \in 1..k} /\ taken \in SUBSET ToSet(mem[t])
      /\ taken \in SUBSET Row
  BY <1>0, ReadMemoryFields
<1>2. up.pos \in DOMAIN TableOrder /\ UNCHANGED <<pbVars, idVars, dbVars, wr, server, histVars>>
  BY DEF ReadMemory, Reading
<1>3. mem[t] \in Seq(Row) /\ Len(mem[t]) \in Nat /\ DOMAIN mem[t] = 1..Len(mem[t])
  BY <1>0 DEF BufferTyped
<1> HIDE DEF taken
<1>4. /\ up'.pc = "read" /\ up'.pkt[t] = up.pkt[t] \cup taken
      /\ \A u \in Tables \ {t} : up'.pkt[u] = up.pkt[u]
  BY <1>0, <1>1, <1>2, NextTableFields
<1>5. /\ UNCHANGED <<mem, state, db, wr, dc_ids, server, dropped, written>>
  BY <1>2 DEF pbVars, idVars, dbVars, histVars
<1>6. MemShape'  BY <1>0, <1>4, <1>5 DEF MemShape
<1>7. \A u \in Tables : DcLast(u)' = DcLast(u) /\ Held(u)' = Held(u)
  <2> TAKE u \in Tables
  <2>1. DcLast(u)' = DcLast(u)  BY <1>5 DEF DcLast
  <2>2. Held(u)' = Held(u)  BY <1>1, <1>4, <1>5 DEF Held
  <2> QED  BY <2>1, <2>2
<1>8. MemOrder'
  <2> SUFFICES ASSUME NEW u \in Tables, NEW r \in ToSet(mem[u]), NEW q \in up'.pkt[u], r.id <= q.id
               PROVE  r \in up'.pkt[u]
    BY <1>0, <1>5, <1>7 DEF MemOrder
  <2>1. CASE q \in up.pkt[u]
    <3>1. r \in up.pkt[u]  BY <1>0, <2>1 DEF MemOrder
    <3> QED  BY <1>4, <3>1
  <2>2. CASE q \notin up.pkt[u]
    <3>1. u = t /\ q \in taken  BY <1>4, <2>2
    <3>2. PICK i \in 1..k : q = mem[t][i]  BY <1>1, <3>1
    <3>3. PICK j \in DOMAIN mem[t] : r = mem[t][j]  BY <3>1 DEF ToSet
    <3>4. j \in Nat /\ i \in Nat /\ i <= k /\ 1 <= j /\ i \in DOMAIN mem[t]  BY <1>3, <3>2, <3>3
    <3>5. j <= i
      <4> SUFFICES ASSUME i < j PROVE FALSE  BY <3>4
      <4>1. q.id < r.id  BY <1>0, <3>2, <3>3, <3>4 DEF MemOrder, Rising
      <4>2. \A x \in Row : x.id \in Nat  BY DEF Row
      <4>3. q \in Row /\ r \in Row  BY <1>3, <3>1, <3>2, <3>3, <3>4
      <4>4. q.id \in Nat /\ r.id \in Nat  BY <4>2, <4>3
      <4> QED  BY <4>1, <4>4
    <3>6. j \in 1..k  BY <3>4, <3>5
    <3>7. r \in taken  BY <1>1, <3>3, <3>6
    <3> QED  BY <1>4, <3>1, <3>7
  <2> QED  BY <2>1, <2>2
<1>9. MemSession'  BY <1>0, <1>5, <1>7, HistoryTable DEF MemSession
<1>10. MemSent'  BY <1>4 DEF MemSent
<1>11. BufferNoLoss'
  <2>1. \A u \in Tables : InMemory(u)' = InMemory(u)  BY <1>5 DEF InMemory
  <2> QED  BY <1>0, <1>5, <1>6, <2>1, MemKeeps, NoneLost
<1> QED  BY <1>6, <1>8, <1>9, <1>10, <1>11 DEF MemInv

\* The server accepts the packet.  What it discards of history it has.
LEMMA MemDeliver ==
    ASSUME BufferInv, MemInv, Deliver
    PROVE  MemInv'
<1> DEFINE H == up.pkt["history"]
           fresh == Fresh(H)
           last == Max({server.last, MaxId(H)})
<1>0. /\ MemShape /\ MemOrder /\ MemSession /\ MemSent /\ BufferNoLoss
      /\ UpTyped /\ RestTyped /\ up \in UploaderStates /\ server \in ServerStates
      /\ DbTyped /\ IdsTyped
  BY DEF MemInv, BufferInv, UpTyped, RestTyped
<1>1. /\ up'.pc = "reply" /\ up'.pkt = up.pkt  BY <1>0, DeliverTyped
<1>2. UNCHANGED <<mem, state, db, ids, wr, dc_ids, dropped, written>>
  BY DEF Deliver, pbVars, idVars, dbVars, histVars
<1>3. /\ server'.last = last
      /\ server'.accepted = [t \in Tables |-> server.accepted[t] \cup
                                Vals(IF t = "history" THEN fresh ELSE up.pkt[t])]
  BY DEF Deliver
<1>4. H \in SUBSET Row /\ IsFiniteSet(H) /\ server.last \in Nat
  BY <1>0, HistoryTable DEF UpTyped, UploaderStates, ServerStates
<1>5. /\ MaxId(H) \in Nat /\ (\A r \in H : r.id <= MaxId(H))
      /\ (H # {} => \E r \in H : r.id = MaxId(H)) /\ (H = {} => MaxId(H) = 0)
  BY <1>4, MaxIdFacts
<1>6. last \in Nat /\ last \in {server.last, MaxId(H)} /\ server.last <= last /\ MaxId(H) <= last
  BY <1>4, <1>5, MaxOfTwo
<1>7. \A r \in H : r \in fresh \/ r.id <= server.last
  BY <1>4 DEF Fresh, Row
<1> HIDE DEF last, fresh
<1>8. \A t \in Tables : server.accepted[t] \in SUBSET server'.accepted[t]  BY <1>3
<1>9. \A r \in H : r.val \in server'.accepted["history"]
  <2> SUFFICES ASSUME NEW r \in H PROVE r.val \in server'.accepted["history"]  OBVIOUS
  <2>1. CASE r \in fresh  BY <1>3, <2>1, HistoryTable DEF Vals
  <2>2. CASE r.id <= server.last
    <3>1. r.val \in server.accepted["history"]  BY <1>0, <2>2 DEF MemSession, Held
    <3> QED  BY <1>8, <3>1, HistoryTable
  <2> QED  BY <1>7, <2>1, <2>2
<1>10. MemShape'  BY <1>0, <1>1, <1>2 DEF MemShape
<1>11. \A t \in Tables : DcLast(t)' = DcLast(t) /\ Held(t)' = Held(t) /\ DcLast(t) \in Nat
  <2> TAKE t \in Tables
  <2>1. DcLast(t)' = DcLast(t)  BY <1>2 DEF DcLast
  <2>2. Held(t)' = Held(t)  BY <1>1, <1>2 DEF Held
  <2> QED  BY <1>0, <2>1, <2>2, LastNat
<1>12. MemOrder'  BY <1>0, <1>1, <1>2, <1>11 DEF MemOrder
<1>13. MemSession'
  <2>1. last <= DcLast("history")
    <3>1. CASE H = {} \/ last = server.last
      BY <1>0, <1>4, <1>5, <1>6, <1>11, <3>1, HistoryTable DEF MemSession
    <3>2. CASE H # {} /\ last = MaxId(H)
      <4>1. PICK r \in H : r.id = MaxId(H)  BY <1>5, <3>2
      <4>2. r.id <= DcLast("history")  BY <1>0, <4>1, HistoryTable DEF MemOrder, Held
      <4> QED  BY <3>2, <4>1, <4>2
    <3> QED  BY <1>6, <3>1, <3>2
  <2>2. ASSUME NEW r \in Held("history"), r.id <= last PROVE r.val \in server'.accepted["history"]
    <3>1. CASE r.id <= server.last
      <4>1. r.val \in server.accepted["history"]  BY <1>0, <3>1 DEF MemSession
      <4> QED  BY <1>8, <4>1, HistoryTable
    <3>2. CASE r \in H  BY <1>9, <3>2
    <3>3. CASE r \notin H /\ ~(r.id <= server.last)
      <4>1. r \in ToSet(mem["history"])  BY <3>3 DEF Held
      <4>2. last = MaxId(H) /\ H # {}
        <5>1. last # server.last  BY <2>2, <3>3
        <5>2. last = MaxId(H)  BY <1>6, <5>1
        <5>3. last # 0  BY <1>4, <1>6, <5>1
        <5> QED  BY <1>5, <5>2, <5>3
      <4>3. PICK q \in H : q.id = last  BY <1>5, <4>2
      <4>4. r \in H  BY <1>0, <2>2, <4>1, <4>3, HistoryTable DEF MemOrder
      <4> QED  BY <3>3, <4>4
    <3> QED  BY <3>1, <3>2, <3>3
  <2> QED  BY <1>3, <1>11, <2>1, <2>2, HistoryTable DEF MemSession
<1>14. MemSent'
  <2>1. \A t \in Tables : Vals(up.pkt[t]) \subseteq server'.accepted[t]
    <3> TAKE t \in Tables
    <3>1. CASE t = "history"  BY <1>9, <3>1 DEF Vals
    <3>2. CASE t # "history"  BY <1>3, <3>2
    <3> QED  BY <3>1, <3>2
  <2> QED  BY <1>1, <2>1 DEF MemSent
<1>15. BufferNoLoss'
  <2>1. \A t \in Tables : InMemory(t)' = InMemory(t)  BY <1>2 DEF InMemory
  <2>2. \A t \in Tables :
           1..written[t] \subseteq server'.accepted[t] \cup dropped[t] \cup InMemory(t)
    BY <1>0, <1>8, MemKeeps
  <2> QED  BY <1>2, <1>10, <2>1, <2>2, NoneLost
<1> QED  BY <1>10, <1>12, <1>13, <1>14, <1>15 DEF MemInv

\* What is cleared from the buffer has been accepted: it was in the packet.
LEMMA MemCleared ==
    ASSUME BufferInv, MemInv, NEW t \in Tables, SetLastid(t)
    PROVE  MemInv'
<1> DEFINE lastid == MaxId(up.pkt[t])
<1>0. /\ MemShape /\ MemOrder /\ MemSession /\ MemSent /\ BufferNoLoss
      /\ UpTyped /\ BufferTyped /\ up \in UploaderStates
  BY DEF MemInv, BufferInv, UpTyped
<1>1. /\ UNCHANGED <<state, db, wr, dc_ids, server, dropped, written>>
      /\ up.pc = "set"
  BY DEF SetLastid, Reading, idVars, dbVars, histVars
<1>2. /\ up'.pc = "set" /\ up'.pkt = up.pkt
      /\ \A u \in Tables \ {t} : mem'[u] = mem[u]
      /\ mem'[t] \in {mem[t], Cleared(mem[t], lastid)}
      /\ up.pkt[t] = {} => mem' = mem
  BY <1>0, SetLastidFields
<1>3. up.pkt[t] \in SUBSET Row /\ IsFiniteSet(up.pkt[t]) /\ mem[t] \in Seq(Row)
  BY <1>0 DEF UpTyped, BufferTyped, UploaderStates
<1>4. lastid \in Nat /\ (up.pkt[t] # {} => \E q \in up.pkt[t] : q.id = lastid)
  BY <1>3, MaxIdFacts
<1> HIDE DEF lastid
<1>5. /\ ToSet(mem'[t]) \in SUBSET ToSet(mem[t]) /\ (Rising(mem[t]) => Rising(mem'[t]))
      /\ \A r \in ToSet(mem[t]) \ ToSet(mem'[t]) : r.id <= lastid
  BY <1>2, <1>3, <1>4, ClearedFacts
<1>6. \A u \in Tables : ToSet(mem'[u]) \in SUBSET ToSet(mem[u]) /\ Rising(mem'[u])
  BY <1>0, <1>2, <1>5 DEF MemOrder
<1>7. \A u \in Tables : DcLast(u)' = DcLast(u) /\ Held(u)' \in SUBSET Held(u)
  <2> TAKE u \in Tables
  <2>1. DcLast(u)' = DcLast(u)  BY <1>1 DEF DcLast
  <2>2. Held(u)' \in SUBSET Held(u)  BY <1>2, <1>6 DEF Held
  <2> QED  BY <2>1, <2>2
<1>8. MemShape'  BY <1>0, <1>1, <1>2 DEF MemShape
<1>9. MemOrder'
  <2> SUFFICES ASSUME NEW u \in Tables
               PROVE  /\ \A r \in Held(u)' : r.id <= DcLast(u)'
                      /\ \A r \in ToSet(mem'[u]), q \in up'.pkt[u] : r.id <= q.id => r \in up'.pkt[u]
    BY <1>6 DEF MemOrder
  <2>1. \A r \in Held(u)' : r.id <= DcLast(u)'  BY <1>0, <1>7 DEF MemOrder
  <2>2. \A r \in ToSet(mem'[u]), q \in up'.pkt[u] : r.id <= q.id => r \in up'.pkt[u]
    BY <1>0, <1>2, <1>6 DEF MemOrder
  <2> QED  BY <2>1, <2>2
<1>10. MemSession'  BY <1>0, <1>1, <1>7, HistoryTable DEF MemSession
<1>11. MemSent'  BY <1>0, <1>1, <1>2 DEF MemSent
<1>12. ASSUME NEW u \in Tables PROVE InMemory(u) \subseteq server.accepted[u] \cup InMemory(u)'
  <2>1. CASE u # t
    <3>1. InMemory(u)' = InMemory(u)  BY <1>2, <2>1 DEF InMemory
    <3> QED  BY <3>1
  <2>2. CASE u = t
    <3> SUFFICES ASSUME NEW r \in ToSet(mem[t]), r \notin ToSet(mem'[t])
                 PROVE  r.val \in server.accepted[t]
      BY <2>2 DEF InMemory, Vals
    <3>1. r.id <= lastid  BY <1>5
    <3>2. PICK q \in up.pkt[t] : q.id = lastid  BY <1>2, <1>4
    <3>3. r \in up.pkt[t]  BY <1>0, <3>1, <3>2 DEF MemOrder
    <3> QED  BY <1>0, <1>1, <3>3 DEF MemSent, Vals
  <2> QED  BY <2>1, <2>2
<1>13. BufferNoLoss'
  <2>1. ASSUME NEW u \in Tables
        PROVE  1..written[u] \subseteq server.accepted[u] \cup dropped[u] \cup InMemory(u)'
    <3>1. 1..written[u] \subseteq server.accepted[u] \cup dropped[u] \cup InMemory(u)
      BY <1>0, MemKeeps
    <3> QED  BY <1>12, <3>1
  <2> QED  BY <1>1, <1>8, <2>1, NoneLost
<1> QED  BY <1>8, <1>9, <1>10, <1>11, <1>13 DEF MemInv

\* Rows with new ids are added, and older rows discarded to make room.
LEMMA MemStored ==
    ASSUME BufferInv, MemInv, NEW w \in Writers, NEW t \in Tables, NEW m \in Unexpired(t),
           NEW n \in Nat, NEW h \in Nat, TakeDcIds(t, n),
           StoreInMemory(w, t, m, NewRows(t, DcLast(t), n, h)), UNCHANGED <<up, server>>
    PROVE  MemInv'
<1> DEFINE rows == NewRows(t, DcLast(t), n, h)
           new(u) == IF u = t THEN ToSet(rows) ELSE {}
<1>0. /\ MemShape /\ MemOrder /\ MemSession /\ MemSent /\ BufferNoLoss
      /\ BufferTyped /\ IdsTyped /\ DbTyped /\ UpTyped /\ WritersTyped /\ RestTyped
  BY DEF MemInv, BufferInv
<1>1. mode = "memory"  BY <1>0 DEF MemShape, BufferTyped
<1>2. /\ mem' \in AddDiscarding(m, t, rows)
      /\ dropped' = Discarded(mem', t, ToSet(rows)) /\ Done(w)
      /\ UNCHANGED <<state, lastid_db, dbVars>>
  BY <1>1 DEF StoreInMemory
<1>3. /\ dc_ids' = [dc_ids EXCEPT ![t] = DcLast(t) + n]
      /\ written' = [written EXCEPT ![t] = @ + n]
  BY DEF TakeDcIds
<1>4. /\ dc_ids \in [Tables -> Nat \cup {-1}] /\ written \in [Tables -> Nat]
      /\ \A u \in Tables : DcLast(u) \in Nat
  BY <1>0, LastNat DEF IdsTyped
<1>5. /\ rows \in Seq(Row) /\ Rising(rows)
      /\ \A r \in ToSet(rows) : r.id > DcLast(t) /\ r.id <= DcLast(t) + n
      /\ \A v \in Nat : written[t] < v /\ v <= written[t] + n => v \in Vals(ToSet(rows))
  BY <1>4, NewRowsFacts, NewRowsRise
<1> HIDE DEF rows
<1>6. /\ m \in [Tables -> Seq(Row)]
      /\ \A u \in Tables : ToSet(m[u]) \in SUBSET ToSet(mem[u]) /\ Rising(m[u])
  BY <1>0, UnexpiredFacts DEF MemOrder
<1>7. \A u \in Tables : \A r \in Held(u) : r \in Row /\ r.id \in Nat /\ r.id <= DcLast(u)
  <2> SUFFICES ASSUME NEW u \in Tables, NEW r \in Held(u) PROVE r \in Row /\ r.id \in Nat
    BY <1>0 DEF MemOrder
  <2>1. mem[u] \in Seq(Row) /\ up.pkt[u] \in SUBSET Row
    BY <1>0 DEF BufferTyped, UpTyped, UploaderStates
  <2>2. ToSet(mem[u]) \in SUBSET Row  BY <2>1, ToSetFacts
  <2>3. r \in Row  BY <2>1, <2>2 DEF Held
  <2> QED  BY <2>3 DEF Row
<1>8. \A r \in ToSet(m[t]), q \in ToSet(rows) : r.id < q.id
  <2> SUFFICES ASSUME NEW r \in ToSet(m[t]), NEW q \in ToSet(rows) PROVE r.id < q.id  OBVIOUS
  <2>1. r \in Held(t)  BY <1>6 DEF Held
  <2>2. q.id \in Nat
    <3>1. ToSet(rows) \in SUBSET Row  BY <1>5, ToSetFacts
    <3> QED  BY <3>1 DEF Row
  <2>3. r.id \in Nat /\ r.id <= DcLast(t) /\ q.id > DcLast(t)  BY <1>5, <1>7, <2>1
  <2> QED  BY <1>4, <2>2, <2>3
<1>9. \A u \in Tables : /\ Rising(mem'[u])
                        /\ ToSet(mem'[u]) \in SUBSET (ToSet(mem[u]) \cup new(u))
  <2>1. \A u \in Tables : /\ Rising(mem'[u])
                          /\ ToSet(mem'[u]) \in SUBSET (ToSet(m[u]) \cup new(u))
    BY <1>2, <1>5, <1>6, <1>8, AddDiscardingFacts
  <2> QED  BY <1>6, <2>1
<1>10. /\ DcLast(t)' = DcLast(t) + n
       /\ \A u \in Tables : DcLast(u)' \in Nat /\ DcLast(u) <= DcLast(u)'
  <2>1. DcLast(t) + n # -1 /\ DcLast(t) + n \in Nat  BY <1>4
  <2>2. DcLast(t)' = DcLast(t) + n  BY <1>3, <1>4, <2>1 DEF DcLast
  <2>3. ASSUME NEW u \in Tables \ {t} PROVE DcLast(u)' = DcLast(u)
    <3>1. dc_ids'[u] = dc_ids[u] /\ db' = db  BY <1>2, <1>3, <1>4 DEF dbVars
    <3> QED  BY <3>1 DEF DcLast
  <2> QED  BY <1>4, <2>2, <2>3
<1>11. ASSUME NEW u \in Tables, NEW r \in Held(u)'
       PROVE  \/ r \in Held(u)
              \/ u = t /\ r \in ToSet(rows)
  BY <1>9 DEF Held
<1>12. \A r \in ToSet(rows) : r.id \in Nat
  <2>1. ToSet(rows) \in SUBSET Row  BY <1>5, ToSetFacts
  <2> QED  BY <2>1 DEF Row
<1>13. MemShape'
  <2>1. wr' = [wr EXCEPT ![w] = Closed] /\ wr \in [Writers -> WriterStates(Seq(Row))]
    BY <1>0, <1>2 DEF Done, WritersTyped
  <2>2. wr'[w].pc = "idle" /\ \A v \in Writers \ {w} : wr'[v] = wr[v]  BY <2>1 DEF Closed
  <2> QED  BY <1>0, <1>2, <2>2 DEF MemShape, dbVars
<1>14. MemOrder'
  <2> SUFFICES ASSUME NEW u \in Tables
               PROVE  /\ \A r \in Held(u)' : r.id <= DcLast(u)'
                      /\ \A r \in ToSet(mem'[u]), q \in up.pkt[u] : r.id <= q.id => r \in up.pkt[u]
    BY <1>9 DEF MemOrder
  <2>1. ASSUME NEW r \in Held(u)' PROVE r.id <= DcLast(u)'
    <3>1. CASE r \in Held(u)  BY <1>4, <1>7, <1>10, <3>1
    <3>2. CASE u = t /\ r \in ToSet(rows)  BY <1>5, <1>10, <3>2
    <3> QED  BY <1>11, <2>1, <3>1, <3>2
  <2>2. ASSUME NEW r \in ToSet(mem'[u]), NEW q \in up.pkt[u], r.id <= q.id PROVE r \in up.pkt[u]
    <3>1. CASE r \in ToSet(mem[u])  BY <1>0, <2>2, <3>1 DEF MemOrder
    <3>2. CASE r \notin ToSet(mem[u])
      <4>1. u = t /\ r \in ToSet(rows)  BY <1>9, <3>2
      <4>2. q \in Held(u)  BY DEF Held
      <4>3. q.id \in Nat /\ q.id <= DcLast(t) /\ r.id > DcLast(t) /\ r.id \in Nat
        BY <1>5, <1>7, <1>12, <4>1, <4>2
      <4> QED  BY <1>4, <2>2, <4>3
    <3> QED  BY <3>1, <3>2
  <2> QED  BY <2>1, <2>2
<1>15. MemSession'
  <2>0. server.last \in Nat  BY <1>0 DEF RestTyped, ServerStates
  <2>1. server.last <= DcLast("history")'
    BY <1>0, <1>4, <1>10, <2>0, HistoryTable DEF MemSession
  <2>2. ASSUME NEW r \in Held("history")', r.id <= server.last
        PROVE  r.val \in server.accepted["history"]
    <3>1. CASE r \in Held("history")  BY <1>0, <2>2, <3>1 DEF MemSession
    <3>2. CASE "history" = t /\ r \in ToSet(rows)
      <4>1. server.last <= DcLast(t) /\ r.id > DcLast(t) /\ r.id \in Nat
        BY <1>0, <1>5, <1>12, <3>2 DEF MemSession
      <4> QED  BY <1>4, <2>0, <2>2, <4>1
    <3> QED  BY <1>11, <2>2, <3>1, <3>2, HistoryTable
  <2> QED  BY <2>1, <2>2 DEF MemSession
<1>16. MemSent'  BY <1>0 DEF MemSent
<1>17. BufferNoLoss'
  <2> SUFFICES ASSUME NEW u \in Tables, NEW v \in 1..written'[u]
               PROVE  v \in server.accepted[u] \cup dropped'[u] \cup InMemory(u)'
    BY <1>13, NoneLost
  <2>1. dropped'[u] = dropped[u] \cup (Vals(ToSet(mem[u]) \cup new(u)) \ Vals(ToSet(mem'[u])))
    BY <1>2 DEF Discarded, Lost
  <2>2. Vals(ToSet(mem[u]) \cup new(u)) \subseteq dropped'[u] \cup InMemory(u)'
    BY <2>1 DEF InMemory
  <2>3. InMemory(u) \cup Vals(new(u)) \subseteq dropped'[u] \cup InMemory(u)'
    BY <2>2 DEF InMemory, Vals
  <2>4. CASE v \in 1..written[u]
    <3>1. v \in server.accepted[u] \cup dropped[u] \cup InMemory(u)  BY <1>0, <2>4, MemKeeps
    <3> QED  BY <2>1, <2>3, <3>1
  <2>5. CASE v \notin 1..written[u]
    <3>1. u = t /\ written'[u] = written[t] + n  BY <1>3, <1>4, <2>5
    <3>2. v \in Nat /\ written[t] < v /\ v <= written[t] + n  BY <1>4, <2>5, <3>1
    <3>3. v \in Vals(ToSet(rows))  BY <1>5, <3>2
    <3> QED  BY <2>3, <3>1, <3>3
  <2> QED  BY <2>4, <2>5
<1> QED  BY <1>13, <1>14, <1>15, <1>16, <1>17 DEF MemInv

\* Of the four ways to store rows only one is left in memory mode.
LEMMA MemStores ==
    ASSUME BufferInv, MemInv, NEW w, NEW t, NEW m, NEW pc, NEW rows, NEW dbrows
    PROVE  /\ ~StoreTooOld(w, t, m, pc, dbrows) /\ ~StoreOverflow(w, t, m, pc, rows)
           /\ ~StoreInDatabase(w, pc, dbrows)
<1>1. Mode = "memory" /\ mode = "memory" /\ state = "memory"
  BY DEF MemInv, MemShape, BufferInv, BufferTyped
<1>2. ~MayAge  BY <1>1, BufferAssumption DEF BufferAssumption
<1>3. Dst(state) = "memory"  BY <1>1 DEF Dst
<1> QED  BY <1>1, <1>2, <1>3 DEF StoreTooOld, TooOld, StoreOverflow, StoreInDatabase

\* Every step of a writing process keeps the invariant of memory mode.
LEMMA MemWrite ==
    ASSUME BufferInv, MemInv, NEW w \in Writers, Write(w)
    PROVE  MemInv'
<1>0. /\ MemShape /\ WriterTable[w] \in Tables
      /\ wr \in [Writers -> WriterStates(Seq(Row))]
  BY BufferAssumption DEF MemInv, BufferInv, WritersTyped, BufferAssumption
<1>1. CASE Open(w) \/ CloseEmpty(w)
  <2>1. UNCHANGED <<state, mem, db, dc_ids, server, written, dropped, up>>
    BY <1>1 DEF Open, CloseEmpty, idVars, dbVars, histVars
  <2>2. MemShape'
    <3> DEFINE s == [pc |-> "open", dst |-> Dst(state), handle |-> handleid + 1, rows |-> <<>>]
    <3>1. wr' = [wr EXCEPT ![w] = s] \/ wr' = [wr EXCEPT ![w] = Closed]
      BY <1>1 DEF Open, CloseEmpty
    <3>2. s.pc = "open" /\ s.dst = "memory" /\ Closed.pc = "idle"
      BY <1>0 DEF Dst, Closed, MemShape
    <3> HIDE DEF s
    <3>3. \A v \in Writers : wr'[v].pc = "idle" \/ (wr'[v].pc = "open" /\ wr'[v].dst = "memory")
      BY <1>0, <3>1, <3>2 DEF MemShape
    <3> QED  BY <1>0, <2>1, <3>3 DEF MemShape
  <2> QED  BY <2>1, <2>2, MemKept
<1>2. ASSUME NEW n \in 1..MaxBatch, CloseMemory(w, n) PROVE MemInv'
  <2> DEFINE t == WriterTable[w]
             h == wr[w].handle
             rows == NewRows(t, DcLast(t), n, h)
  <2>1. n \in Nat /\ h \in Nat
    BY <1>0, BufferAssumption DEF BufferAssumption, WriterStates
  <2>2. TakeDcIds(t, n) /\ UNCHANGED <<up, server>>  BY <1>2 DEF CloseMemory
  <2>3. PICK m \in Unexpired(t) :
            \/ StoreTooOld(w, t, m, "insert", rows) \/ StoreInMemory(w, t, m, rows)
            \/ StoreOverflow(w, t, m, "insert", rows) \/ StoreInDatabase(w, "insert", rows)
    BY <1>2 DEF CloseMemory
  <2>4. StoreInMemory(w, t, m, rows)  BY <2>3, MemStores
  <2> HIDE DEF h
  <2> QED  BY <1>0, <2>1, <2>2, <2>4, MemStored
<1>3. CASE WriteHost(w)
  <2> DEFINE t == WriterTable[w]
             rows == NewRows(t, DcLast(t), 1, 0)
  <2>1. UNCHANGED <<up, server>>  BY <1>3 DEF WriteHost
  <2>2. PICK m \in Unexpired(t) :
            \/ StoreInMemory(w, t, m, rows) /\ TakeDcIds(t, 1)
            \/ StoreTooOld(w, t, m, "alloc", <<>>)
            \/ StoreOverflow(w, t, m, "alloc", rows)
            \/ StoreInDatabase(w, "alloc", <<>>)
    BY <1>3 DEF WriteHost
  <2>3. StoreInMemory(w, t, m, rows) /\ TakeDcIds(t, 1)  BY <2>2, MemStores
  <2>4. 1 \in Nat /\ 0 \in Nat  OBVIOUS
  <2> QED  BY <1>0, <2>1, <2>3, <2>4, MemStored
<1>4. ~Commit(w) /\ ~Finish(w) /\ \A n : ~AllocIds(w, n)
  BY <1>0 DEF MemShape, Commit, Finish, AllocIds
<1> QED  BY <1>1, <1>2, <1>3, <1>4 DEF Write

\* The server's session, the buffer and the ids start anew together; what was
\* in the buffer counts as discarded.
LEMMA MemRestart ==
    ASSUME BufferInv, MemInv, Crash \/ Stop
    PROVE  MemInv'
<1>0. MemShape /\ BufferNoLoss /\ BufferTyped  BY DEF MemInv, BufferInv
<1>1. mode = "memory"  BY <1>0 DEF MemShape, BufferTyped
<1>2. /\ mem' = NoRows /\ up'.pc = "idle" /\ (\A t \in Tables : up'.pkt[t] = {})
      /\ wr' = [w \in Writers |-> Closed] /\ dc_ids' = [t \in Tables |-> -1]
      /\ written' = written /\ server'.last = 0 /\ server'.accepted = server.accepted
  BY RestartTyped
<1>3. /\ Mode = "memory" /\ state' = "memory"
      /\ \A t \in Tables : db'[t] = db[t] /\ dropped[t] \cup InMemory(t) \subseteq dropped'[t]
  BY <1>0, <1>1, RestartTyped DEF MemShape
<1>4. MemShape'  BY <1>0, <1>2, <1>3 DEF MemShape, Closed
<1>5. \A t \in Tables : Held(t)' = {} /\ mem'[t] = <<>>
  BY <1>2 DEF Held, NoRows, ToSet
<1>6. MemOrder'  BY <1>2, <1>5 DEF MemOrder, Rising
<1>7. MemSession'
  <2>1. DcLast("history")' = 0
    <3>1. db'["history"] = {} /\ dc_ids'["history"] = -1
      BY <1>2, <1>4, HistoryTable DEF MemShape
    <3>2. MaxId({}) = 0
      <4>1. {} \in SUBSET Row /\ IsFiniteSet({})  BY FS_EmptySet
      <4> QED  BY <4>1, MaxIdFacts
    <3> QED  BY <3>1, <3>2 DEF DcLast
  <2> QED  BY <1>2, <1>5, <2>1, HistoryTable DEF MemSession
<1>8. MemSent'  BY <1>2 DEF MemSent
<1>9. BufferNoLoss'
  <2>1. ASSUME NEW t \in Tables
        PROVE  1..written[t] \subseteq server.accepted[t] \cup dropped'[t] \cup InMemory(t)'
    <3>1. 1..written[t] \subseteq server.accepted[t] \cup dropped[t] \cup InMemory(t)
      BY <1>0, MemKeeps
    <3> QED  BY <1>3, <3>1
  <2> QED  BY <1>2, <1>4, <2>1, NoneLost
<1> QED  BY <1>4, <1>6, <1>7, <1>8, <1>9 DEF MemInv

\* Every step of the system in memory mode.
LEMMA MemNext ==
    ASSUME BufferInv, MemInv, [Next]_vars
    PROVE  MemInv'
<1>0. MemShape /\ UpTyped /\ DbTyped /\ BufferTyped  BY DEF MemInv, BufferInv
<1>1. Mode = "memory" /\ mode = "memory" /\ state = "memory" /\ Src(state) = "memory"
  BY <1>0 DEF MemShape, BufferTyped, Src
<1>2. ASSUME UNCHANGED <<state, mem, db, wr, dc_ids, server, written, dropped>>,
             \A t \in Tables : up'.pkt[t] \in {up.pkt[t], {}},
             up'.pc \in {"idle", "read", "reply", "set", "update"},
             up'.pc \in {"reply", "set"} =>
                up.pc \in {"reply", "set"} \/ \A t \in Tables : up'.pkt[t] = {}
      PROVE  MemInv'
  <2>1. MemShape'  BY <1>0, <1>2 DEF MemShape
  <2> QED  BY <1>2, <2>1, MemKept
<1>3. CASE Read
  <2>1. CASE UploadStart
    <3>1. up' = Uploader("read", 1) /\ UNCHANGED <<pbVars, idVars, dbVars, wr, server, histVars>>
      BY <2>1 DEF UploadStart
    <3>2. up'.pc = "read" /\ \A t \in Tables : up'.pkt[t] = {}  BY <3>1, UploaderFields
    <3> QED  BY <1>2, <3>1, <3>2 DEF pbVars, idVars, dbVars, histVars
  <2>2. ASSUME NEW t \in Tables, NEW full \in BOOLEAN, NEW k \in 0..Len(mem[t]),
               ReadMemory(t, k, full)
        PROVE  MemInv'
    BY <2>2, MemRead
  <2>3. /\ ~SelectHistoryGap /\ ~CollectHandles /\ ~WaitHandles
        /\ \A last, full : ~SelectHistory(last, full)
        /\ \A t, last, full : ~SelectOther(t, last, full)
    <3>1. up.pc # "select" /\ up.pc # "gap" /\ up.pc # "wait"  BY <1>0 DEF MemShape
    <3>2. ~SelectHistoryGap /\ ~CollectHandles /\ ~WaitHandles
      BY <3>1 DEF SelectHistoryGap, CollectHandles, WaitHandles, Reading
    <3>3. \A last, full : ~SelectHistory(last, full)
      BY <3>1, Zenon DEF SelectHistory, Reading
    <3>4. \A t, last, full : ~SelectOther(t, last, full)
      <4>1. \A t, last, full : SelectOther(t, last, full) => Reading("select", t)
        BY DEF SelectOther
      <4>2. \A t : ~Reading("select", t)  BY <3>1 DEF Reading
      <4> QED  BY <4>1, <4>2
    <3> QED  BY <3>2, <3>3, <3>4
  <2>4. (\A t : ~ReadLastid(t)) /\ \A t, more : ~SkipTable(t, more)
    BY <1>1 DEF ReadLastid, SkipTable
  <2> QED  BY <1>3, <2>1, <2>2, <2>3, <2>4 DEF Read
<1>4. CASE SendFails \/ ReplyReceived \/ SkipUpdate \/ \E ok \in BOOLEAN : CommitLastids(ok)
  <2>1. /\ db' = db /\ UNCHANGED <<pbVars, idVars, wr, server, histVars>>
        /\ \A t \in Tables : up'.pkt[t] \in {up.pkt[t], {}}
        /\ \/ up'.pc = "idle" /\ \A t \in Tables : up'.pkt[t] = {}
           \/ up.pc \in {"reply", "set"} /\ up'.pkt = up.pkt /\ up'.pc \in {"set", "update"}
    BY <1>0, <1>4, RoundTyped
  <2> QED  BY <1>2, <2>1 DEF pbVars, idVars, histVars
<1>5. CASE UpdateState
  <2>1. /\ db' = db /\ up'.pc = "idle" /\ \A t \in Tables : up'.pkt[t] = {}
        /\ UNCHANGED <<mem, idVars, wr, server, histVars>> /\ state' = state
    BY <1>0, <1>1, <1>5, UpdateTyped
  <2> QED  BY <1>2, <2>1 DEF idVars, histVars
<1>6. CASE Disable
  <2>1. UNCHANGED <<state, mem, db, wr, dc_ids, server, written, dropped, up>>
    BY <1>1, <1>6 DEF Disable, idVars, dbVars
  <2> QED  BY <1>0, <1>2, <2>1 DEF MemShape
<1>7. \A t \in Tables : ~Housekeep(t)
  BY <1>0 DEF MemShape, Housekeep
<1>8. CASE UNCHANGED vars
  BY <1>0, <1>2, <1>8 DEF MemShape, vars, pbVars, idVars, dbVars, histVars
<1> QED  BY <1>3, <1>4, <1>5, <1>6, <1>7, <1>8, MemWrite, MemDeliver, MemCleared, MemRestart
         DEF Next, Acknowledge

\* In memory mode, whatever the buffer discards to make room and whenever the
\* connection or the proxy fails, a written value has been accepted by the
\* server, was discarded by pb_free_space, the offline buffer or the end of the
\* proxy, or is in the buffer and will be sent: none is cleared unsent.
THEOREM MemoryNoLoss == Mode = "memory" => (Spec => []BufferNoLoss)
<1> SUFFICES ASSUME Mode = "memory" PROVE Spec => []BufferNoLoss  OBVIOUS
<1>1. Init => MemInv
  <2> SUFFICES ASSUME Init PROVE MemInv  OBVIOUS
  <2>1. up = Uploader("idle", 1) /\ up.pc = "idle" /\ \A t \in Tables : up.pkt[t] = {}
    BY DEF Init, Uploader
  <2>2. MemShape  BY <2>1 DEF Init, MemShape, Closed
  <2>3. \A t \in Tables : Held(t) = {} /\ mem[t] = <<>>
    BY <2>1 DEF Init, Held, NoRows, ToSet
  <2>4. MemOrder  BY <2>1, <2>3 DEF MemOrder, Rising
  <2>5. MemSession
    <3>1. DbTyped /\ IdsTyped  BY InitTyped DEF BufferInv
    <3>2. DcLast("history") \in Nat  BY <3>1, HistoryTable, LastNat
    <3> QED  BY <2>3, <3>2, HistoryTable DEF Init, MemSession
  <2>6. MemSent  BY <2>1 DEF MemSent
  <2>7. BufferNoLoss
    <3>1. \A t \in Tables : written[t] = 0  BY DEF Init
    <3>2. \A t \in Tables : 1..written[t] = {}  BY <3>1
    <3> QED  BY <3>2 DEF BufferNoLoss, NoLoss
  <2> QED  BY <2>2, <2>4, <2>5, <2>6, <2>7 DEF MemInv
<1>2. BufferInv /\ MemInv /\ [Next]_vars => MemInv'  BY MemNext
<1>3. MemInv => BufferNoLoss  BY DEF MemInv
<1> QED  BY <1>1, <1>2, <1>3, BufferInvariant, PTL DEF Spec
=============================================================================
