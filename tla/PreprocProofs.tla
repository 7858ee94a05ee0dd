--------------------------- MODULE PreprocProofs ---------------------------
(* Theorems about Preproc, for all values of its constants: the counters of  *)
(* the queue, idle workers, serial items, and the values received.           *)
EXTENDS Preproc, FiniteSetTheorems, WellFoundedInduction, TLAPS

----------------------------------------------------------------------------
(* Counting in a list. *)

Hits(list, S) == {n \in DOMAIN list : list[n] \in S}

\* The places of a list that hold elements of S are finitely many.
LEMMA CountFinite ==
    ASSUME NEW T, NEW list \in Seq(T), NEW S
    PROVE  /\ IsFiniteSet(Hits(list, S))
           /\ Count(list, S) = Cardinality(Hits(list, S))
           /\ Count(list, S) \in Nat
<1>1. Len(list) \in Nat /\ DOMAIN list = 1 .. Len(list)  OBVIOUS
<1>2. IsFiniteSet(1 .. Len(list))  BY <1>1, FS_Interval
<1>3. Hits(list, S) \in SUBSET (1 .. Len(list))  BY <1>1 DEF Hits
<1>4. IsFiniteSet(Hits(list, S))  BY <1>2, <1>3, FS_Subset
<1>5. Cardinality(Hits(list, S)) \in Nat  BY <1>4, FS_CardinalityType
<1> QED  BY <1>4, <1>5 DEF Count, Hits

\* An empty list has no elements in S.
LEMMA CountEmpty ==
    ASSUME NEW S
    PROVE  Count(<<>>, S) = 0
<1>1. {n \in DOMAIN <<>> : <<>>[n] \in S} = {}  OBVIOUS
<1> QED  BY <1>1, FS_EmptySet DEF Count

\* A list with an element in S has one at least, and the other way round.
LEMMA CountSome ==
    ASSUME NEW T, NEW list \in Seq(T), NEW S
    PROVE  Count(list, S) > 0 <=> \E n \in DOMAIN list : list[n] \in S
<1>1. IsFiniteSet(Hits(list, S)) /\ Count(list, S) = Cardinality(Hits(list, S))
      /\ Count(list, S) \in Nat
  BY CountFinite
<1>2. Count(list, S) = 0 <=> Hits(list, S) = {}  BY <1>1, FS_EmptySet
<1> QED  BY <1>1, <1>2 DEF Hits

\* An element is appended.
LEMMA CountAppend ==
    ASSUME NEW T, NEW list \in Seq(T), NEW e \in T, NEW S
    PROVE  Count(Append(list, e), S) = Count(list, S) + (IF e \in S THEN 1 ELSE 0)
<1> DEFINE longer == Append(list, e)
           k == Len(list) + 1
<1>1. /\ Len(list) \in Nat /\ DOMAIN list = 1 .. Len(list)
      /\ longer \in Seq(T) /\ DOMAIN longer = 1 .. k
      /\ longer[k] = e /\ \A n \in DOMAIN list : longer[n] = list[n]
  OBVIOUS
<1>2. IsFiniteSet(Hits(list, S)) /\ Count(list, S) = Cardinality(Hits(list, S))
  BY CountFinite
<1>3. Count(longer, S) = Cardinality(Hits(longer, S))  BY <1>1, CountFinite
<1>4. Count(list, S) \in Nat  BY CountFinite
<1> HIDE DEF longer
<1>5. CASE e \in S
  <2>1. Hits(longer, S) = Hits(list, S) \cup {k}
    BY <1>1, <1>5 DEF Hits
  <2>2. k \notin Hits(list, S)  BY <1>1 DEF Hits
  <2>3. Cardinality(Hits(longer, S)) = Cardinality(Hits(list, S)) + 1
    BY <1>2, <2>1, <2>2, FS_AddElement
  <2> QED  BY <1>2, <1>3, <1>5, <2>3 DEF longer
<1>6. CASE e \notin S
  <2>1. Hits(longer, S) = Hits(list, S)
    BY <1>1, <1>6 DEF Hits
  <2> QED  BY <1>2, <1>3, <1>4, <1>6, <2>1 DEF longer
<1> QED  BY <1>5, <1>6

\* The first element is taken off.
LEMMA CountTail ==
    ASSUME NEW T, NEW list \in Seq(T), list # <<>>, NEW S
    PROVE  Count(Tail(list), S) = Count(list, S) - (IF Head(list) \in S THEN 1 ELSE 0)
<1> DEFINE shorter == Tail(list)
           rest == Hits(list, S) \ {1}
           f == [n \in rest |-> n - 1]
<1>1. /\ Len(list) \in Nat \ {0} /\ DOMAIN list = 1 .. Len(list) /\ Head(list) = list[1]
      /\ shorter \in Seq(T) /\ DOMAIN shorter = 1 .. Len(list) - 1
      /\ \A n \in DOMAIN shorter : shorter[n] = list[n + 1]
  OBVIOUS
<1>2. IsFiniteSet(Hits(list, S)) /\ Count(list, S) = Cardinality(Hits(list, S))
      /\ Count(list, S) \in Nat
  BY CountFinite
<1>3. Count(shorter, S) = Cardinality(Hits(shorter, S))  BY <1>1, CountFinite
<1> HIDE DEF shorter
<1>4. IsFiniteSet(rest)
      /\ Cardinality(rest) = IF 1 \in Hits(list, S) THEN Count(list, S) - 1
                                                       ELSE Count(list, S)
  BY <1>2, FS_RemoveElement
<1>5. f \in Bijection(rest, Hits(shorter, S))
  <2>1. \A n \in rest : n \in 2 .. Len(list) /\ n - 1 \in 1 .. Len(list) - 1 /\ (n - 1) + 1 = n
    BY <1>1 DEF Hits
  <2>2. \A n \in rest : f[n] \in Hits(shorter, S)
    BY <1>1, <2>1 DEF Hits
  <2>3. \A n, p \in rest : f[n] = f[p] => n = p
    BY <2>1
  <2>4. ASSUME NEW p \in Hits(shorter, S)
        PROVE  \E n \in rest : f[n] = p
    <3>1. p \in 1 .. Len(list) - 1 /\ shorter[p] \in S  BY <1>1, <2>4 DEF Hits
    <3>2. p + 1 \in 1 .. Len(list) /\ p + 1 # 1 /\ list[p + 1] \in S
      BY <1>1, <3>1
    <3>3. p + 1 \in rest  BY <1>1, <3>2 DEF Hits
    <3>4. f[p + 1] = p  BY <3>1, <3>3
    <3> QED  BY <3>3, <3>4
  <2>5. f \in [rest -> Hits(shorter, S)]  BY <2>2
  <2>6. f \in Injection(rest, Hits(shorter, S))
    <3> HIDE DEF f, rest
    <3> QED  BY <2>3, <2>5 DEF Injection, IsInjective
  <2>7. f \in Surjection(rest, Hits(shorter, S))
    <3> HIDE DEF f, rest
    <3> QED  BY <2>4, <2>5 DEF Surjection
  <2> QED  BY <2>6, <2>7 DEF Bijection
<1>6. Cardinality(Hits(shorter, S)) = Cardinality(rest)
  BY <1>4, <1>5, FS_Bijection DEF ExistsBijection
<1>7. 1 \in Hits(list, S) <=> Head(list) \in S
  <2>1. 1 \in DOMAIN list  BY <1>1
  <2> QED  BY <1>1, <2>1 DEF Hits
<1> QED  BY <1>2, <1>3, <1>4, <1>6, <1>7 DEF shorter

\* Two lists that have elements in S at the same places.
LEMMA CountSame ==
    ASSUME NEW list, NEW other, NEW S, DOMAIN list = DOMAIN other,
           \A n \in DOMAIN list : list[n] \in S <=> other[n] \in S
    PROVE  Count(list, S) = Count(other, S)
<1>1. {n \in DOMAIN list : list[n] \in S} = {n \in DOMAIN other : other[n] \in S}
  OBVIOUS
<1> QED  BY <1>1 DEF Count

----------------------------------------------------------------------------
(* The invariant. *)

Values == 1 .. MaxValues

\* the first dependent item that can use a cache, while all items are known
CacheIndexes(i) == {n \in DOMAIN Deps[i] : Deps[i][n] \in Cacheable}
FirstCached(i) == Deps[i][Min(CacheIndexes(i))]
Sharing == {FirstCached(i) : i \in {j \in Items : CacheIndexes(j) # {}}}

\* Tasks of each list; "steady" as long as the configuration has not changed.
PendingTasks ==
    {t \in Tasks : /\ t.type = IF t.item \in Serial THEN "value_seq" ELSE "value"
                   /\ t.item \in Roots /\ t.primary = t.item /\ t.value \in Values}

RunTasks(steady) ==
    {t \in Tasks : \/ /\ t.type = "value" /\ t.primary = t.item /\ t.value \in Values
                      /\ t.item \notin Serial /\ (steady => t.item \notin Sharing)
                   \/ t.type = "sequence" /\ t = SequenceTask(t.item)
                   \/ t.type = "test"}

MemberTasks(i, steady) ==
    {t \in Tasks :
        /\ t.item = i /\ t.value \in Values
        /\ \/ /\ t.type = "value_seq" /\ t.primary = i
              /\ i \in Serial /\ (steady => i \notin Sharing)
           \/ /\ t.type = "dependent" /\ t.primary \in Range(Deps[i])
              /\ steady => CacheIndexes(i) # {} /\ t.primary = FirstCached(i)}

Fields(Q) ==
    [pending : {Q.pending}, immediate : {Q.immediate}, finished : {Q.finished},
     sequences : {Q.sequences}, pending_num : {Q.pending_num},
     processing_num : {Q.processing_num}, finished_num : {Q.finished_num}, woken : {Q.woken}]

\* a queue in which only the sequences of items in E may have become empty
Shape(Q, E, steady) ==
    /\ Q \in Fields(Q)
    /\ Q.pending \in Seq(PendingTasks)
    /\ Q.immediate \in Seq(RunTasks(steady)) /\ Q.finished \in Seq(RunTasks(steady))
    /\ Registered(Q) \subseteq Items /\ Q.sequences \in [Registered(Q) -> Seq(Tasks)]
    /\ \A i \in Registered(Q) : Q.sequences[i] \in Seq(MemberTasks(i, steady))
    /\ \A i \in Registered(Q) \ E : Q.sequences[i] # <<>>
    /\ IsFiniteSet(Registered(Q)) /\ IsFiniteSet(Places(Q))
    /\ Q.pending_num \in Int /\ Q.processing_num \in Int
    /\ Q.finished_num \in Int /\ Q.woken \in Nat

\* Containers that are neither in the list of immediate tasks nor in that of
\* finished ones: of item i, and of all items.
Gap(Q, i) ==
    (IF i \in Registered(Q) THEN 1 ELSE 0)
        - Count(Q.immediate, {SequenceTask(i)}) - Count(Q.finished, {SequenceTask(i)})
Gaps(Q) ==
    Cardinality(Registered(Q)) - Count(Q.immediate, Containers) - Count(Q.finished, Containers)

\* how many more tasks are counted as pending than wait
Surplus(Q) ==
    Q.pending_num
        - (Len(Q.pending) + Len(Q.immediate) - Count(Q.immediate, Containers)
             + Cardinality(Places(Q)) - Count(Q.finished, Containers))

\* values v of item i in the queue
Own(i, v) == {t \in Tasks : t.type \in {"value", "value_seq"} /\ t.item = i /\ t.value = v}
Inside(Q, i, v) ==
    Count(Q.pending, Own(i, v)) + Count(Q.immediate, Own(i, v))
        + Count(Q.finished, Own(i, v)) + Count(Sequence(Q, i), Own(i, v))

\* nobody sleeps while a list has tasks
Awake(Q, waiting) ==
    waiting = {} \/ Q.woken > 0 \/ (Q.pending = <<>> /\ Q.immediate = <<>>)

WorkerShape ==
    /\ worker \in [Workers -> [state : {"new", "waiting", "busy", "ended"}, task : Tasks]]
    /\ \A w \in Busy : worker[w].task \in RunTasks(syncs = 0)

Balance ==
    /\ \A i \in Items : Gap(q, i) = HeldCount({SequenceTask(i)})
    /\ Gaps(q) = HeldCount(Containers)
    /\ Surplus(q) = - HeldCount(Containers)
    /\ q.processing_num = Cardinality(Busy)
    /\ q.finished_num = Len(q.finished)

Turn ==
    /\ pc \in {"create", "recv", "push", "process", "finish", "stop", "stopped"}
    /\ batch \in Nat
    /\ pc = "push" => batch <= Len(accepted)
    /\ pc = "finish" => batch <= MaxBatch
    /\ pc \notin {"push", "finish"} => batch = 0
    /\ pc = "stopped" => q = EmptyQueue /\ Busy = {}

Signals ==
    /\ q.woken <= Cardinality(Waiting)
    /\ Stopping \/ Awake(q, Waiting) \/ (pc = "push" /\ batch > 0)

Rest ==
    /\ items \subseteq Items /\ (syncs = 0 => items = Items)
    /\ syncs \in 0 .. MaxSyncs
    /\ accepted \in Seq(Arrivals) /\ Len(accepted) + tests.received <= MaxValues
    /\ flushed \in [Items -> Seq(Values)]
    /\ tests \in [received : 0 .. MaxTests, answered : Nat]

Came(i, v) == IF v \in DOMAIN accepted /\ accepted[v].item = i THEN 1 ELSE 0

\* each value received is somewhere once, until the queue is freed
Settled ==
    \A i \in Roots, v \in Values :
        LET left == Count(flushed[i], {v})
        IN  IF pc = "stopped" THEN left <= Came(i, v)
            ELSE Inside(q, i, v) + HeldCount(Own(i, v)) + left = Came(i, v)

IInv ==
    /\ Shape(q, {}, syncs = 0) /\ WorkerShape /\ Balance
    /\ Turn /\ Signals /\ Rest /\ Settled

----------------------------------------------------------------------------
(* What the operations of the queue do to it. *)

\* The sequences of a queue.
LEMMA Sequences ==
    ASSUME NEW Q, NEW E, NEW steady \in BOOLEAN, Shape(Q, E, steady), NEW i \in Items
    PROVE  /\ Sequence(Q, i) \in Seq(MemberTasks(i, steady))
           /\ Sequence(Q, i) \in Seq(Tasks)
<1>1. MemberTasks(i, steady) \subseteq Tasks  BY DEF MemberTasks
<1>2. Sequence(Q, i) \in Seq(MemberTasks(i, steady))
  BY DEF Shape, Sequence
<1>3. Sequence(Q, i) \in Seq(Tasks)
  BY DEF Shape, Sequence
<1> QED  BY <1>2, <1>3

\* What an operation does to the queue for task t: how many more containers are
\* outside the lists, how many more tasks are counted than wait, how many more
\* tasks the queue holds.
Effect(Q, P, t, gap, surplus, inside) ==
    /\ \A i \in Items : Gap(P, i) = Gap(Q, i) + (IF i = t.item THEN gap ELSE 0)
    /\ Gaps(P) = Gaps(Q) + gap
    /\ Surplus(P) = Surplus(Q) + surplus
    /\ \A i \in Roots, v \in Values :
          Inside(P, i, v) = Inside(Q, i, v) + (IF t \in Own(i, v) THEN inside ELSE 0)

\* A queue's lists are lists of tasks, and what is counted in them are numbers.
LEMMA Lists ==
    ASSUME NEW Q, NEW E, NEW steady \in BOOLEAN, Shape(Q, E, steady)
    PROVE  /\ Q.pending \in Seq(Tasks) /\ Q.immediate \in Seq(Tasks)
           /\ Q.finished \in Seq(Tasks)
           /\ \A S : Count(Q.pending, S) \in Nat /\ Count(Q.immediate, S) \in Nat
                       /\ Count(Q.finished, S) \in Nat
           /\ \A i \in Items : \A S : Count(Sequence(Q, i), S) \in Nat
           /\ Cardinality(Registered(Q)) \in Nat /\ Cardinality(Places(Q)) \in Nat
           /\ Len(Q.pending) \in Nat /\ Len(Q.immediate) \in Nat /\ Q.pending_num \in Int
<1>1. PendingTasks \subseteq Tasks /\ RunTasks(steady) \subseteq Tasks
  BY DEF PendingTasks, RunTasks
<1>2. Q.pending \in Seq(Tasks) /\ Q.immediate \in Seq(Tasks) /\ Q.finished \in Seq(Tasks)
  BY <1>1 DEF Shape
<1>3. \A i \in Items : Sequence(Q, i) \in Seq(Tasks)  BY Sequences
<1>4. \A S : Count(Q.pending, S) \in Nat  BY <1>2, CountFinite
<1>5. \A S : Count(Q.immediate, S) \in Nat  BY <1>2, CountFinite
<1>6. \A S : Count(Q.finished, S) \in Nat  BY <1>2, CountFinite
<1>7. \A i \in Items : \A S : Count(Sequence(Q, i), S) \in Nat  BY <1>3, CountFinite
<1>8. Cardinality(Registered(Q)) \in Nat /\ Cardinality(Places(Q)) \in Nat
  BY FS_CardinalityType DEF Shape
<1>9. Len(Q.pending) \in Nat /\ Len(Q.immediate) \in Nat  BY <1>2
<1>10. Q.pending_num \in Int  BY DEF Shape
<1> QED  BY <1>2, <1>4, <1>5, <1>6, <1>7, <1>8, <1>9, <1>10

\* A task joins its sequence: what changes of the queue, field by field.
LEMMA AddSequenceFields ==
    ASSUME NEW Q, NEW E, NEW steady \in BOOLEAN, Shape(Q, E, steady), NEW t
    PROVE  LET P == AddSequence(Q, t)
           IN  /\ P \in Fields(P)
               /\ P.pending = Q.pending /\ P.immediate = Q.immediate
               /\ P.finished = Q.finished /\ P.pending_num = Q.pending_num
               /\ P.processing_num = Q.processing_num /\ P.finished_num = Q.finished_num
               /\ P.woken = Q.woken
               /\ Registered(P) = Registered(Q) \cup {t.item}
               /\ P.sequences = [i \in Registered(P) |-> P.sequences[i]]
               /\ \A i \in Registered(P) :
                     P.sequences[i] = IF i = t.item THEN Append(Sequence(Q, i), t)
                                      ELSE Sequence(Q, i)
<1> DEFINE map == [i \in Registered(Q) \cup {t.item} |->
                     IF i = t.item THEN Append(Sequence(Q, i), t) ELSE Sequence(Q, i)]
<1>1. AddSequence(Q, t) = [Q EXCEPT !.sequences = map]
  BY DEF AddSequence
<1>2. Q \in Fields(Q)  BY DEF Shape
<1> HIDE DEF map
<1>3. LET P == AddSequence(Q, t)
      IN  /\ P \in Fields(P)
          /\ P.pending = Q.pending /\ P.immediate = Q.immediate
          /\ P.finished = Q.finished /\ P.pending_num = Q.pending_num
          /\ P.processing_num = Q.processing_num /\ P.finished_num = Q.finished_num
          /\ P.woken = Q.woken /\ P.sequences = map
  BY <1>1, <1>2 DEF Fields
<1>4. /\ DOMAIN map = Registered(Q) \cup {t.item}
      /\ map = [i \in DOMAIN map |-> map[i]]
      /\ \A i \in DOMAIN map : map[i] = IF i = t.item THEN Append(Sequence(Q, i), t)
                                       ELSE Sequence(Q, i)
  BY DEF map
<1> QED  BY <1>3, <1>4 DEF Registered

\* The queue keeps its shape, one place more in the sequences.
LEMMA AddSequenceShape ==
    ASSUME NEW Q, NEW E, NEW steady \in BOOLEAN, Shape(Q, E, steady),
           NEW t, t.item \in Items, t \in MemberTasks(t.item, steady)
    PROVE  LET P == AddSequence(Q, t)
           IN  /\ Shape(P, E, steady) /\ Registered(P) = Registered(Q) \cup {t.item}
               /\ Cardinality(Registered(P)) =
                    Cardinality(Registered(Q)) + (IF t.item \in Registered(Q) THEN 0 ELSE 1)
               /\ Cardinality(Places(P)) = Cardinality(Places(Q)) + 1
               /\ Sequence(P, t.item) = Append(Sequence(Q, t.item), t)
               /\ \A i \in Items \ {t.item} : Sequence(P, i) = Sequence(Q, i)
<1> DEFINE P == AddSequence(Q, t)
           j == t.item
           k == Len(Sequence(Q, j)) + 1
<1>1. /\ P \in Fields(P)
      /\ P.pending = Q.pending /\ P.immediate = Q.immediate
      /\ P.finished = Q.finished /\ P.pending_num = Q.pending_num
      /\ P.processing_num = Q.processing_num /\ P.finished_num = Q.finished_num
      /\ P.woken = Q.woken
      /\ Registered(P) = Registered(Q) \cup {j}
      /\ P.sequences = [i \in Registered(P) |-> P.sequences[i]]
      /\ \A i \in Registered(P) :
            P.sequences[i] = IF i = j THEN Append(Sequence(Q, i), t) ELSE Sequence(Q, i)
  BY AddSequenceFields
<1> HIDE DEF P
<1>2. /\ Registered(P) = Registered(Q) \cup {j}
      /\ Registered(P) \subseteq Items /\ Registered(Q) \subseteq Items
  BY <1>1 DEF Registered, Shape
<1>3. Sequence(Q, j) \in Seq(MemberTasks(j, steady)) /\ Sequence(Q, j) \in Seq(Tasks)
  BY Sequences
<1>4. t \in Tasks  BY DEF MemberTasks
<1>5. /\ Sequence(P, j) = Append(Sequence(Q, j), t)
      /\ Append(Sequence(Q, j), t) \in Seq(MemberTasks(j, steady))
      /\ Append(Sequence(Q, j), t) \in Seq(Tasks)
      /\ Append(Sequence(Q, j), t) # <<>>
      /\ DOMAIN Append(Sequence(Q, j), t) = DOMAIN Sequence(Q, j) \cup {k}
      /\ k \notin DOMAIN Sequence(Q, j)
  <2>1. Sequence(P, j) = Append(Sequence(Q, j), t)  BY <1>1, <1>2 DEF Sequence
  <2> HIDE DEF j
  <2> QED  BY <1>3, <1>4, <2>1 DEF j
<1>6. \A i \in Items \ {j} : Sequence(P, i) = Sequence(Q, i)
  BY <1>1, <1>2 DEF Sequence
<1>7. \A i \in Registered(P) : P.sequences[i] = Sequence(P, i)
  BY DEF Sequence
<1>8. \A i \in Registered(P) : P.sequences[i] \in Seq(MemberTasks(i, steady))
  BY <1>2, <1>5, <1>6, <1>7, Sequences
<1>9. P.sequences \in [Registered(P) -> Seq(Tasks)]
  <2>1. \A i \in Registered(P) : P.sequences[i] \in Seq(Tasks)
    BY <1>2, <1>5, <1>6, <1>7, Sequences
  <2> QED  BY <1>1, <1>2, <2>1
<1>10. \A i \in Registered(P) \ E : P.sequences[i] # <<>>
  <2>1. \A i \in Registered(Q) \ E : Sequence(Q, i) # <<>>  BY DEF Shape, Sequence
  <2> QED  BY <1>2, <1>5, <1>6, <1>7, <2>1
<1>11. /\ IsFiniteSet(Registered(P))
       /\ Cardinality(Registered(P)) =
            Cardinality(Registered(Q)) + (IF j \in Registered(Q) THEN 0 ELSE 1)
  <2>1. IsFiniteSet(Registered(Q)) /\ Cardinality(Registered(Q)) \in Nat
    BY Lists DEF Shape
  <2>2. /\ IsFiniteSet(Registered(Q) \cup {j})
        /\ Cardinality(Registered(Q) \cup {j}) =
             IF j \in Registered(Q) THEN Cardinality(Registered(Q))
                                   ELSE Cardinality(Registered(Q)) + 1
    BY <2>1, FS_AddElement
  <2> HIDE DEF j
  <2> QED  BY <1>2, <2>1, <2>2
<1>12. /\ IsFiniteSet(Places(P))
       /\ Cardinality(Places(P)) = Cardinality(Places(Q)) + 1
  <2>1. IsFiniteSet(Places(Q))  BY DEF Shape
  <2>2. \A S, x : x \in Places(S) <=> \E i \in Registered(S) : x \in {i} \X DOMAIN S.sequences[i]
    BY DEF Places
  <2>3. \A i, n : <<i, n>> \in Places(Q) <=> i \in Registered(Q) /\ n \in DOMAIN Sequence(Q, i)
    BY DEF Places, Sequence
  <2>4. \A i, n : <<i, n>> \in Places(P) <=> i \in Registered(P) /\ n \in DOMAIN Sequence(P, i)
    BY DEF Places, Sequence
  <2>5. DOMAIN Sequence(P, j) = DOMAIN Sequence(Q, j) \cup {k}  BY <1>5
  <2>6. j \notin Registered(Q) => DOMAIN Sequence(Q, j) = {}  BY DEF Sequence
  <2>7. \A x \in Places(Q) \cup Places(P) : \E i, n : x = <<i, n>>  BY <2>2
  <2>8. \A i, n : <<i, n>> \in Places(P) <=> <<i, n>> \in Places(Q) \/ <<i, n>> = <<j, k>>
    <3> HIDE DEF j, k
    <3> QED  BY <1>2, <1>6, <2>3, <2>4, <2>5, <2>6
  <2>9. Places(P) = Places(Q) \cup {<<j, k>>}
    <3> HIDE DEF j, k
    <3> QED  BY <2>7, <2>8
  <2>10. <<j, k>> \notin Places(Q)  BY <1>5, <2>3
  <2> HIDE DEF j, k
  <2> QED  BY <2>1, <2>9, <2>10, FS_AddElement
<1>13. Shape(P, E, steady)
  BY <1>1, <1>2, <1>8, <1>9, <1>10, <1>11, <1>12 DEF Shape
<1> QED  BY <1>2, <1>5, <1>6, <1>11, <1>12, <1>13 DEF P

\* What a task that joins its sequence changes in the counts.
LEMMA AddSequenceEffect ==
    ASSUME NEW Q, NEW E, NEW steady \in BOOLEAN, Shape(Q, E, steady),
           NEW t, t.item \in Items, t \in MemberTasks(t.item, steady)
    PROVE  Effect(Q, AddSequence(Q, t), t,
                  IF t.item \in Registered(Q) THEN 0 ELSE 1, -1, 1)
<1> DEFINE P == AddSequence(Q, t)
           new == IF t.item \in Registered(Q) THEN 0 ELSE 1
<1>1. /\ P.pending = Q.pending /\ P.immediate = Q.immediate
      /\ P.finished = Q.finished /\ P.pending_num = Q.pending_num
  BY AddSequenceFields
<1>2. /\ Registered(P) = Registered(Q) \cup {t.item}
      /\ Cardinality(Registered(P)) = Cardinality(Registered(Q)) + new
      /\ Cardinality(Places(P)) = Cardinality(Places(Q)) + 1
      /\ Sequence(P, t.item) = Append(Sequence(Q, t.item), t)
      /\ \A i \in Items \ {t.item} : Sequence(P, i) = Sequence(Q, i)
  BY AddSequenceShape
<1>3. /\ \A S : Count(Q.pending, S) \in Nat /\ Count(Q.immediate, S) \in Nat
               /\ Count(Q.finished, S) \in Nat
      /\ \A i \in Items : \A S : Count(Sequence(Q, i), S) \in Nat
      /\ Cardinality(Registered(Q)) \in Nat /\ Cardinality(Places(Q)) \in Nat
  BY Lists
<1>4. /\ Len(Q.pending) \in Nat /\ Len(Q.immediate) \in Nat /\ Q.pending_num \in Int
  BY Lists
<1> HIDE DEF P
<1>5. \A i \in Items : Gap(P, i) = Gap(Q, i) + (IF i = t.item THEN new ELSE 0)
  BY <1>1, <1>2, <1>3 DEF Gap
<1>6. Gaps(P) = Gaps(Q) + new
  BY <1>1, <1>2, <1>3 DEF Gaps
<1>7. Surplus(P) = Surplus(Q) + (-1)
  <2> DEFINE n == Q.pending_num
             a == Len(Q.pending)
             b == Len(Q.immediate)
             c == Count(Q.immediate, Containers)
             d == Cardinality(Places(Q))
             e == Count(Q.finished, Containers)
  <2>1. /\ n \in Int /\ a \in Int /\ b \in Int /\ c \in Int /\ d \in Int /\ e \in Int
    BY <1>3, <1>4
  <2>2. Surplus(Q) = n - (a + b - c + d - e)  BY DEF Surplus
  <2>3. Surplus(P) = n - (a + b - c + (d + 1) - e)  BY <1>1, <1>2 DEF Surplus
  <2> HIDE DEF n, a, b, c, d, e
  <2> QED  BY <2>1, <2>2, <2>3
<1>8. ASSUME NEW i \in Roots, NEW v \in Values
      PROVE  Inside(P, i, v) = Inside(Q, i, v) + (IF t \in Own(i, v) THEN 1 ELSE 0)
  <2>1. i \in Items  BY DEF Roots
  <2>2. CASE i = t.item
    <3>1. Sequence(Q, t.item) \in Seq(Tasks) /\ t \in Tasks  BY Sequences DEF MemberTasks
    <3>2. Count(Sequence(P, i), Own(i, v))
            = Count(Sequence(Q, i), Own(i, v)) + (IF t \in Own(i, v) THEN 1 ELSE 0)
      <4>1. Sequence(P, i) = Append(Sequence(Q, i), t) /\ Sequence(Q, i) \in Seq(Tasks)
        BY <1>2, <2>2, <3>1
      <4> QED  BY <3>1, <4>1, CountAppend
    <3> QED  BY <1>1, <1>3, <2>1, <3>2 DEF Inside
  <2>3. CASE i # t.item
    <3>1. t \notin Own(i, v)  BY <2>3 DEF Own
    <3>2. Sequence(P, i) = Sequence(Q, i)  BY <1>2, <2>1, <2>3
    <3> QED  BY <1>1, <1>3, <2>1, <3>1, <3>2 DEF Inside
  <2> QED  BY <2>2, <2>3
<1> QED  BY <1>5, <1>6, <1>7, <1>8 DEF Effect, P

\* Task t is put into a list, or taken out of it, k times.
Added(list, other, t, k) ==
    \A S : Count(other, S) = Count(list, S) + (IF t \in S THEN k ELSE 0)

LEMMA AddedNone ==
    ASSUME NEW T, NEW list \in Seq(T), NEW t
    PROVE  Added(list, list, t, 0)
<1>1. \A S : Count(list, S) \in Nat  BY CountFinite
<1> QED  BY <1>1 DEF Added

LEMMA AddedLast ==
    ASSUME NEW T, NEW list \in Seq(T), NEW t \in T
    PROVE  Added(list, Append(list, t), t, 1)
BY CountAppend DEF Added

LEMMA AddedFirst ==
    ASSUME NEW T, NEW list \in Seq(T), list # <<>>
    PROVE  Added(list, Tail(list), Head(list), -1)
<1> SUFFICES ASSUME NEW S
             PROVE  Count(Tail(list), S) = Count(list, S) + (IF Head(list) \in S THEN -1 ELSE 0)
  BY DEF Added
<1>1. Count(list, S) \in Nat  BY CountFinite
<1>2. Count(Tail(list), S) = Count(list, S) - (IF Head(list) \in S THEN 1 ELSE 0)
  BY CountTail
<1> QED  BY <1>1, <1>2

\* Tasks of a list are put in or taken out, in all kp, ki and kf times.
LEMMA ListsEffect ==
    ASSUME NEW Q, NEW P, NEW E, NEW steady \in BOOLEAN, Shape(Q, E, steady), Shape(P, E, steady),
           NEW t, t \in PendingTasks \cup RunTasks(steady),
           NEW kp \in Int, NEW ki \in Int, NEW kf \in Int,
           Added(Q.pending, P.pending, t, kp), Added(Q.immediate, P.immediate, t, ki),
           Added(Q.finished, P.finished, t, kf),
           P.sequences = Q.sequences
    PROVE  Effect(Q, P, t, IF t.type = "sequence" THEN - (ki + kf) ELSE 0,
                  (P.pending_num - Q.pending_num)
                    - ((Len(P.pending) + Len(P.immediate)) - (Len(Q.pending) + Len(Q.immediate)))
                    + (IF t.type = "sequence" THEN ki + kf ELSE 0),
                  kp + ki + kf)
<1> DEFINE box == t.type = "sequence"
<1>1. Registered(P) = Registered(Q) /\ Places(P) = Places(Q)
      /\ \A i : Sequence(P, i) = Sequence(Q, i)
  BY DEF Registered, Places, Sequence
<1>2. /\ \A S : Count(Q.pending, S) \in Nat /\ Count(Q.immediate, S) \in Nat
               /\ Count(Q.finished, S) \in Nat
      /\ \A i \in Items : \A S : Count(Sequence(Q, i), S) \in Nat
      /\ Cardinality(Registered(Q)) \in Nat /\ Cardinality(Places(Q)) \in Nat
  BY Lists
<1>3. /\ Len(Q.pending) \in Nat /\ Len(Q.immediate) \in Nat /\ Q.pending_num \in Int
      /\ Len(P.pending) \in Nat /\ Len(P.immediate) \in Nat /\ P.pending_num \in Int
  BY Lists
<1>4. t \in Containers <=> box
  BY DEF Containers, PendingTasks, RunTasks
<1>5. \A i \in Items : t \in {SequenceTask(i)} <=> box /\ i = t.item
  BY DEF PendingTasks, RunTasks, SequenceTask, Task
<1>6. ASSUME NEW i \in Items
      PROVE  Gap(P, i) = Gap(Q, i) + (IF i = t.item THEN IF box THEN - (ki + kf) ELSE 0 ELSE 0)
  BY <1>1, <1>2, <1>5 DEF Gap, Added
<1>7. Gaps(P) = Gaps(Q) + (IF box THEN - (ki + kf) ELSE 0)
  BY <1>1, <1>2, <1>4 DEF Gaps, Added
<1>8. Surplus(P) = Surplus(Q)
        + ((P.pending_num - Q.pending_num)
             - ((Len(P.pending) + Len(P.immediate)) - (Len(Q.pending) + Len(Q.immediate)))
             + (IF box THEN ki + kf ELSE 0))
  <2> DEFINE n == Q.pending_num
             n2 == P.pending_num
             a == Len(Q.pending)
             b == Len(Q.immediate)
             a2 == Len(P.pending)
             b2 == Len(P.immediate)
             c == Count(Q.immediate, Containers)
             d == Cardinality(Places(Q))
             e == Count(Q.finished, Containers)
             di == IF box THEN ki ELSE 0
             df == IF box THEN kf ELSE 0
  <2>1. Count(P.immediate, Containers) = c + di  BY <1>4 DEF Added
  <2>2. Count(P.finished, Containers) = e + df  BY <1>4 DEF Added
  <2>3. c \in Int /\ e \in Int /\ d \in Int /\ Cardinality(Places(P)) = d
    BY <1>1, <1>2
  <2>4. n \in Int /\ n2 \in Int /\ a \in Int /\ b \in Int /\ a2 \in Int /\ b2 \in Int
    BY <1>3
  <2>5. di \in Int /\ df \in Int /\ (IF box THEN ki + kf ELSE 0) = di + df
    OBVIOUS
  <2>6. Surplus(Q) = n - (a + b - c + d - e)  BY DEF Surplus
  <2>7. Surplus(P) = n2 - (a2 + b2 - (c + di) + d - (e + df))
    BY <2>1, <2>2, <2>3 DEF Surplus
  <2>8. SUFFICES Surplus(P) = Surplus(Q) + ((n2 - n) - ((a2 + b2) - (a + b)) + (di + df))
    BY <2>5
  <2> HIDE DEF n, n2, a, b, a2, b2, c, d, e, di, df
  <2> QED  BY <2>3, <2>4, <2>5, <2>6, <2>7
<1>9. ASSUME NEW i \in Roots, NEW v \in Values
      PROVE  Inside(P, i, v) = Inside(Q, i, v) + (IF t \in Own(i, v) THEN kp + ki + kf ELSE 0)
  <2>1. i \in Items  BY DEF Roots
  <2> QED  BY <1>1, <1>2, <2>1 DEF Inside, Added
<1> QED  BY <1>6, <1>7, <1>8, <1>9 DEF Effect

\* The measures of a queue are numbers.
LEMMA Measures ==
    ASSUME NEW Q, NEW E, NEW steady \in BOOLEAN, Shape(Q, E, steady)
    PROVE  /\ \A i \in Items : Gap(Q, i) \in Int
           /\ Gaps(Q) \in Int /\ Surplus(Q) \in Int
           /\ \A i \in Roots, v \in Values : Inside(Q, i, v) \in Nat
<1>1. /\ \A S : Count(Q.pending, S) \in Nat /\ Count(Q.immediate, S) \in Nat
               /\ Count(Q.finished, S) \in Nat
      /\ \A i \in Items : \A S : Count(Sequence(Q, i), S) \in Nat
      /\ Cardinality(Registered(Q)) \in Nat /\ Cardinality(Places(Q)) \in Nat
      /\ Len(Q.pending) \in Nat /\ Len(Q.immediate) \in Nat /\ Q.pending_num \in Int
  BY Lists
<1>2. \A i \in Items : Gap(Q, i) \in Int
  <2> TAKE i \in Items
  <2>1. Count(Q.immediate, {SequenceTask(i)}) \in Nat /\ Count(Q.finished, {SequenceTask(i)}) \in Nat
    BY <1>1
  <2> QED  BY <2>1 DEF Gap
<1>3. Gaps(Q) \in Int  BY <1>1 DEF Gaps
<1>4. Surplus(Q) \in Int
  <2> DEFINE n == Q.pending_num
             a == Len(Q.pending)
             b == Len(Q.immediate)
             c == Count(Q.immediate, Containers)
             d == Cardinality(Places(Q))
             e == Count(Q.finished, Containers)
  <2>1. n \in Int /\ a \in Int /\ b \in Int /\ c \in Int /\ d \in Int /\ e \in Int
    BY <1>1
  <2>2. Surplus(Q) = n - (a + b - c + d - e)  BY DEF Surplus
  <2> HIDE DEF n, a, b, c, d, e
  <2> QED  BY <2>1, <2>2
<1>5. \A i \in Roots, v \in Values : Inside(Q, i, v) \in Nat
  <2> TAKE i \in Roots, v \in Values
  <2>1. i \in Items  BY DEF Roots
  <2>2. Count(Q.pending, Own(i, v)) \in Nat /\ Count(Q.immediate, Own(i, v)) \in Nat
        /\ Count(Q.finished, Own(i, v)) \in Nat /\ Count(Sequence(Q, i), Own(i, v)) \in Nat
    BY <1>1, <2>1
  <2> QED  BY <2>2 DEF Inside
<1> QED  BY <1>2, <1>3, <1>4, <1>5

\* Two operations, one after the other, for the same task.
LEMMA EffectSum ==
    ASSUME NEW Q, NEW E, NEW steady \in BOOLEAN, Shape(Q, E, steady), NEW P, NEW R, NEW t,
           NEW g \in Int, NEW s \in Int, NEW k \in Int, Effect(Q, P, t, g, s, k),
           NEW g2 \in Int, NEW s2 \in Int, NEW k2 \in Int, Effect(P, R, t, g2, s2, k2)
    PROVE  Effect(Q, R, t, g + g2, s + s2, k + k2)
<1>1. /\ \A i \in Items : Gap(Q, i) \in Int
      /\ Gaps(Q) \in Int /\ Surplus(Q) \in Int
      /\ \A i \in Roots, v \in Values : Inside(Q, i, v) \in Nat
  BY Measures
<1>2. ASSUME NEW i \in Items
      PROVE  Gap(R, i) = Gap(Q, i) + (IF i = t.item THEN g + g2 ELSE 0)
  <2>1. Gap(R, i) = Gap(P, i) + (IF i = t.item THEN g2 ELSE 0)  BY DEF Effect
  <2>2. Gap(P, i) = Gap(Q, i) + (IF i = t.item THEN g ELSE 0)  BY DEF Effect
  <2>3. Gap(Q, i) \in Int  BY <1>1
  <2> QED  BY <2>1, <2>2, <2>3
<1>3. Gaps(R) = Gaps(Q) + (g + g2) /\ Surplus(R) = Surplus(Q) + (s + s2)
  BY <1>1 DEF Effect
<1>4. ASSUME NEW i \in Roots, NEW v \in Values
      PROVE  Inside(R, i, v) = Inside(Q, i, v) + (IF t \in Own(i, v) THEN k + k2 ELSE 0)
  <2>1. Inside(R, i, v) = Inside(P, i, v) + (IF t \in Own(i, v) THEN k2 ELSE 0)  BY DEF Effect
  <2>2. Inside(P, i, v) = Inside(Q, i, v) + (IF t \in Own(i, v) THEN k ELSE 0)  BY DEF Effect
  <2>3. Inside(Q, i, v) \in Int  BY <1>1
  <2> QED  BY <2>1, <2>2, <2>3
<1> QED  BY <1>2, <1>3, <1>4 DEF Effect

\* An operation after one without effect.
LEMMA EffectThen ==
    ASSUME NEW Q, NEW E, NEW steady \in BOOLEAN, Shape(Q, E, steady), NEW P, NEW R, NEW t,
           Effect(Q, P, t, 0, 0, 0),
           NEW g \in Int, NEW s \in Int, NEW k \in Int, Effect(P, R, t, g, s, k)
    PROVE  Effect(Q, R, t, g, s, k)
<1>1. 0 \in Int /\ 0 + g = g /\ 0 + s = s /\ 0 + k = k  OBVIOUS
<1>2. Effect(Q, R, t, 0 + g, 0 + s, 0 + k)  BY <1>1, EffectSum, ZenonT(40)
<1> QED  BY <1>1, <1>2

\* Nothing happens.
LEMMA EffectNone ==
    ASSUME NEW Q, NEW E, NEW steady \in BOOLEAN, Shape(Q, E, steady), NEW t
    PROVE  Effect(Q, Q, t, 0, 0, 0)
<1>1. /\ \A i \in Items : Gap(Q, i) \in Int
      /\ Gaps(Q) \in Int /\ Surplus(Q) \in Int
      /\ \A i \in Roots, v \in Values : Inside(Q, i, v) \in Int
  BY Measures
<1> QED  BY <1>1 DEF Effect

\* A container, and any task that is no value, changes no count of values.
LEMMA EffectOther ==
    ASSUME NEW Q, NEW E, NEW steady \in BOOLEAN, Shape(Q, E, steady), NEW P, NEW t, NEW u,
           NEW g \in Int, NEW s \in Int, NEW k \in Int, Effect(Q, P, u, g, s, k),
           u.type \notin {"value", "value_seq"} \/ u.item \notin Roots \/ k = 0,
           u.item = t.item \/ g = 0
    PROVE  Effect(Q, P, t, g, s, 0)
<1>1. /\ \A i \in Items : Gap(Q, i) \in Int
      /\ \A i \in Roots, v \in Values : Inside(Q, i, v) \in Nat
  BY Measures
<1>2. ASSUME NEW i \in Items
      PROVE  Gap(P, i) = Gap(Q, i) + (IF i = t.item THEN g ELSE 0)
  <2>1. Gap(P, i) = Gap(Q, i) + (IF i = u.item THEN g ELSE 0)  BY DEF Effect
  <2> QED  BY <2>1
<1>3. ASSUME NEW i \in Roots, NEW v \in Values
      PROVE  Inside(P, i, v) = Inside(Q, i, v) + (IF t \in Own(i, v) THEN 0 ELSE 0)
  <2>1. Inside(P, i, v) = Inside(Q, i, v) + (IF u \in Own(i, v) THEN k ELSE 0)  BY DEF Effect
  <2>2. u \notin Own(i, v) \/ k = 0  BY DEF Own
  <2> QED  BY <2>1, <2>2
<1> QED  BY <1>2, <1>3 DEF Effect

\* The counters and lists of a queue are changed, and its sequences are not.
LEMMA ShapeLists ==
    ASSUME NEW Q, NEW E, NEW steady \in BOOLEAN, Shape(Q, E, steady),
           NEW P, P \in Fields(P), P.sequences = Q.sequences,
           P.pending \in Seq(PendingTasks),
           P.immediate \in Seq(RunTasks(steady)), P.finished \in Seq(RunTasks(steady)),
           P.pending_num \in Int, P.processing_num \in Int, P.finished_num \in Int,
           P.woken \in Nat
    PROVE  Shape(P, E, steady)
<1>1. Registered(P) = Registered(Q) /\ Places(P) = Places(Q)
  BY DEF Registered, Places
<1>2. /\ Registered(P) \subseteq Items /\ P.sequences \in [Registered(P) -> Seq(Tasks)]
      /\ \A i \in Registered(P) : P.sequences[i] \in Seq(MemberTasks(i, steady))
      /\ \A i \in Registered(P) \ E : P.sequences[i] # <<>>
      /\ IsFiniteSet(Registered(P)) /\ IsFiniteSet(Places(P))
  BY <1>1 DEF Shape
<1> QED  BY <1>2 DEF Shape

Box(t) == IF t.type = "sequence" THEN 1 ELSE 0

LEMMA RunTaskTypes ==
    ASSUME NEW steady \in BOOLEAN
    PROVE  /\ RunTasks(steady) \subseteq Tasks /\ PendingTasks \subseteq Tasks
           /\ \A t \in PendingTasks : Box(t) = 0
           /\ \A t : Box(t) \in {0, 1}
BY DEF RunTasks, PendingTasks, Box

\* The lists and counters of P are those of Q, but for those that are named.
Relisted(Q, P, n) ==
    /\ P \in Fields(P) /\ P.sequences = Q.sequences /\ P.pending_num = Q.pending_num + n
    /\ P.processing_num \in Int /\ P.finished_num \in Int /\ P.woken \in Nat

\* One list loses a task or gets one.
Change(Q, P, steady, n, t, kp, ki, kf, box) ==
    /\ Relisted(Q, P, n)
    /\ P.pending \in Seq(PendingTasks)
    /\ P.immediate \in Seq(RunTasks(steady)) /\ P.finished \in Seq(RunTasks(steady))
    /\ n \in Int /\ kp \in Int /\ ki \in Int /\ kf \in Int /\ box \in Int
    /\ t \in PendingTasks \cup RunTasks(steady)
    /\ Added(Q.pending, P.pending, t, kp) /\ Added(Q.immediate, P.immediate, t, ki)
    /\ Added(Q.finished, P.finished, t, kf)
    /\ Len(P.pending) = Len(Q.pending) + kp /\ Len(P.immediate) = Len(Q.immediate) + ki
    /\ box = IF t.type = "sequence" THEN ki + kf ELSE 0

\* The surplus follows the counter.
LEMMA ListOp ==
    ASSUME NEW Q, NEW E, NEW steady \in BOOLEAN, Shape(Q, E, steady),
           NEW P, NEW n, NEW t, NEW kp, NEW ki, NEW kf, NEW box,
           Change(Q, P, steady, n, t, kp, ki, kf, box)
    PROVE  Shape(P, E, steady) /\ Effect(Q, P, t, 0 - box, n - kp - ki + box, kp + ki + kf)
<1> USE DEF Change, Relisted
<1>1. P.pending_num \in Int /\ Q.pending_num \in Int  BY DEF Shape
<1>2. Shape(P, E, steady)  BY <1>1, ShapeLists
<1>3. Len(Q.pending) \in Nat /\ Len(Q.immediate) \in Nat  BY Lists
<1>4. Effect(Q, P, t, IF t.type = "sequence" THEN - (ki + kf) ELSE 0,
             (P.pending_num - Q.pending_num)
               - ((Len(P.pending) + Len(P.immediate)) - (Len(Q.pending) + Len(Q.immediate)))
               + (IF t.type = "sequence" THEN ki + kf ELSE 0), kp + ki + kf)
  BY <1>2, ListsEffect
<1>5. (IF t.type = "sequence" THEN - (ki + kf) ELSE 0) = 0 - box  OBVIOUS
<1>6. (P.pending_num - Q.pending_num)
        - ((Len(P.pending) + Len(P.immediate)) - (Len(Q.pending) + Len(Q.immediate)))
        + (IF t.type = "sequence" THEN ki + kf ELSE 0) = n - kp - ki + box
  <2> DEFINE m == Q.pending_num
             a == Len(Q.pending)
             b == Len(Q.immediate)
  <2>1. m \in Int /\ a \in Int /\ b \in Int  BY <1>1, <1>3
  <2>2. (P.pending_num - m) - ((Len(P.pending) + Len(P.immediate)) - (a + b)) + box
          = ((m + n) - m) - (((a + kp) + (b + ki)) - (a + b)) + box
    OBVIOUS
  <2> HIDE DEF m, a, b
  <2>3. ((m + n) - m) - (((a + kp) + (b + ki)) - (a + b)) + box = n - kp - ki + box
    BY <2>1
  <2> QED  BY <2>2, <2>3 DEF m, a, b
<1> QED  BY <1>2, <1>4, <1>5, <1>6

\* A task is appended to the list of immediate tasks.
LEMMA ImmediateGrows ==
    ASSUME NEW Q, NEW E, NEW steady \in BOOLEAN, Shape(Q, E, steady),
           NEW P, NEW n \in Int, Relisted(Q, P, n), P.pending = Q.pending, P.finished = Q.finished,
           NEW t \in RunTasks(steady), P.immediate = Append(Q.immediate, t)
    PROVE  Shape(P, E, steady) /\ Effect(Q, P, t, - Box(t), n - 1 + Box(t), 1)
<1>1. /\ Q.pending \in Seq(PendingTasks) /\ Q.immediate \in Seq(RunTasks(steady))
      /\ Q.finished \in Seq(RunTasks(steady))
  BY DEF Shape
<1>2. P.immediate \in Seq(RunTasks(steady)) /\ Len(P.immediate) = Len(Q.immediate) + 1
      /\ Added(Q.immediate, P.immediate, t, 1)
  BY <1>1, AddedLast
<1>3. Added(Q.pending, P.pending, t, 0) /\ Added(Q.finished, P.finished, t, 0)
  BY <1>1, AddedNone
<1>4. Len(P.pending) = Len(Q.pending) + 0
  BY <1>1
<1>5. Box(t) \in Int /\ Box(t) = IF t.type = "sequence" THEN 1 + 0 ELSE 0
  BY DEF Box
<1>6. Change(Q, P, steady, n, t, 0, 1, 0, Box(t))
  BY <1>1, <1>2, <1>3, <1>4, <1>5 DEF Change, Relisted
<1>8. Shape(P, E, steady) /\ Effect(Q, P, t, 0 - Box(t), n - 0 - 1 + Box(t), 0 + 1 + 0)
  BY <1>6, ListOp, ZenonT(40)
<1>9. 0 - Box(t) = - Box(t)
  BY DEF Box
<1>10. n - 0 - 1 + Box(t) = n - 1 + Box(t)
  BY DEF Box
<1>11. 0 + 1 + 0 = 1
  BY DEF Box
<1> QED  BY <1>2, <1>8, <1>9, <1>10, <1>11

\* The first immediate task is taken off the list.
LEMMA ImmediateShrinks ==
    ASSUME NEW Q, NEW E, NEW steady \in BOOLEAN, Shape(Q, E, steady),
           NEW P, NEW n \in Int, Relisted(Q, P, n), P.pending = Q.pending, P.finished = Q.finished,
           NEW t, Q.immediate # <<>>, t = Head(Q.immediate), P.immediate = Tail(Q.immediate)
    PROVE  t \in RunTasks(steady) /\ Shape(P, E, steady) /\ Effect(Q, P, t, Box(t), n + 1 - Box(t), -1)
<1>1. /\ Q.pending \in Seq(PendingTasks) /\ Q.immediate \in Seq(RunTasks(steady))
      /\ Q.finished \in Seq(RunTasks(steady))
  BY DEF Shape
<1>2. P.immediate \in Seq(RunTasks(steady)) /\ Len(P.immediate) = Len(Q.immediate) + (-1)
      /\ t \in RunTasks(steady) /\ Added(Q.immediate, P.immediate, t, -1)
  BY <1>1, AddedFirst
<1>3. Added(Q.pending, P.pending, t, 0) /\ Added(Q.finished, P.finished, t, 0)
  BY <1>1, AddedNone
<1>4. Len(P.pending) = Len(Q.pending) + 0
  BY <1>1
<1>5. (- Box(t)) \in Int /\ (- Box(t)) = IF t.type = "sequence" THEN -1 + 0 ELSE 0
  BY DEF Box
<1>6. Change(Q, P, steady, n, t, 0, -1, 0, - Box(t))
  BY <1>1, <1>2, <1>3, <1>4, <1>5 DEF Change, Relisted
<1>8. Shape(P, E, steady) /\ Effect(Q, P, t, 0 - (- Box(t)), n - 0 - (-1) + (- Box(t)), 0 + -1 + 0)
  BY <1>6, ListOp, ZenonT(40)
<1>9. 0 - (- Box(t)) = Box(t)
  BY DEF Box
<1>10. n - 0 - (-1) + (- Box(t)) = n + 1 - Box(t)
  BY DEF Box
<1>11. 0 + -1 + 0 = -1
  BY DEF Box
<1> QED  BY <1>2, <1>8, <1>9, <1>10, <1>11

\* A task is appended to the list of pending tasks.
LEMMA PendingGrows ==
    ASSUME NEW Q, NEW E, NEW steady \in BOOLEAN, Shape(Q, E, steady),
           NEW P, NEW n \in Int, Relisted(Q, P, n), P.immediate = Q.immediate, P.finished = Q.finished,
           NEW t \in PendingTasks, P.pending = Append(Q.pending, t)
    PROVE  Shape(P, E, steady) /\ Effect(Q, P, t, 0, n - 1, 1)
<1>1. /\ Q.pending \in Seq(PendingTasks) /\ Q.immediate \in Seq(RunTasks(steady))
      /\ Q.finished \in Seq(RunTasks(steady))
  BY DEF Shape
<1>2. P.pending \in Seq(PendingTasks) /\ Len(P.pending) = Len(Q.pending) + 1
      /\ Added(Q.pending, P.pending, t, 1)
  BY <1>1, AddedLast
<1>3. Added(Q.immediate, P.immediate, t, 0) /\ Added(Q.finished, P.finished, t, 0)
  BY <1>1, AddedNone
<1>4. Len(P.immediate) = Len(Q.immediate) + 0
  BY <1>1
<1>5. 0 = IF t.type = "sequence" THEN 0 + 0 ELSE 0
  BY <1>2 DEF PendingTasks
<1>6. Change(Q, P, steady, n, t, 1, 0, 0, 0)
  BY <1>1, <1>2, <1>3, <1>4, <1>5 DEF Change, Relisted
<1>8. Shape(P, E, steady) /\ Effect(Q, P, t, 0 - 0, n - 1 - 0 + 0, 1 + 0 + 0)
  BY <1>6, ListOp, ZenonT(40)
<1>9. 0 - 0 = 0
  BY DEF Box
<1>10. n - 1 - 0 + 0 = n - 1
  BY DEF Box
<1>11. 1 + 0 + 0 = 1
  BY DEF Box
<1> QED  BY <1>2, <1>8, <1>9, <1>10, <1>11

\* The first pending task is taken off the list.
LEMMA PendingShrinks ==
    ASSUME NEW Q, NEW E, NEW steady \in BOOLEAN, Shape(Q, E, steady),
           NEW P, NEW n \in Int, Relisted(Q, P, n), P.immediate = Q.immediate, P.finished = Q.finished,
           NEW t, Q.pending # <<>>, t = Head(Q.pending), P.pending = Tail(Q.pending)
    PROVE  t \in PendingTasks /\ Shape(P, E, steady) /\ Effect(Q, P, t, 0, n + 1, -1)
<1>1. /\ Q.pending \in Seq(PendingTasks) /\ Q.immediate \in Seq(RunTasks(steady))
      /\ Q.finished \in Seq(RunTasks(steady))
  BY DEF Shape
<1>2. P.pending \in Seq(PendingTasks) /\ Len(P.pending) = Len(Q.pending) + (-1)
      /\ t \in PendingTasks /\ Added(Q.pending, P.pending, t, -1)
  BY <1>1, AddedFirst
<1>3. Added(Q.immediate, P.immediate, t, 0) /\ Added(Q.finished, P.finished, t, 0)
  BY <1>1, AddedNone
<1>4. Len(P.immediate) = Len(Q.immediate) + 0
  BY <1>1
<1>5. 0 = IF t.type = "sequence" THEN 0 + 0 ELSE 0
  BY <1>2 DEF PendingTasks
<1>6. Change(Q, P, steady, n, t, -1, 0, 0, 0)
  BY <1>1, <1>2, <1>3, <1>4, <1>5 DEF Change, Relisted
<1>8. Shape(P, E, steady) /\ Effect(Q, P, t, 0 - 0, n - (-1) - 0 + 0, -1 + 0 + 0)
  BY <1>6, ListOp, ZenonT(40)
<1>9. 0 - 0 = 0
  BY DEF Box
<1>10. n - (-1) - 0 + 0 = n + 1
  BY DEF Box
<1>11. -1 + 0 + 0 = -1
  BY DEF Box
<1> QED  BY <1>2, <1>8, <1>9, <1>10, <1>11

\* A task is appended to the list of finished tasks.
LEMMA FinishedGrows ==
    ASSUME NEW Q, NEW E, NEW steady \in BOOLEAN, Shape(Q, E, steady),
           NEW P, NEW n \in Int, Relisted(Q, P, n), P.pending = Q.pending, P.immediate = Q.immediate,
           NEW t \in RunTasks(steady), P.finished = Append(Q.finished, t)
    PROVE  Shape(P, E, steady) /\ Effect(Q, P, t, - Box(t), n + Box(t), 1)
<1>1. /\ Q.pending \in Seq(PendingTasks) /\ Q.immediate \in Seq(RunTasks(steady))
      /\ Q.finished \in Seq(RunTasks(steady))
  BY DEF Shape
<1>2. P.finished \in Seq(RunTasks(steady)) /\ Len(P.finished) = Len(Q.finished) + 1
      /\ Added(Q.finished, P.finished, t, 1)
  BY <1>1, AddedLast
<1>3. Added(Q.pending, P.pending, t, 0) /\ Added(Q.immediate, P.immediate, t, 0)
  BY <1>1, AddedNone
<1>4. Len(P.pending) = Len(Q.pending) + 0 /\ Len(P.immediate) = Len(Q.immediate) + 0
  BY <1>1
<1>5. Box(t) \in Int /\ Box(t) = IF t.type = "sequence" THEN 0 + 1 ELSE 0
  BY DEF Box
<1>6. Change(Q, P, steady, n, t, 0, 0, 1, Box(t))
  BY <1>1, <1>2, <1>3, <1>4, <1>5 DEF Change, Relisted
<1>8. Shape(P, E, steady) /\ Effect(Q, P, t, 0 - Box(t), n - 0 - 0 + Box(t), 0 + 0 + 1)
  BY <1>6, ListOp, ZenonT(40)
<1>9. 0 - Box(t) = - Box(t)
  BY DEF Box
<1>10. n - 0 - 0 + Box(t) = n + Box(t)
  BY DEF Box
<1>11. 0 + 0 + 1 = 1
  BY DEF Box
<1> QED  BY <1>2, <1>8, <1>9, <1>10, <1>11

\* The first finished task is taken off the list.
LEMMA FinishedShrinks ==
    ASSUME NEW Q, NEW E, NEW steady \in BOOLEAN, Shape(Q, E, steady),
           NEW P, NEW n \in Int, Relisted(Q, P, n), P.pending = Q.pending, P.immediate = Q.immediate,
           NEW t, Q.finished # <<>>, t = Head(Q.finished), P.finished = Tail(Q.finished)
    PROVE  t \in RunTasks(steady) /\ Shape(P, E, steady) /\ Effect(Q, P, t, Box(t), n - Box(t), -1)
<1>1. /\ Q.pending \in Seq(PendingTasks) /\ Q.immediate \in Seq(RunTasks(steady))
      /\ Q.finished \in Seq(RunTasks(steady))
  BY DEF Shape
<1>2. P.finished \in Seq(RunTasks(steady)) /\ Len(P.finished) = Len(Q.finished) + (-1)
      /\ t \in RunTasks(steady) /\ Added(Q.finished, P.finished, t, -1)
  BY <1>1, AddedFirst
<1>3. Added(Q.pending, P.pending, t, 0) /\ Added(Q.immediate, P.immediate, t, 0)
  BY <1>1, AddedNone
<1>4. Len(P.pending) = Len(Q.pending) + 0 /\ Len(P.immediate) = Len(Q.immediate) + 0
  BY <1>1
<1>5. (- Box(t)) \in Int /\ (- Box(t)) = IF t.type = "sequence" THEN 0 + -1 ELSE 0
  BY DEF Box
<1>6. Change(Q, P, steady, n, t, 0, 0, -1, - Box(t))
  BY <1>1, <1>2, <1>3, <1>4, <1>5 DEF Change, Relisted
<1>8. Shape(P, E, steady) /\ Effect(Q, P, t, 0 - (- Box(t)), n - 0 - 0 + (- Box(t)), 0 + 0 + -1)
  BY <1>6, ListOp, ZenonT(40)
<1>9. 0 - (- Box(t)) = Box(t)
  BY DEF Box
<1>10. n - 0 - 0 + (- Box(t)) = n - Box(t)
  BY DEF Box
<1>11. 0 + 0 + -1 = -1
  BY DEF Box
<1> QED  BY <1>2, <1>8, <1>9, <1>10, <1>11

\* Only counters change.
LEMMA CountersChange ==
    ASSUME NEW Q, NEW E, NEW steady \in BOOLEAN, Shape(Q, E, steady),
           NEW P, NEW n \in Int, Relisted(Q, P, n), P.pending = Q.pending, P.immediate = Q.immediate, P.finished = Q.finished,
           NEW t \in PendingTasks \cup RunTasks(steady)
    PROVE  Shape(P, E, steady) /\ Effect(Q, P, t, 0, n, 0)
<1>1. /\ Q.pending \in Seq(PendingTasks) /\ Q.immediate \in Seq(RunTasks(steady))
      /\ Q.finished \in Seq(RunTasks(steady))
  BY DEF Shape
<1>2. t \in PendingTasks \cup RunTasks(steady)  OBVIOUS
<1>3. Added(Q.pending, P.pending, t, 0) /\ Added(Q.immediate, P.immediate, t, 0) /\ Added(Q.finished, P.finished, t, 0)
  BY <1>1, AddedNone
<1>4. Len(P.pending) = Len(Q.pending) + 0 /\ Len(P.immediate) = Len(Q.immediate) + 0
  BY <1>1
<1>5. 0 = IF t.type = "sequence" THEN 0 + 0 ELSE 0
  OBVIOUS
<1>6. Change(Q, P, steady, n, t, 0, 0, 0, 0)
  BY <1>1, <1>2, <1>3, <1>4, <1>5 DEF Change, Relisted
<1>8. Shape(P, E, steady) /\ Effect(Q, P, t, 0 - 0, n - 0 - 0 + 0, 0 + 0 + 0)
  BY <1>6, ListOp, ZenonT(40)
<1>9. 0 - 0 = 0
  BY DEF Box
<1>10. n - 0 - 0 + 0 = n
  BY DEF Box
<1>11. 0 + 0 + 0 = 0
  BY DEF Box
<1> QED  BY <1>2, <1>8, <1>9, <1>10, <1>11

----------------------------------------------------------------------------
(* Tasks. *)

\* A set of places in a list has a first one.
LEMMA FirstOf ==
    ASSUME NEW S, S # {}, NEW list, NEW T, list \in Seq(T), S \subseteq DOMAIN list
    PROVE  Min(S) \in S /\ \A n \in S : Min(S) <= n
<1>1. S \subseteq Nat
  <2>1. DOMAIN list = 1 .. Len(list) /\ Len(list) \in Nat  OBVIOUS
  <2> QED  BY <2>1
<1>2. PICK x \in S : \A y \in S : ~(<<y, x>> \in OpToRel(<, Nat))
  BY <1>1, NatLessThanWellFounded, WFMin
<1>3. \A y \in S : ~(y < x)  BY <1>1, <1>2 DEF OpToRel
<1>4. \A y \in S : x <= y  BY <1>1, <1>3
<1>5. Min(S) = CHOOSE m \in S : \A y \in S : m <= y  BY DEF Min
<1> QED  BY <1>4, <1>5

\* An item that depends on none shares no cache.
LEMMA RootsUnshared ==
    ASSUME NEW i \in Roots
    PROVE  i \notin Sharing
<1> SUFFICES ASSUME i \in Sharing PROVE FALSE
  OBVIOUS
<1>1. PICK j \in Items : CacheIndexes(j) # {} /\ i = FirstCached(j)  BY DEF Sharing
<1>2. Deps[j] \in Seq(Items)  BY PreprocAssumption
<1>3. CacheIndexes(j) \subseteq DOMAIN Deps[j]  BY DEF CacheIndexes
<1>4. Min(CacheIndexes(j)) \in CacheIndexes(j)  BY <1>1, <1>2, <1>3, FirstOf
<1>5. i \in Range(Deps[j])  BY <1>1, <1>3, <1>4 DEF FirstCached, Range
<1> QED  BY <1>5 DEF Roots, Dependent

\* The tasks that the manager makes fit the lists they go to.
LEMMA NewTasks ==
    ASSUME NEW steady \in BOOLEAN
    PROVE  /\ \A i \in Items : /\ SequenceTask(i) \in RunTasks(steady)
                               /\ SequenceTask(i).item = i /\ SequenceTask(i).type = "sequence"
           /\ \A i \in Roots, v \in Values :
                 /\ ValueTask(i, v) \in PendingTasks
                 /\ i \in Serial => ValueTask(i, v) \in MemberTasks(i, steady)
                 /\ i \notin Serial => ValueTask(i, v) \in RunTasks(steady)
           /\ \A n \in 1 .. MaxValues + MaxTests : TestTask(n) \in RunTasks(steady)
           /\ NoTask \in Tasks
<1>1. MaxValues \in Nat /\ MaxTests \in Nat /\ Items # {}  BY PreprocAssumption
<1>2. \A v \in Values : v \in 0 .. MaxValues + MaxTests  BY <1>1 DEF Values
<1>3. (CHOOSE i \in Items : TRUE) \in Items  BY <1>1
<1>4. \A i \in Roots : i \in Items /\ i \notin Sharing
  BY RootsUnshared DEF Roots
<1>5. \A i \in Items : /\ SequenceTask(i) \in RunTasks(steady)
                       /\ SequenceTask(i).item = i /\ SequenceTask(i).type = "sequence"
  BY <1>1 DEF SequenceTask, Task, RunTasks, Tasks
<1>6. \A i \in Roots, v \in Values :
         /\ ValueTask(i, v) \in PendingTasks
         /\ i \in Serial => ValueTask(i, v) \in MemberTasks(i, steady)
         /\ i \notin Serial => ValueTask(i, v) \in RunTasks(steady)
  BY <1>2, <1>4 DEF ValueTask, Task, PendingTasks, MemberTasks, RunTasks, Tasks
<1>7. \A n \in 1 .. MaxValues + MaxTests : TestTask(n) \in RunTasks(steady)
  BY <1>1, <1>3 DEF TestTask, Task, RunTasks, Tasks
<1>8. NoTask \in Tasks  BY <1>1, <1>3 DEF NoTask, Task, Tasks
<1> QED  BY <1>5, <1>6, <1>7, <1>8

----------------------------------------------------------------------------
(* Putting tasks into the queue. *)

\* the finished tasks and the signals stay as they are
Kept(Q, P) ==
    /\ P.finished = Q.finished /\ P.finished_num = Q.finished_num
    /\ P.processing_num = Q.processing_num /\ P.woken = Q.woken

\* Only counters change: whatever task one thinks of.
LEMMA CountersEffect ==
    ASSUME NEW Q, NEW E, NEW steady \in BOOLEAN, Shape(Q, E, steady),
           NEW P, NEW n \in Int, Relisted(Q, P, n),
           P.pending = Q.pending, P.immediate = Q.immediate, P.finished = Q.finished, NEW t
    PROVE  Shape(P, E, steady) /\ Effect(Q, P, t, 0, n, 0)
<1>1. PICK i \in Items : TRUE  BY PreprocAssumption
<1>2. SequenceTask(i) \in RunTasks(steady)  BY NewTasks
<1>3. Shape(P, E, steady) /\ Effect(Q, P, SequenceTask(i), 0, n, 0)
  BY <1>2, CountersChange
<1>4. 0 \in Int  OBVIOUS
<1>5. Effect(Q, P, t, 0, n, 0)  BY <1>3, <1>4, EffectOther
<1> QED  BY <1>3, <1>5

\* One more task is counted as pending.
LEMMA PendingEffect ==
    ASSUME NEW Q, NEW E, NEW steady \in BOOLEAN, Shape(Q, E, steady), NEW t
    PROVE  /\ Shape(Pending(Q), E, steady) /\ Effect(Q, Pending(Q), t, 0, 1, 0)
           /\ Kept(Q, Pending(Q)) /\ Pending(Q).sequences = Q.sequences
           /\ Pending(Q).pending = Q.pending /\ Pending(Q).immediate = Q.immediate
           /\ Pending(Q) \in Fields(Pending(Q)) /\ Pending(Q).pending_num = Q.pending_num + 1
<1> DEFINE P == Pending(Q)
<1>1. /\ P \in Fields(P) /\ P.sequences = Q.sequences /\ P.pending_num = Q.pending_num + 1
      /\ P.pending = Q.pending /\ P.immediate = Q.immediate /\ P.finished = Q.finished
      /\ P.finished_num = Q.finished_num /\ P.processing_num = Q.processing_num
      /\ P.woken = Q.woken
  BY DEF Pending, Fields, Shape
<1>2. P.processing_num \in Int /\ P.finished_num \in Int /\ P.woken \in Nat
  BY <1>1 DEF Shape
<1> HIDE DEF P
<1>3. Relisted(Q, P, 1)  BY <1>1, <1>2 DEF Relisted
<1>4. Shape(P, E, steady) /\ Effect(Q, P, t, 0, 1, 0)
  BY <1>1, <1>3, CountersEffect
<1> QED  BY <1>1, <1>4 DEF P, Kept

\* A task joins the immediate tasks, and is counted or not.
LEMMA AppendEffect ==
    ASSUME NEW Q, NEW E, NEW steady \in BOOLEAN, Shape(Q, E, steady),
           NEW t \in RunTasks(steady)
    PROVE  LET P == [Q EXCEPT !.immediate = Append(@, t)]
           IN  /\ Shape(P, E, steady) /\ Effect(Q, P, t, - Box(t), Box(t) - 1, 1)
               /\ Kept(Q, P) /\ P.sequences = Q.sequences /\ P.pending = Q.pending
               /\ P.pending_num = Q.pending_num
<1> DEFINE P == [Q EXCEPT !.immediate = Append(@, t)]
<1>1. /\ P \in Fields(P) /\ P.sequences = Q.sequences /\ P.pending_num = Q.pending_num
      /\ P.pending = Q.pending /\ P.immediate = Append(Q.immediate, t)
      /\ P.finished = Q.finished
      /\ P.finished_num = Q.finished_num /\ P.processing_num = Q.processing_num
      /\ P.woken = Q.woken
  BY DEF Fields, Shape
<1>2. P.processing_num \in Int /\ P.finished_num \in Int /\ P.woken \in Nat
      /\ P.pending_num = Q.pending_num + 0
  BY <1>1 DEF Shape
<1> HIDE DEF P
<1>3. Relisted(Q, P, 0)  BY <1>1, <1>2 DEF Relisted
<1>4. Shape(P, E, steady) /\ Effect(Q, P, t, - Box(t), 0 - 1 + Box(t), 1)
  BY <1>1, <1>3, ImmediateGrows
<1>5. 0 - 1 + Box(t) = Box(t) - 1  BY DEF Box
<1> QED  BY <1>1, <1>4, <1>5 DEF P, Kept

\* A counted task joins the immediate tasks.
LEMMA AppendCounted ==
    ASSUME NEW Q, NEW E, NEW steady \in BOOLEAN, Shape(Q, E, steady),
           NEW t \in RunTasks(steady), t.type # "sequence"
    PROVE  LET P == [Pending(Q) EXCEPT !.immediate = Append(@, t)]
           IN  Shape(P, E, steady) /\ Effect(Q, P, t, 0, 0, 1) /\ Kept(Q, P)
<1> DEFINE P == Pending(Q)
           R == [P EXCEPT !.immediate = Append(@, t)]
<1>1. Shape(P, E, steady) /\ Effect(Q, P, t, 0, 1, 0) /\ Kept(Q, P)
  BY PendingEffect
<1> HIDE DEF P
<1>2. Shape(R, E, steady) /\ Effect(P, R, t, - Box(t), Box(t) - 1, 1) /\ Kept(P, R)
  BY <1>1, AppendEffect
<1>3. - Box(t) = 0 /\ Box(t) - 1 = -1
  <2>1. Box(t) \in Int /\ Box(t) <= 0 /\ 0 <= Box(t)  BY DEF Box
  <2> QED  BY <2>1
<1>4. Kept(Q, R)  BY <1>1, <1>2 DEF Kept
<1> HIDE DEF R
<1>5. Effect(P, R, t, 0, -1, 1)  BY <1>2, <1>3
<1>6. Effect(Q, R, t, 0 + 0, 1 + (-1), 0 + 1)
  BY <1>1, <1>5, EffectSum
<1> QED  BY <1>2, <1>4, <1>6 DEF R, P

\* A task joins its sequence; a new container joins the immediate tasks.
LEMMA AddAndQueueEffect ==
    ASSUME NEW Q, NEW E, NEW steady \in BOOLEAN, Shape(Q, E, steady),
           NEW t, t.item \in Items, t \in MemberTasks(t.item, steady)
    PROVE  LET P == AddAndQueue(Q, t)
           IN  Shape(P, E, steady) /\ Effect(Q, P, t, 0, -1, 1) /\ Kept(Q, P)
<1> DEFINE P == AddSequence(Q, t)
           c == SequenceTask(t.item)
           R == [P EXCEPT !.immediate = Append(@, c)]
           new == IF t.item \in Registered(Q) THEN 0 ELSE 1
<1>1. Shape(P, E, steady)  BY AddSequenceShape
<1>2. Effect(Q, P, t, new, -1, 1)  BY AddSequenceEffect
<1>3. Kept(Q, P)  BY AddSequenceFields DEF Kept
<1> HIDE DEF P
<1>4. CASE t.item \in Registered(Q)
  BY <1>1, <1>2, <1>3, <1>4 DEF AddAndQueue, P
<1>5. CASE t.item \notin Registered(Q)
  <2>1. c \in RunTasks(steady) /\ c.item = t.item /\ c.type = "sequence"  BY NewTasks
  <2> HIDE DEF c
  <2>2. Shape(R, E, steady) /\ Effect(P, R, c, - Box(c), Box(c) - 1, 1) /\ Kept(P, R)
    BY <1>1, <2>1, AppendEffect
  <2>3. - Box(c) = -1 /\ Box(c) - 1 = 0  BY <2>1 DEF Box
  <2>4. AddAndQueue(Q, t) = R  BY <1>5 DEF AddAndQueue, P, c
  <2>5. Kept(Q, R)  BY <1>3, <2>2 DEF Kept
  <2> HIDE DEF R
  <2>6. Effect(P, R, c, -1, 0, 1)  BY <2>2, <2>3
  <2>7. Effect(P, R, t, -1, 0, 0)
    <3>1. -1 \in Int /\ 0 \in Int /\ 1 \in Int  OBVIOUS
    <3> QED  BY <1>1, <2>1, <2>6, <3>1, EffectOther
  <2>8. Effect(Q, P, t, 1, -1, 1)  BY <1>2, <1>5
  <2>9. Effect(Q, R, t, 1 + (-1), -1 + 0, 1 + 0)
    <3>1. -1 \in Int /\ 0 \in Int /\ 1 \in Int  OBVIOUS
    <3> QED  BY <2>7, <2>8, <3>1, EffectSum, ZenonT(40)
  <2> QED  BY <2>2, <2>4, <2>5, <2>9
<1> QED  BY <1>4, <1>5

\* A task joins its sequence and is counted.
LEMMA AddCounted ==
    ASSUME NEW Q, NEW E, NEW steady \in BOOLEAN, Shape(Q, E, steady),
           NEW t, t.item \in Items, t \in MemberTasks(t.item, steady)
    PROVE  LET P == AddAndQueue(Pending(Q), t)
           IN  Shape(P, E, steady) /\ Effect(Q, P, t, 0, 0, 1) /\ Kept(Q, P)
<1> DEFINE P == Pending(Q)
           R == AddAndQueue(P, t)
<1>1. Shape(P, E, steady) /\ Effect(Q, P, t, 0, 1, 0) /\ Kept(Q, P)
  BY PendingEffect
<1> HIDE DEF P
<1>2. Shape(R, E, steady) /\ Effect(P, R, t, 0, -1, 1) /\ Kept(P, R)
  BY <1>1, AddAndQueueEffect
<1>3. Kept(Q, R)  BY <1>1, <1>2 DEF Kept
<1> HIDE DEF R
<1>4. Effect(Q, R, t, 0 + 0, 1 + (-1), 0 + 1)
  <2>1. -1 \in Int /\ 0 \in Int /\ 1 \in Int  OBVIOUS
  <2> QED  BY <1>1, <1>2, <2>1, EffectSum, ZenonT(40)
<1> QED  BY <1>2, <1>3, <1>4 DEF R, P

\* A value of an item that no other item depends on.
LEMMA PushEffect ==
    ASSUME NEW Q, NEW E, NEW steady \in BOOLEAN, Shape(Q, E, steady),
           NEW i \in Roots, NEW v \in Values
    PROVE  LET P == Push(Q, ValueTask(i, v))
           IN  Shape(P, E, steady) /\ Effect(Q, P, ValueTask(i, v), 0, 0, 1) /\ Kept(Q, P)
<1> DEFINE t == ValueTask(i, v)
           P == Pending(Q)
           R == [P EXCEPT !.pending = Append(@, t)]
<1>1. /\ t \in PendingTasks /\ t.item = i
      /\ t.type = IF i \in Serial THEN "value_seq" ELSE "value"
      /\ i \in Serial => t \in MemberTasks(i, steady)
      /\ i \notin Serial => t \in RunTasks(steady)
  BY NewTasks DEF ValueTask, Task
<1>2. i \in Items  BY DEF Roots
<1> HIDE DEF t
<1>3. CASE i \notin Internal
  <2>1. /\ Shape(P, E, steady) /\ Effect(Q, P, t, 0, 1, 0) /\ Kept(Q, P) /\ P \in Fields(P)
    BY PendingEffect
  <2> HIDE DEF P
  <2>2. /\ R \in Fields(R) /\ R.sequences = P.sequences /\ R.pending_num = P.pending_num
        /\ R.pending = Append(P.pending, t) /\ R.immediate = P.immediate
        /\ Kept(P, R)
    BY <2>1 DEF Fields, Kept
  <2> HIDE DEF R
  <2>3. R.processing_num \in Int /\ R.finished_num \in Int /\ R.woken \in Nat
        /\ R.pending_num = P.pending_num + 0 /\ R.finished = P.finished
    BY <2>1, <2>2 DEF Shape, Kept
  <2>4. Relisted(P, R, 0)  BY <2>2, <2>3 DEF Relisted
  <2>5. Shape(R, E, steady) /\ Effect(P, R, t, 0, 0 - 1, 1)
    BY <1>1, <2>1, <2>2, <2>3, <2>4, PendingGrows
  <2>6. Effect(Q, R, t, 0 + 0, 1 + (0 - 1), 0 + 1)
    <3>1. 0 - 1 \in Int /\ 0 \in Int /\ 1 \in Int  OBVIOUS
    <3> QED  BY <2>1, <2>5, <3>1, EffectSum, ZenonT(40)
  <2>7. Kept(Q, R)  BY <2>1, <2>2 DEF Kept
  <2>8. Push(Q, t) = R  BY <1>1, <1>3 DEF Push, R, P
  <2> QED  BY <2>5, <2>6, <2>7, <2>8 DEF t
<1>4. CASE i \in Internal /\ i \notin Serial
  <2>1. Push(Q, t) = [Pending(Q) EXCEPT !.immediate = Append(@, t)]
    BY <1>1, <1>4 DEF Push
  <2>2. t \in RunTasks(steady) /\ t.type # "sequence"  BY <1>1, <1>4
  <2>3. /\ Shape(Push(Q, t), E, steady) /\ Effect(Q, Push(Q, t), t, 0, 0, 1)
        /\ Kept(Q, Push(Q, t))
    BY <2>1, <2>2, AppendCounted
  <2> QED  BY <2>3 DEF t
<1>5. CASE i \in Internal /\ i \in Serial
  <2>1. Push(Q, t) = AddAndQueue(Pending(Q), t)
    BY <1>1, <1>5 DEF Push
  <2> QED  BY <1>1, <1>2, <1>5, <2>1, AddCounted DEF t
<1> QED  BY <1>3, <1>4, <1>5

\* A task that is queued for an item, to run next.
LEMMA PushImmediateEffect ==
    ASSUME NEW Q, NEW E, NEW steady \in BOOLEAN, Shape(Q, E, steady), NEW t,
           \/ t.item \in Items /\ t \in MemberTasks(t.item, steady)
           \/ t \in RunTasks(steady) /\ t.type # "sequence"
    PROVE  LET P == PushImmediate(Q, t)
           IN  Shape(P, E, steady) /\ Effect(Q, P, t, 0, 0, 1) /\ Kept(Q, P)
<1>1. CASE t.item \in Items /\ t \in MemberTasks(t.item, steady)
  <2>1. PushImmediate(Q, t) = AddAndQueue(Pending(Q), t)
    BY <1>1 DEF PushImmediate, MemberTasks
  <2> QED  BY <1>1, <2>1, AddCounted
<1>2. CASE t \in RunTasks(steady) /\ t.type # "sequence"
  <2>1. PushImmediate(Q, t) = [Pending(Q) EXCEPT !.immediate = Append(@, t)]
    BY <1>2 DEF PushImmediate, RunTasks
  <2> QED  BY <1>2, <2>1, AppendCounted
<1> QED  BY <1>1, <1>2

\* A container that is queued again.
LEMMA PushContainerEffect ==
    ASSUME NEW Q, NEW E, NEW steady \in BOOLEAN, Shape(Q, E, steady), NEW i \in Items
    PROVE  LET c == SequenceTask(i)
               P == PushImmediate(Q, c)
           IN  /\ Shape(P, E, steady) /\ Effect(Q, P, c, -1, 0, 0) /\ Kept(Q, P)
               /\ P.sequences = Q.sequences
<1> DEFINE c == SequenceTask(i)
           P == [Q EXCEPT !.immediate = Append(@, c)]
<1>1. c \in RunTasks(steady) /\ c.type = "sequence"  BY NewTasks
<1> HIDE DEF c
<1>2. PushImmediate(Q, c) = P  BY <1>1 DEF PushImmediate
<1>3. /\ Shape(P, E, steady) /\ Effect(Q, P, c, - Box(c), Box(c) - 1, 1) /\ Kept(Q, P)
      /\ P.sequences = Q.sequences
  BY <1>1, AppendEffect
<1> HIDE DEF P
<1>4. - Box(c) = -1 /\ Box(c) - 1 = 0  BY <1>1 DEF Box
<1>5. Effect(Q, P, c, -1, 0, 1)  BY <1>3, <1>4
<1>6. Effect(Q, P, c, -1, 0, 0)
  <2>1. -1 \in Int /\ 0 \in Int /\ 1 \in Int  OBVIOUS
  <2> QED  BY <1>1, <1>5, <2>1, EffectOther, ZenonT(40)
<1> QED  BY <1>2, <1>3, <1>6 DEF c

\* Signalling changes what the queue holds in no way.
LEMMA NotifyEffect ==
    ASSUME NEW Q, NEW E, NEW steady \in BOOLEAN, Shape(Q, E, steady), NEW t,
           NEW waiting, IsFiniteSet(waiting)
    PROVE  LET P == Notify(Q, waiting)
           IN  /\ Shape(P, E, steady) /\ Effect(Q, P, t, 0, 0, 0)
               /\ P.finished = Q.finished /\ P.finished_num = Q.finished_num
               /\ P.processing_num = Q.processing_num /\ P.sequences = Q.sequences
               /\ P.pending = Q.pending /\ P.immediate = Q.immediate
               /\ P.pending_num = Q.pending_num
               /\ Awake(P, waiting)
               /\ Q.woken <= Cardinality(waiting) => P.woken <= Cardinality(waiting)
               /\ P.woken \in {Q.woken, Q.woken + 1}
<1> DEFINE P == Notify(Q, waiting)
<1>1. /\ P \in Fields(P) /\ P.sequences = Q.sequences /\ P.pending_num = Q.pending_num
      /\ P.pending = Q.pending /\ P.immediate = Q.immediate /\ P.finished = Q.finished
      /\ P.finished_num = Q.finished_num /\ P.processing_num = Q.processing_num
      /\ P.woken = IF Q.woken < Cardinality(waiting) THEN Q.woken + 1 ELSE Q.woken
  BY DEF Notify, Fields, Shape
<1>2. P.processing_num \in Int /\ P.finished_num \in Int /\ Q.woken \in Nat
      /\ P.pending_num = Q.pending_num + 0
  BY <1>1 DEF Shape
<1>3. Cardinality(waiting) \in Nat /\ (Cardinality(waiting) = 0 <=> waiting = {})
  BY FS_CardinalityType, FS_EmptySet
<1> HIDE DEF P
<1>4. P.woken \in Nat /\ P.woken \in {Q.woken, Q.woken + 1}  BY <1>1, <1>2
<1>5. Relisted(Q, P, 0)  BY <1>1, <1>2, <1>4 DEF Relisted
<1>6. Shape(P, E, steady) /\ Effect(Q, P, t, 0, 0, 0)
  BY <1>1, <1>5, CountersEffect
<1>7. Awake(P, waiting)  BY <1>1, <1>2, <1>3 DEF Awake
<1>8. Q.woken <= Cardinality(waiting) => P.woken <= Cardinality(waiting)
  BY <1>1, <1>2, <1>3
<1> QED  BY <1>1, <1>4, <1>6, <1>7, <1>8 DEF P

----------------------------------------------------------------------------
(* Operations that are repeated. *)

\* Induction: a set of naturals that has 0 and the successor of each of its
\* members up to n has n.
LEMMA UpTo ==
    ASSUME NEW n \in Nat, NEW S, 0 \in S, \A k \in Nat : k < n /\ k \in S => k + 1 \in S
    PROVE  n \in S
<1> DEFINE T == {k \in Nat : k <= n /\ k \notin S}
<1>1. SUFFICES ASSUME T # {} PROVE FALSE
  OBVIOUS
<1>2. T \subseteq Nat  OBVIOUS
<1> HIDE DEF T
<1>3. PICK x \in T : \A y \in T : ~(<<y, x>> \in OpToRel(<, Nat))
  BY <1>1, <1>2, NatLessThanWellFounded, WFMin
<1>4. \A y \in T : ~(y < x)
  BY <1>2, <1>3 DEF OpToRel
<1>5. x \in Nat /\ x <= n /\ x \notin S  BY DEF T
<1>6. x # 0 /\ x - 1 \in Nat /\ x - 1 < n  BY <1>5
<1>7. x - 1 \in S  BY <1>4, <1>5, <1>6 DEF T
<1>8. (x - 1) + 1 \in S  BY <1>6, <1>7
<1> QED  BY <1>5, <1>8

\* The recursive definition of Moved has a solution.
LEMMA MoveSolvable ==
    ASSUME NEW Q, NEW n \in Nat
    PROVE  \E f : f = [k \in 0 .. n |-> IF k = 0 THEN Q ELSE MoveFirst(f[k - 1])]
<1> DEFINE Solves(f, m) ==
             f = [k \in 0 .. m |-> IF k = 0 THEN Q ELSE MoveFirst(f[k - 1])]
           S == {m \in Nat : \E f : Solves(f, m)}
<1>1. 0 \in S
  <2> DEFINE f == [k \in 0 .. 0 |-> Q]
  <2>1. Solves(f, 0)  OBVIOUS
  <2> QED  BY <2>1
<1>2. ASSUME NEW m \in Nat, m \in S PROVE m + 1 \in S
  <2>1. PICK f : Solves(f, m)  BY <1>2
  <2> DEFINE g == [k \in 0 .. m + 1 |-> IF k = m + 1 THEN MoveFirst(f[m]) ELSE f[k]]
             h == [k \in 0 .. m + 1 |-> IF k = 0 THEN Q ELSE MoveFirst(g[k - 1])]
  <2>2. ASSUME NEW k \in 0 .. m + 1 PROVE g[k] = h[k]
    <3>1. CASE k = 0
      <4>1. f[0] = Q  BY <2>1
      <4>2. 0 # m + 1 /\ 0 \in 0 .. m + 1  OBVIOUS
      <4> QED  BY <3>1, <4>1, <4>2
    <3>2. CASE k = m + 1
      <4>1. k # 0 /\ k - 1 = m /\ m \in 0 .. m + 1 /\ m # m + 1  BY <3>2
      <4>2. g[k - 1] = f[m]  BY <4>1
      <4> QED  BY <3>2, <4>1, <4>2
    <3>3. CASE k # 0 /\ k # m + 1
      <4>1. k \in 0 .. m /\ k - 1 \in 0 .. m /\ k - 1 \in 0 .. m + 1 /\ k - 1 # m + 1
        BY <3>3
      <4>2. f[k] = MoveFirst(f[k - 1])  BY <2>1, <3>3, <4>1
      <4>3. g[k - 1] = f[k - 1] /\ g[k] = f[k]  BY <3>3, <4>1
      <4> QED  BY <3>3, <4>2, <4>3
    <3> QED  BY <3>1, <3>2, <3>3
  <2>3. g = h  BY <2>2
  <2> HIDE DEF g
  <2>4. Solves(g, m + 1)  BY <2>3
  <2> HIDE DEF Solves
  <2> QED  BY <2>4
<1> HIDE DEF S
<1>3. n \in S  BY <1>1, <1>2, UpTo
<1> QED  BY <1>3 DEF S

\* One step after the other.
Stepwise(f, Q, n) ==
    f[0] = Q /\ \A k \in Nat : k < n => f[k + 1] = MoveFirst(f[k])

\* Moved is what MoveFirst does n times.
LEMMA MoveSteps ==
    ASSUME NEW Q, NEW n \in Nat
    PROVE  \E f : Stepwise(f, Q, n) /\ f[n] = Moved(Q, n)
<1> DEFINE Solves(f) == f = [k \in 0 .. n |-> IF k = 0 THEN Q ELSE MoveFirst(f[k - 1])]
           f == CHOOSE g : Solves(g)
<1>1. Moved(Q, n) = f[n]  BY DEF Moved
<1>2. Solves(f)
  <2>1. \E g : Solves(g)  BY MoveSolvable
  <2> HIDE DEF Solves
  <2> QED  BY <2>1
<1> HIDE DEF f
<1>3. f[0] = Q  BY <1>2
<1>4. ASSUME NEW k \in Nat, k < n PROVE f[k + 1] = MoveFirst(f[k])
  <2>1. k + 1 \in 0 .. n /\ k + 1 # 0 /\ (k + 1) - 1 = k  BY <1>4
  <2> QED  BY <1>2, <2>1
<1> HIDE DEF Solves
<1> QED  BY <1>1, <1>3, <1>4 DEF Stepwise

\* the queue after the first n of the dependent items in the list
Dependents(Q, list, n, known, v) ==
    LET queued[k \in 0 .. n] ==
            IF k = 0 THEN Q ELSE PushKnown(queued[k - 1], list[k], known, v)
    IN  queued[n]

Queued(f, Q, list, n, known, v) ==
    f = [k \in 0 .. n |-> IF k = 0 THEN Q ELSE PushKnown(f[k - 1], list[k], known, v)]

\* The recursive definition in QueueDependents has a solution.
LEMMA DependSolvable ==
    ASSUME NEW Q, NEW list, NEW known, NEW v, NEW n \in Nat
    PROVE  \E f : Queued(f, Q, list, n, known, v)
<1> DEFINE Solves(f, m) ==
             f = [k \in 0 .. m |-> IF k = 0 THEN Q ELSE PushKnown(f[k - 1], list[k], known, v)]
           S == {m \in Nat : \E f : Solves(f, m)}
<1>1. 0 \in S
  <2> DEFINE f == [k \in 0 .. 0 |-> Q]
  <2>1. Solves(f, 0)  OBVIOUS
  <2> QED  BY <2>1
<1>2. ASSUME NEW m \in Nat, m \in S PROVE m + 1 \in S
  <2>1. PICK f : Solves(f, m)  BY <1>2
  <2> DEFINE g == [k \in 0 .. m + 1 |-> IF k = m + 1 THEN PushKnown(f[m], list[m + 1], known, v) ELSE f[k]]
             h == [k \in 0 .. m + 1 |-> IF k = 0 THEN Q ELSE PushKnown(g[k - 1], list[k], known, v)]
  <2>2. ASSUME NEW k \in 0 .. m + 1 PROVE g[k] = h[k]
    <3>1. CASE k = 0
      <4>1. f[0] = Q  BY <2>1
      <4>2. 0 # m + 1 /\ 0 \in 0 .. m + 1  OBVIOUS
      <4> QED  BY <3>1, <4>1, <4>2
    <3>2. CASE k = m + 1
      <4>1. k # 0 /\ k - 1 = m /\ m \in 0 .. m + 1 /\ m # m + 1  BY <3>2
      <4>2. g[k - 1] = f[m]  BY <4>1
      <4> QED  BY <3>2, <4>1, <4>2
    <3>3. CASE k # 0 /\ k # m + 1
      <4>1. k \in 0 .. m /\ k - 1 \in 0 .. m /\ k - 1 \in 0 .. m + 1 /\ k - 1 # m + 1
        BY <3>3
      <4>2. f[k] = PushKnown(f[k - 1], list[k], known, v)  BY <2>1, <3>3, <4>1
      <4>3. g[k - 1] = f[k - 1] /\ g[k] = f[k]  BY <3>3, <4>1
      <4> QED  BY <3>3, <4>2, <4>3
    <3> QED  BY <3>1, <3>2, <3>3
  <2>3. g = h  BY <2>2
  <2> HIDE DEF g
  <2>4. Solves(g, m + 1)  BY <2>3
  <2> HIDE DEF Solves
  <2> QED  BY <2>4
<1> HIDE DEF S
<1>3. n \in S  BY <1>1, <1>2, UpTo
<1> QED  BY <1>3 DEF S, Queued

\* The dependent items are taken one after the other.
LEMMA DependSteps ==
    ASSUME NEW Q, NEW list, NEW known, NEW v, NEW n \in Nat
    PROVE  \E f : /\ f[0] = Q /\ f[n] = Dependents(Q, list, n, known, v)
                  /\ \A k \in Nat : k < n =>
                        f[k + 1] = PushKnown(f[k], list[k + 1], known, v)
<1> DEFINE f == CHOOSE g : Queued(g, Q, list, n, known, v)
<1>1. Dependents(Q, list, n, known, v) = f[n]  BY DEF Dependents, Queued
<1>2. Queued(f, Q, list, n, known, v)
  BY DependSolvable
<1> HIDE DEF f
<1>3. f[0] = Q  BY <1>2 DEF Queued
<1>4. ASSUME NEW k \in Nat, k < n PROVE f[k + 1] = PushKnown(f[k], list[k + 1], known, v)
  <2>1. k + 1 \in 0 .. n /\ k + 1 # 0 /\ (k + 1) - 1 = k  BY <1>4
  <2> QED  BY <1>2, <2>1 DEF Queued
<1> QED  BY <1>1, <1>3, <1>4

----------------------------------------------------------------------------
(* The tasks of dependent items. *)

\* what the manager does to a queue while it handles a finished task
Handled(Q, P) ==
    /\ P.finished = Q.finished /\ P.finished_num = Q.finished_num
    /\ P.processing_num = Q.processing_num
    /\ Q.woken <= Cardinality(Waiting) => P.woken <= Cardinality(Waiting)
    /\ Awake(Q, Waiting) => Awake(P, Waiting)

\* The waiting workers are finitely many.
LEMMA WaitingFinite ==
    IsFiniteSet(Waiting) /\ Cardinality(Waiting) \in Nat
<1>1. IsFiniteSet(Workers) /\ Waiting \in SUBSET Workers
  BY PreprocAssumption DEF Waiting
<1>2. IsFiniteSet(Waiting)  BY <1>1, FS_Subset
<1> QED  BY <1>2, FS_CardinalityType

\* A dependent item gets the value of its master item.
LEMMA PushKnownEffect ==
    ASSUME NEW Q, NEW E, NEW steady \in BOOLEAN, Shape(Q, E, steady),
           NEW i \in Items, NEW n \in DOMAIN Deps[i], NEW known, NEW v \in Values, NEW t,
           steady => Range(Deps[i]) \cap known \cap Sharing = {}
    PROVE  LET P == PushKnown(Q, Deps[i][n], known, v)
           IN  Shape(P, E, steady) /\ Effect(Q, P, t, 0, 0, 0) /\ Kept(Q, P)
<1> DEFINE d == Deps[i][n]
           u == ValueTask(d, v)
<1>1. Deps[i] \in Seq(Items) /\ d \in Items /\ d \in Range(Deps[i])
  <2>1. Deps[i] \in Seq(Items)  BY PreprocAssumption
  <2> QED  BY <2>1 DEF Range
<1>2. d \notin Roots  BY <1>1 DEF Roots, Dependent
<1>3. CASE d \in known
  <2>1. v \in 0 .. MaxValues + MaxTests
    BY PreprocAssumption DEF Values
  <2>2. steady => d \notin Sharing  BY <1>1, <1>3
  <2>3. /\ u \in Tasks /\ u.item = d /\ u.primary = d /\ u.value = v
        /\ u.type = IF d \in Serial THEN "value_seq" ELSE "value"
    BY <1>1, <2>1 DEF ValueTask, Task, Tasks
  <2>4. \/ u.item \in Items /\ u \in MemberTasks(u.item, steady)
        \/ u \in RunTasks(steady) /\ u.type # "sequence"
    BY <1>1, <2>2, <2>3 DEF MemberTasks, RunTasks
  <2>5. PushKnown(Q, d, known, v) = PushImmediate(Q, u)  BY <1>3 DEF PushKnown
  <2>6. u.item \notin Roots  BY <1>2, <2>3
  <2> DEFINE P == PushImmediate(Q, u)
  <2> HIDE DEF u, d
  <2>7. Shape(P, E, steady) /\ Effect(Q, P, u, 0, 0, 1) /\ Kept(Q, P)
    BY <2>4, PushImmediateEffect
  <2> HIDE DEF P
  <2>8. Effect(Q, P, t, 0, 0, 0)
    <3>1. 0 \in Int /\ 1 \in Int  OBVIOUS
    <3> QED  BY <2>6, <2>7, <3>1, EffectOther, ZenonT(40)
  <2> QED  BY <2>5, <2>7, <2>8 DEF P, d
<1>4. CASE d \notin known
  <2>1. PushKnown(Q, d, known, v) = Q  BY <1>4 DEF PushKnown
  <2>2. Effect(Q, Q, t, 0, 0, 0)  BY EffectNone
  <2> QED  BY <2>1, <2>2 DEF Kept
<1> QED  BY <1>3, <1>4

\* The tasks of the dependent items leave the counts as they are.
LEMMA QueueDependentsEffect ==
    ASSUME NEW Q, NEW E, NEW steady \in BOOLEAN, Shape(Q, E, steady),
           NEW i \in Items, NEW exclude, NEW v \in Values, NEW t,
           steady => Range(Deps[i]) \cap (items \ exclude) \cap Sharing = {}
    PROVE  LET P == QueueDependents(Q, i, exclude, v)
           IN  Shape(P, E, steady) /\ Effect(Q, P, t, 0, 0, 0) /\ Handled(Q, P)
<1> DEFINE known == items \ exclude
           n == Len(Deps[i])
           R == Dependents(Q, Deps[i], n, known, v)
           P == Notify(R, Waiting)
<1>1. Deps[i] \in Seq(Items) /\ n \in Nat /\ DOMAIN Deps[i] = 1 .. n
  BY PreprocAssumption
<1>2. CASE Range(Deps[i]) \cap known = {}
  <2>1. QueueDependents(Q, i, exclude, v) = Q  BY <1>2 DEF QueueDependents
  <2>2. Effect(Q, Q, t, 0, 0, 0)  BY EffectNone
  <2> QED  BY <2>1, <2>2 DEF Handled
<1>3. CASE Range(Deps[i]) \cap known # {}
  <2>1. QueueDependents(Q, i, exclude, v) = P
    BY <1>3 DEF QueueDependents, Dependents
  <2> HIDE DEF n, known
  <2>2. PICK f : /\ f[0] = Q /\ f[n] = R
                 /\ \A k \in Nat : k < n => f[k + 1] = PushKnown(f[k], Deps[i][k + 1], known, v)
    BY <1>1, DependSteps
  <2> DEFINE Good(k) == /\ Shape(f[k], E, steady) /\ Effect(Q, f[k], t, 0, 0, 0)
                        /\ Kept(Q, f[k])
             S == {k \in Nat : Good(k)}
  <2>3. 0 \in S
    <3>1. Effect(Q, Q, t, 0, 0, 0) /\ Kept(Q, Q)  BY EffectNone DEF Kept
    <3> QED  BY <2>2, <3>1
  <2>4. ASSUME NEW k \in Nat, k < n, k \in S PROVE k + 1 \in S
    <3> DEFINE A == f[k]
               B == PushKnown(A, Deps[i][k + 1], known, v)
    <3>1. Shape(A, E, steady) /\ Effect(Q, A, t, 0, 0, 0) /\ Kept(Q, A)  BY <2>4
    <3>2. f[k + 1] = B  BY <2>2, <2>4
    <3>3. k + 1 \in DOMAIN Deps[i]  BY <1>1, <2>4
    <3>4. steady => Range(Deps[i]) \cap known \cap Sharing = {}  BY DEF known
    <3> HIDE DEF A, S, Good
    <3>5. Shape(B, E, steady) /\ Effect(A, B, t, 0, 0, 0) /\ Kept(A, B)
      BY <3>1, <3>3, <3>4, PushKnownEffect
    <3> HIDE DEF B
    <3>6. Effect(Q, B, t, 0, 0, 0)
      <4>1. 0 \in Int /\ 0 + 0 = 0  OBVIOUS
      <4>2. Effect(Q, B, t, 0 + 0, 0 + 0, 0 + 0)
        BY <3>1, <3>5, <4>1, EffectSum, ZenonT(40)
      <4> QED  BY <4>1, <4>2
    <3>7. Kept(Q, B)  BY <3>1, <3>5 DEF Kept
    <3>8. Good(k + 1)  BY <3>2, <3>5, <3>6, <3>7 DEF Good
    <3> QED  BY <3>8 DEF S
  <2> HIDE DEF S
  <2>5. n \in S  BY <1>1, <2>3, <2>4, UpTo
  <2>6. Shape(R, E, steady) /\ Effect(Q, R, t, 0, 0, 0) /\ Kept(Q, R)
    BY <2>2, <2>5 DEF S
  <2> HIDE DEF R
  <2>7. /\ Shape(P, E, steady) /\ Effect(R, P, t, 0, 0, 0)
        /\ P.finished = R.finished /\ P.finished_num = R.finished_num
        /\ P.processing_num = R.processing_num
        /\ Awake(P, Waiting)
        /\ R.woken <= Cardinality(Waiting) => P.woken <= Cardinality(Waiting)
    BY <2>6, WaitingFinite, NotifyEffect
  <2> HIDE DEF P
  <2>8. Effect(Q, P, t, 0, 0, 0)
    <3>1. 0 \in Int /\ 0 + 0 = 0  OBVIOUS
    <3>2. Effect(Q, P, t, 0 + 0, 0 + 0, 0 + 0)
      BY <2>6, <2>7, <3>1, EffectSum, ZenonT(40)
    <3> QED  BY <3>1, <3>2
  <2>9. Handled(Q, P)  BY <2>6, <2>7 DEF Handled, Kept
  <2> QED  BY <2>1, <2>7, <2>8, <2>9 DEF P
<1> QED  BY <1>2, <1>3

\* Two parts of what the manager does, one after the other.
LEMMA HandledBoth ==
    ASSUME NEW Q, NEW P, NEW R, Handled(Q, P), Handled(P, R)
    PROVE  Handled(Q, R)
BY DEF Handled

\* Nothing that is given to one item in steps shares its cache with others.
LEMMA SharingOne ==
    ASSUME NEW i \in Items, NEW d \in Range(Deps[i]), d \in Sharing
    PROVE  CacheIndexes(i) # {} /\ d = FirstCached(i)
<1>1. PICK j \in Items : CacheIndexes(j) # {} /\ d = FirstCached(j)  BY DEF Sharing
<1>2. Deps[j] \in Seq(Items)  BY PreprocAssumption
<1>3. CacheIndexes(j) \subseteq DOMAIN Deps[j]  BY DEF CacheIndexes
<1>4. Min(CacheIndexes(j)) \in CacheIndexes(j)  BY <1>1, <1>2, <1>3, FirstOf
<1>5. d \in Range(Deps[j])  BY <1>1, <1>3, <1>4 DEF FirstCached, Range
<1>6. i = j  BY <1>5, PreprocAssumption
<1> QED  BY <1>1, <1>6

\* The result of a value is given to the dependent items of its item.
LEMMA ValueTaskResultEffect ==
    ASSUME NEW Q, NEW E, NEW steady \in BOOLEAN, Shape(Q, E, steady),
           NEW t, t.primary \in Items, t.value \in Values, NEW u,
           items \subseteq Items, steady => items = Items
    PROVE  LET P == ValueTaskResult(Q, t)
           IN  Shape(P, E, steady) /\ Effect(Q, P, u, 0, 0, 0) /\ Handled(Q, P)
<1> DEFINE i == t.primary
           cached == {n \in DOMAIN Deps[i] : Deps[i][n] \in items \cap Cacheable}
           task == Task("dependent", i, Deps[i][Min(cached)], t.value)
           R == PushImmediate(Q, task)
           P == Notify(R, Waiting)
<1>1. Deps[i] \in Seq(Items)  BY PreprocAssumption
<1>2. steady => cached = CacheIndexes(i)
  <2>1. \A n \in DOMAIN Deps[i] : Deps[i][n] \in Items  BY <1>1
  <2> QED  BY <2>1 DEF CacheIndexes
<1>3. CASE ~t.result
  <2>1. ValueTaskResult(Q, t) = Q  BY <1>3 DEF ValueTaskResult
  <2>2. Effect(Q, Q, u, 0, 0, 0)  BY EffectNone
  <2> QED  BY <2>1, <2>2 DEF Handled
<1>4. CASE t.result /\ cached = {}
  <2>1. ValueTaskResult(Q, t) = QueueDependents(Q, i, {}, t.value)
    BY <1>4 DEF ValueTaskResult
  <2>2. steady => Range(Deps[i]) \cap (items \ {}) \cap Sharing = {}
    BY <1>2, <1>4, SharingOne
  <2> HIDE DEF i, cached
  <2>3. i \in Items  BY DEF i
  <2> QED  BY <2>1, <2>2, <2>3, QueueDependentsEffect
<1>5. CASE t.result /\ cached # {}
  <2>1. ValueTaskResult(Q, t) = P
    BY <1>5 DEF ValueTaskResult
  <2>2. Min(cached) \in DOMAIN Deps[i]
    <3>1. cached \subseteq DOMAIN Deps[i]  OBVIOUS
    <3> HIDE DEF cached
    <3>2. Min(cached) \in cached  BY <1>1, <1>5, <3>1, FirstOf
    <3> QED  BY <3>1, <3>2
  <2>3. Deps[i][Min(cached)] \in Range(Deps[i]) /\ Deps[i][Min(cached)] \in Items
    <3> DEFINE m == Min(cached)
    <3>1. m \in DOMAIN Deps[i]  BY <2>2
    <3> HIDE DEF m
    <3>2. Deps[i][m] \in Range(Deps[i]) /\ Deps[i][m] \in Items  BY <1>1, <3>1 DEF Range
    <3> QED  BY <3>2 DEF m
  <2>4. steady => CacheIndexes(i) # {} /\ Deps[i][Min(cached)] = FirstCached(i)
    BY <1>2, <1>5 DEF FirstCached
  <2> HIDE DEF cached
  <2>5. t.value \in 0 .. MaxValues + MaxTests  BY PreprocAssumption DEF Values
  <2>6. task \in Tasks /\ task.item = i /\ task.type = "dependent"
        /\ task.primary = Deps[i][Min(cached)] /\ task.value = t.value
    BY <2>3, <2>5 DEF Task, Tasks
  <2>7. task.item \in Items /\ task \in MemberTasks(task.item, steady)
    BY <2>3, <2>4, <2>6 DEF MemberTasks
  <2> HIDE DEF task, i
  <2>8. Shape(R, E, steady) /\ Effect(Q, R, task, 0, 0, 1) /\ Kept(Q, R)
    BY <2>7, PushImmediateEffect
  <2> HIDE DEF R
  <2>9. Effect(Q, R, u, 0, 0, 0)
    <3>1. 0 \in Int /\ 1 \in Int  OBVIOUS
    <3> QED  BY <2>6, <2>8, <3>1, EffectOther
  <2>10. /\ Shape(P, E, steady) /\ Effect(R, P, u, 0, 0, 0)
         /\ P.finished = R.finished /\ P.finished_num = R.finished_num
         /\ P.processing_num = R.processing_num
         /\ Awake(P, Waiting)
         /\ R.woken <= Cardinality(Waiting) => P.woken <= Cardinality(Waiting)
    BY <2>8, WaitingFinite, NotifyEffect
  <2> HIDE DEF P
  <2>11. Effect(Q, P, u, 0, 0, 0)
    <3>1. 0 \in Int /\ 0 + 0 = 0  OBVIOUS
    <3>2. Effect(Q, P, u, 0 + 0, 0 + 0, 0 + 0)
      BY <2>9, <2>10, <3>1, EffectSum, ZenonT(40)
    <3> QED  BY <3>1, <3>2
  <2>12. Handled(Q, P)  BY <2>8, <2>10 DEF Handled, Kept
  <2> QED  BY <2>1, <2>10, <2>11, <2>12
<1> QED  BY <1>3, <1>4, <1>5

\* What becomes of the task that a sequence begins with.
LEMMA TaskResultEffect ==
    ASSUME NEW Q, NEW E, NEW steady \in BOOLEAN, Shape(Q, E, steady),
           NEW t, t.item \in Items, t \in MemberTasks(t.item, steady), NEW u,
           items \subseteq Items, steady => items = Items
    PROVE  LET P == TaskResult(Q, t)
           IN  Shape(P, E, steady) /\ Effect(Q, P, u, 0, 0, 0) /\ Handled(Q, P)
<1> DEFINE P == ValueTaskResult(Q, t)
           R == QueueDependents(P, t.item, {t.primary}, t.value)
<1>1. t.primary \in Items /\ t.value \in Values
  BY DEF MemberTasks, Tasks
<1>2. Shape(P, E, steady) /\ Effect(Q, P, u, 0, 0, 0) /\ Handled(Q, P)
  BY <1>1, ValueTaskResultEffect
<1>3. CASE t.type # "dependent"
  BY <1>2, <1>3 DEF TaskResult
<1>4. CASE t.type = "dependent"
  <2>1. TaskResult(Q, t) = R  BY <1>4 DEF TaskResult, DependentTaskResult
  <2>2. steady => t.primary = FirstCached(t.item)  BY <1>4 DEF MemberTasks
  <2>3. steady => Range(Deps[t.item]) \cap (items \ {t.primary}) \cap Sharing = {}
    BY <2>2, SharingOne
  <2> HIDE DEF P
  <2>4. Shape(R, E, steady) /\ Effect(P, R, u, 0, 0, 0) /\ Handled(P, R)
    BY <1>1, <1>2, <2>3, QueueDependentsEffect
  <2> HIDE DEF R
  <2>5. Effect(Q, R, u, 0, 0, 0)
    <3>1. 0 \in Int /\ 0 + 0 = 0  OBVIOUS
    <3>2. Effect(Q, R, u, 0 + 0, 0 + 0, 0 + 0)
      BY <1>2, <2>4, <3>1, EffectSum, ZenonT(40)
    <3> QED  BY <3>1, <3>2
  <2>6. Handled(Q, R)  BY <1>2, <2>4, HandledBoth
  <2> QED  BY <2>1, <2>4, <2>5, <2>6
<1> QED  BY <1>3, <1>4

----------------------------------------------------------------------------
(* Sequences that get shorter or end. *)

\* Sequence s replaces the sequence of item i: the places are d more, and it
\* holds the value of task t k times more.
Replaced(Q, P, steady, i, s, d, t, k) ==
    /\ i \in Registered(Q) /\ s \in Seq(MemberTasks(i, steady)) /\ t.item = i
    /\ P \in Fields(P) /\ P.sequences = [Q.sequences EXCEPT ![i] = s]
    /\ P.pending = Q.pending /\ P.immediate = Q.immediate /\ P.finished = Q.finished
    /\ P.pending_num = Q.pending_num /\ P.processing_num = Q.processing_num
    /\ P.finished_num = Q.finished_num /\ P.woken = Q.woken
    /\ d \in Int /\ k \in Int
    /\ IsFiniteSet(Places(P)) /\ Cardinality(Places(P)) = Cardinality(Places(Q)) + d
    /\ \A v \in Values : Count(s, Own(i, v))
                           = Count(Q.sequences[i], Own(i, v)) + (IF t \in Own(i, v) THEN k ELSE 0)

\* A sequence is replaced by one that is shorter or as long.
LEMMA SequenceReplaced ==
    ASSUME NEW Q, NEW E, NEW steady \in BOOLEAN, Shape(Q, E, steady),
           NEW P, NEW i, NEW s, NEW d, NEW t, NEW k, Replaced(Q, P, steady, i, s, d, t, k),
           NEW F, E \subseteq F, s = <<>> => i \in F
    PROVE  Shape(P, F, steady) /\ Effect(Q, P, t, 0, 0 - d, k)
<1> USE DEF Replaced
<1>1. /\ i \in Items /\ Registered(P) = Registered(Q)
      /\ \A j \in Registered(P) : P.sequences[j] = IF j = i THEN s ELSE Q.sequences[j]
      /\ Sequence(P, i) = s /\ Sequence(Q, i) = Q.sequences[i]
      /\ \A j : j # i => Sequence(P, j) = Sequence(Q, j)
  BY DEF Shape, Registered, Sequence
<1>2. MemberTasks(i, steady) \subseteq Tasks  BY DEF MemberTasks
<1>3. s \in Seq(Tasks)  BY <1>2
<1>4. P.sequences \in [Registered(P) -> Seq(Tasks)]
  BY <1>1, <1>3 DEF Shape
<1>5. \A j \in Registered(P) \ F : P.sequences[j] # <<>>
  BY <1>1 DEF Shape
<1>6. \A j \in Registered(P) : P.sequences[j] \in Seq(MemberTasks(j, steady))
  BY <1>1 DEF Shape
<1>7. Shape(P, F, steady)
  BY <1>1, <1>4, <1>5, <1>6 DEF Shape
<1>8. /\ \A j \in Items : Gap(Q, j) \in Int
      /\ Gaps(Q) \in Int /\ Surplus(Q) \in Int
      /\ \A j \in Roots, v \in Values : Inside(Q, j, v) \in Nat
  BY Measures
<1>9. /\ \A S : Count(Q.pending, S) \in Nat /\ Count(Q.immediate, S) \in Nat
               /\ Count(Q.finished, S) \in Nat
      /\ \A j \in Items : \A S : Count(Sequence(Q, j), S) \in Nat
      /\ Cardinality(Registered(Q)) \in Nat /\ Cardinality(Places(Q)) \in Nat
      /\ Len(Q.pending) \in Nat /\ Len(Q.immediate) \in Nat /\ Q.pending_num \in Int
  <2> HIDE DEF Replaced
  <2> QED  BY Lists
<1>10. \A j \in Items : Gap(P, j) = Gap(Q, j) + (IF j = t.item THEN 0 ELSE 0)
  <2> TAKE j \in Items
  <2>1. Gap(P, j) = Gap(Q, j) /\ Gap(Q, j) \in Int  BY <1>1, <1>8 DEF Gap
  <2> QED  BY <2>1
<1>11. Gaps(P) = Gaps(Q) + 0
  <2>1. Gaps(P) = Gaps(Q)  BY <1>1 DEF Gaps
  <2> QED  BY <1>8, <2>1
<1>12. Surplus(P) = Surplus(Q) + (0 - d)
  <2> DEFINE n == Q.pending_num
             a == Len(Q.pending)
             b == Len(Q.immediate)
             c == Count(Q.immediate, Containers)
             p == Cardinality(Places(Q))
             e == Count(Q.finished, Containers)
  <2>1. /\ n \in Int /\ a \in Int /\ b \in Int /\ c \in Int /\ p \in Int /\ e \in Int
    <3> HIDE DEF Replaced
    <3> QED  BY <1>9
  <2>2. Surplus(Q) = n - (a + b - c + p - e)  BY DEF Surplus
  <2>3. Surplus(P) = n - (a + b - c + (p + d) - e)  BY DEF Surplus
  <2> HIDE DEF n, a, b, c, p, e
  <2> QED  BY <2>1, <2>2, <2>3
<1>13. ASSUME NEW j \in Roots, NEW v \in Values
       PROVE  Inside(P, j, v) = Inside(Q, j, v) + (IF t \in Own(j, v) THEN k ELSE 0)
  <2>1. CASE j = i
    <3> DEFINE a == Count(Q.pending, Own(j, v))
               b == Count(Q.immediate, Own(j, v))
               c == Count(Q.finished, Own(j, v))
               e == Count(Sequence(Q, j), Own(j, v))
               x == IF t \in Own(j, v) THEN k ELSE 0
    <3>1. a \in Int /\ b \in Int /\ c \in Int /\ e \in Int /\ x \in Int
      BY <1>1, <1>9, <2>1
    <3>2. Count(Sequence(P, j), Own(j, v)) = e + x
      BY <1>1, <2>1
    <3>3. Inside(Q, j, v) = a + b + c + e  BY DEF Inside
    <3>4. Inside(P, j, v) = a + b + c + (e + x)  BY <3>2 DEF Inside
    <3> HIDE DEF a, b, c, e
    <3> QED  BY <3>1, <3>3, <3>4
  <2>2. CASE j # i
    <3>1. t \notin Own(j, v)  BY <2>2 DEF Own
    <3>2. Inside(P, j, v) = Inside(Q, j, v)  BY <1>1, <2>2 DEF Inside
    <3> QED  BY <1>8, <3>1, <3>2
  <2> QED  BY <2>1, <2>2
<1>14. Effect(Q, P, t, 0, 0 - d, k)
  BY <1>10, <1>11, <1>12, <1>13 DEF Effect
<1> QED  BY <1>7, <1>14

\* The first task of a sequence is taken off it.
LEMMA RestEffect ==
    ASSUME NEW Q, NEW E, NEW steady \in BOOLEAN, Shape(Q, E, steady),
           NEW i \in Registered(Q), Q.sequences[i] # <<>>
    PROVE  LET P == [Q EXCEPT !.sequences[i] = Tail(@)]
               t == Head(Q.sequences[i])
           IN  /\ Shape(P, {i} \cup E, steady) /\ Effect(Q, P, t, 0, 1, -1)
               /\ t \in MemberTasks(i, steady)
               /\ P.finished = Q.finished /\ P.finished_num = Q.finished_num
               /\ P.processing_num = Q.processing_num /\ P.woken = Q.woken
               /\ P.pending = Q.pending /\ P.immediate = Q.immediate
<1> DEFINE old == Q.sequences[i]
           s == Tail(old)
           k == Len(old)
           t == Head(old)
           P == [Q EXCEPT !.sequences[i] = Tail(@)]
<1>1. old \in Seq(MemberTasks(i, steady))  BY DEF Shape
<1>2. /\ s \in Seq(MemberTasks(i, steady)) /\ t \in MemberTasks(i, steady)
      /\ \A S : Count(s, S) = Count(old, S) + (IF t \in S THEN -1 ELSE 0)
      /\ k \in Nat \ {0} /\ DOMAIN old = 1 .. k /\ DOMAIN s = 1 .. k - 1
  BY <1>1, AddedFirst DEF Added
<1>3. /\ P \in Fields(P) /\ P.sequences = [Q.sequences EXCEPT ![i] = s]
      /\ P.pending = Q.pending /\ P.immediate = Q.immediate /\ P.finished = Q.finished
      /\ P.pending_num = Q.pending_num /\ P.processing_num = Q.processing_num
      /\ P.finished_num = Q.finished_num /\ P.woken = Q.woken
  BY DEF Fields, Shape
<1> HIDE DEF P
<1>4. Registered(P) = Registered(Q)
      /\ \A j \in Registered(Q) : P.sequences[j] = IF j = i THEN s ELSE Q.sequences[j]
  BY <1>3 DEF Registered, Shape
<1>5. IsFiniteSet(Places(P)) /\ Cardinality(Places(P)) = Cardinality(Places(Q)) + (-1)
  <2>1. IsFiniteSet(Places(Q)) /\ Cardinality(Places(Q)) \in Nat  BY FS_CardinalityType DEF Shape
  <2>2. \A S, x : x \in Places(S) <=> \E j \in Registered(S) : x \in {j} \X DOMAIN S.sequences[j]
    BY DEF Places
  <2>3. \A j, n : <<j, n>> \in Places(Q) <=> j \in Registered(Q) /\ n \in DOMAIN Q.sequences[j]
    BY DEF Places
  <2>4. \A j, n : <<j, n>> \in Places(P) <=> j \in Registered(P) /\ n \in DOMAIN P.sequences[j]
    BY DEF Places
  <2>5. \A n : n \in DOMAIN s <=> n \in DOMAIN old /\ n # k  BY <1>2
  <2>6. \A x \in Places(Q) \cup Places(P) : \E j, n : x = <<j, n>>  BY <2>2
  <2>7. \A j, n : <<j, n>> \in Places(P) <=> <<j, n>> \in Places(Q) /\ <<j, n>> # <<i, k>>
    <3> TAKE j, n
    <3>1. old = Q.sequences[i]  OBVIOUS
    <3> HIDE DEF old, s, k
    <3>2. CASE j = i
      <4>1. P.sequences[j] = s /\ j \in Registered(P)  BY <1>4, <3>2
      <4> QED  BY <2>3, <2>4, <2>5, <3>1, <3>2, <4>1
    <3>3. CASE j # i
      <4>1. j \in Registered(Q) => P.sequences[j] = Q.sequences[j]  BY <1>4, <3>3
      <4> QED  BY <1>4, <2>3, <2>4, <3>3, <4>1
    <3> QED  BY <3>2, <3>3
  <2>8. Places(P) = Places(Q) \ {<<i, k>>}
    <3> HIDE DEF k
    <3> QED  BY <2>6, <2>7
  <2>9. <<i, k>> \in Places(Q)  BY <1>2, <2>3
  <2> HIDE DEF k
  <2>10. IsFiniteSet(Places(P)) /\ Cardinality(Places(P)) = Cardinality(Places(Q)) - 1
    BY <2>1, <2>8, <2>9, FS_RemoveElement
  <2> QED  BY <2>1, <2>10
<1>6. t.item = i  BY <1>2 DEF MemberTasks
<1>7. -1 \in Int /\ 0 - (-1) = 1 /\ E \subseteq {i} \cup E /\ (s = <<>> => i \in {i} \cup E)
  OBVIOUS
<1>8. Replaced(Q, P, steady, i, s, -1, t, -1)
  <2> HIDE DEF s, t
  <2> QED  BY <1>2, <1>3, <1>5, <1>6, <1>7 DEF Replaced
<1> HIDE DEF s, t
<1>9. Shape(P, {i} \cup E, steady) /\ Effect(Q, P, t, 0, 0 - (-1), -1)
  <2> DEFINE F == {i} \cup E
  <2>1. E \subseteq F /\ (s = <<>> => i \in F)  OBVIOUS
  <2> HIDE DEF F
  <2>2. Shape(P, F, steady) /\ Effect(Q, P, t, 0, 0 - (-1), -1)
    <3> HIDE DEF old
    <3> QED  BY <1>8, <2>1, SequenceReplaced
  <2> QED  BY <2>2 DEF F
<1> QED  BY <1>2, <1>3, <1>7, <1>9 DEF P, t

\* The steps have run on the first task of a sequence.
ResultSet(Q, i, result) == [Q EXCEPT !.sequences[i][1].result = result]

\* The first task of a sequence gets its result.
LEMMA ResultSetEffect ==
    ASSUME NEW Q, NEW E, NEW steady \in BOOLEAN, Shape(Q, E, steady),
           NEW i \in Registered(Q), Q.sequences[i] # <<>>, NEW result \in BOOLEAN, NEW t
    PROVE  LET P == ResultSet(Q, i, result)
           IN  /\ Shape(P, E, steady) /\ Effect(Q, P, t, 0, 0, 0) /\ Kept(Q, P)
               /\ P.pending = Q.pending /\ P.immediate = Q.immediate
               /\ P.pending_num = Q.pending_num
<1> DEFINE old == Q.sequences[i]
           s == [old EXCEPT ![1].result = result]
           u == old[1]
           P == ResultSet(Q, i, result)
<1>1. old \in Seq(MemberTasks(i, steady))  BY DEF Shape
<1>2. Len(old) \in Nat \ {0} /\ DOMAIN old = 1 .. Len(old) /\ 1 \in DOMAIN old
      /\ u \in MemberTasks(i, steady)
  BY <1>1
<1>3. [u EXCEPT !.result = result] \in MemberTasks(i, steady)
      /\ \A j, v : u \in Own(j, v) <=> [u EXCEPT !.result = result] \in Own(j, v)
  BY <1>2 DEF MemberTasks, Tasks, Own
<1>4. s \in Seq(MemberTasks(i, steady)) /\ DOMAIN s = DOMAIN old /\ s # <<>>
      /\ \A n \in DOMAIN s : s[n] = IF n = 1 THEN [u EXCEPT !.result = result] ELSE old[n]
  BY <1>1, <1>2, <1>3
<1>5. /\ P \in Fields(P) /\ P.sequences = [Q.sequences EXCEPT ![i] = s]
      /\ P.pending = Q.pending /\ P.immediate = Q.immediate /\ P.finished = Q.finished
      /\ P.pending_num = Q.pending_num /\ P.processing_num = Q.processing_num
      /\ P.finished_num = Q.finished_num /\ P.woken = Q.woken
  BY DEF Fields, Shape, ResultSet
<1> HIDE DEF P
<1>6. Registered(P) = Registered(Q)
      /\ \A j \in Registered(Q) : DOMAIN P.sequences[j] = DOMAIN Q.sequences[j]
  <2>1. Q.sequences \in [Registered(Q) -> Seq(Tasks)]  BY DEF Shape
  <2> HIDE DEF s
  <2> QED  BY <1>4, <1>5, <2>1 DEF Registered
<1>7. Places(P) = Places(Q)  BY <1>6 DEF Places
<1>8. IsFiniteSet(Places(P)) /\ Cardinality(Places(P)) = Cardinality(Places(Q)) + 0
  <2>1. Cardinality(Places(Q)) \in Nat  BY Lists
  <2> QED  BY <1>7, <2>1 DEF Shape
<1>9. \A v \in Values : Count(s, Own(i, v)) = Count(old, Own(i, v)) + (IF u \in Own(i, v) THEN 0 ELSE 0)
  <2> TAKE v \in Values
  <2>1. \A n \in DOMAIN s : s[n] \in Own(i, v) <=> old[n] \in Own(i, v)
    <3> HIDE DEF s
    <3> QED  BY <1>3, <1>4 DEF Own
  <2> HIDE DEF s
  <2>2. Count(s, Own(i, v)) = Count(old, Own(i, v))  BY <1>4, <2>1, CountSame
  <2>3. Count(old, Own(i, v)) \in Nat  BY <1>1, CountFinite
  <2> QED  BY <2>2, <2>3
<1>10. u.item = i  BY <1>2 DEF MemberTasks
<1>11. Replaced(Q, P, steady, i, s, 0, u, 0)
  <2> HIDE DEF s, u
  <2> QED  BY <1>4, <1>5, <1>8, <1>9, <1>10 DEF Replaced
<1>12. 0 \in Int /\ E \subseteq E /\ 0 - 0 = 0 /\ (s = <<>> => i \in E)
  <2> HIDE DEF s
  <2> QED  BY <1>4
<1> HIDE DEF s, u
<1>13. Shape(P, E, steady) /\ Effect(Q, P, u, 0, 0 - 0, 0)
  BY <1>11, <1>12, SequenceReplaced, ZenonT(40)
<1>14. Effect(Q, P, t, 0, 0, 0)
  <2>1. Effect(Q, P, u, 0, 0, 0)  BY <1>12, <1>13
  <2> QED  BY <1>12, <2>1, EffectOther, ZenonT(40)
<1>15. Kept(Q, P)  BY <1>5 DEF Kept
<1> QED  BY <1>5, <1>13, <1>14, <1>15 DEF P

\* A sequence without tasks is removed.
LEMMA RemoveSequenceEffect ==
    ASSUME NEW Q, NEW steady \in BOOLEAN, NEW i \in Registered(Q), Shape(Q, {i}, steady),
           Q.sequences[i] = <<>>
    PROVE  LET P == RemoveSequence(Q, i)
           IN  /\ Shape(P, {}, steady) /\ Effect(Q, P, SequenceTask(i), -1, 0, 0)
               /\ Kept(Q, P) /\ P.pending = Q.pending /\ P.immediate = Q.immediate
<1> DEFINE map == [j \in Registered(Q) \ {i} |-> Q.sequences[j]]
           P == RemoveSequence(Q, i)
<1>1. P = [Q EXCEPT !.sequences = map]
  BY DEF RemoveSequence, Restrict
<1>2. /\ DOMAIN map = Registered(Q) \ {i}
      /\ \A j \in DOMAIN map : map[j] = Q.sequences[j]
      /\ map = [j \in DOMAIN map |-> map[j]]
  OBVIOUS
<1>3. Q \in Fields(Q) /\ Q.sequences \in [Registered(Q) -> Seq(Tasks)]
  BY DEF Shape
<1> HIDE DEF map, P
<1>4. /\ P \in Fields(P) /\ P.sequences = map
      /\ P.pending = Q.pending /\ P.immediate = Q.immediate /\ P.finished = Q.finished
      /\ P.pending_num = Q.pending_num /\ P.processing_num = Q.processing_num
      /\ P.finished_num = Q.finished_num /\ P.woken = Q.woken
  BY <1>1, <1>3 DEF Fields
<1>5. /\ Registered(P) = Registered(Q) \ {i} /\ Registered(P) \subseteq Items /\ i \in Items
      /\ \A j \in Registered(P) : P.sequences[j] = Q.sequences[j]
  BY <1>2, <1>4 DEF Registered, Shape
<1>6. \A j : Sequence(P, j) = Sequence(Q, j)
  BY <1>5 DEF Sequence
<1>7. Places(P) = Places(Q)
  <2>1. \A x : x \in Places(Q) <=> \E j \in Registered(Q) : x \in {j} \X DOMAIN Q.sequences[j]
    BY DEF Places
  <2>2. \A x : x \in Places(P) <=> \E j \in Registered(P) : x \in {j} \X DOMAIN P.sequences[j]
    BY DEF Places
  <2>3. DOMAIN Q.sequences[i] = {}  OBVIOUS
  <2>4. \A x : x \in Places(P) <=> x \in Places(Q)  BY <1>5, <2>1, <2>2, <2>3
  <2> QED  BY <2>4
<1>8. /\ IsFiniteSet(Registered(P))
      /\ Cardinality(Registered(P)) = Cardinality(Registered(Q)) - 1
      /\ Cardinality(Registered(Q)) \in Nat
  BY <1>5, FS_RemoveElement, FS_CardinalityType DEF Shape
<1>9. Shape(P, {}, steady)
  <2>1. P.sequences \in [Registered(P) -> Seq(Tasks)]
    <3>1. \A j \in Registered(Q) : Q.sequences[j] \in Seq(Tasks)  BY <1>3
    <3>2. map \in [Registered(Q) \ {i} -> Seq(Tasks)]
      <4> HIDE DEF Registered
      <4> QED  BY <3>1 DEF map
    <3> QED  BY <1>4, <1>5, <3>2
  <2>2. /\ \A j \in Registered(P) : P.sequences[j] \in Seq(MemberTasks(j, steady))
        /\ \A j \in Registered(P) : P.sequences[j] # <<>>
    BY <1>5 DEF Shape
  <2>3. IsFiniteSet(Places(P))  BY <1>7 DEF Shape
  <2> QED  BY <1>4, <1>5, <1>8, <2>1, <2>2, <2>3 DEF Shape
<1>10. /\ \A j \in Items : Gap(Q, j) \in Int
       /\ Gaps(Q) \in Int /\ Surplus(Q) \in Int
       /\ \A j \in Roots, v \in Values : Inside(Q, j, v) \in Nat
  BY Measures
<1>11. \A S : /\ Count(Q.pending, S) \in Nat /\ Count(Q.immediate, S) \in Nat
              /\ Count(Q.finished, S) \in Nat
  BY Lists
<1>12. \A j \in Items : Gap(P, j) = Gap(Q, j) + (IF j = i THEN -1 ELSE 0)
  <2> TAKE j \in Items
  <2> DEFINE a == Count(Q.immediate, {SequenceTask(j)})
             b == Count(Q.finished, {SequenceTask(j)})
             x == IF j \in Registered(Q) THEN 1 ELSE 0
             y == IF j \in Registered(P) THEN 1 ELSE 0
  <2>1. a \in Nat /\ b \in Nat /\ x \in Int  BY <1>11
  <2>2. Gap(Q, j) = x - a - b /\ Gap(P, j) = y - a - b  BY <1>4 DEF Gap
  <2>3. y = x + (IF j = i THEN -1 ELSE 0)  BY <1>5
  <2> HIDE DEF a, b, x, y
  <2> QED  BY <2>1, <2>2, <2>3
<1>13. Gaps(P) = Gaps(Q) + (-1)
  BY <1>4, <1>8, <1>11 DEF Gaps
<1>14. Surplus(P) = Surplus(Q) + 0
  <2>1. Surplus(P) = Surplus(Q)  BY <1>4, <1>7 DEF Surplus
  <2> QED  BY <1>10, <2>1
<1>15. \A j \in Roots, v \in Values :
          Inside(P, j, v) = Inside(Q, j, v) + (IF SequenceTask(i) \in Own(j, v) THEN 0 ELSE 0)
  <2> TAKE j \in Roots, v \in Values
  <2>1. Inside(P, j, v) = Inside(Q, j, v)  BY <1>4, <1>6 DEF Inside
  <2> QED  BY <1>10, <2>1
<1>16. SequenceTask(i).item = i  BY DEF SequenceTask, Task
<1>17. Effect(Q, P, SequenceTask(i), -1, 0, 0)
  BY <1>12, <1>13, <1>14, <1>15, <1>16 DEF Effect
<1> QED  BY <1>4, <1>9, <1>17 DEF P, Kept

\* The manager puts a container back, or removes the sequence.
LEMMA RequeueEffect ==
    ASSUME NEW Q, NEW steady \in BOOLEAN, NEW i \in Registered(Q), Shape(Q, {i}, steady)
    PROVE  LET P == Requeue(Q, SequenceTask(i))
           IN  /\ Shape(P, {}, steady) /\ Effect(Q, P, SequenceTask(i), -1, 0, 0)
               /\ Handled(Q, P)
<1> DEFINE c == SequenceTask(i)
           R == PushImmediate(Q, c)
           P == Notify(R, Waiting)
<1>1. c.item = i /\ i \in Items  BY DEF SequenceTask, Task, Shape
<1>2. CASE Q.sequences[i] = <<>>
  <2>1. Requeue(Q, c) = RemoveSequence(Q, i)  BY <1>1, <1>2 DEF Requeue
  <2> DEFINE S == RemoveSequence(Q, i)
  <2>2. /\ Shape(S, {}, steady) /\ Effect(Q, S, c, -1, 0, 0)
        /\ Kept(Q, S) /\ S.pending = Q.pending /\ S.immediate = Q.immediate
    BY <1>2, RemoveSequenceEffect
  <2> HIDE DEF S
  <2>3. Handled(Q, S)  BY <2>2 DEF Handled, Kept, Awake
  <2> QED  BY <2>1, <2>2, <2>3 DEF S
<1>3. CASE Q.sequences[i] # <<>>
  <2>1. Requeue(Q, c) = P  BY <1>1, <1>3 DEF Requeue
  <2>2. Shape(Q, {}, steady)  BY <1>3 DEF Shape
  <2> HIDE DEF c
  <2>3. Shape(R, {}, steady) /\ Effect(Q, R, c, -1, 0, 0) /\ Kept(Q, R)
    BY <1>1, <2>2, PushContainerEffect DEF c
  <2> HIDE DEF R
  <2>4. /\ Shape(P, {}, steady) /\ Effect(R, P, c, 0, 0, 0)
        /\ P.finished = R.finished /\ P.finished_num = R.finished_num
        /\ P.processing_num = R.processing_num
        /\ Awake(P, Waiting)
        /\ R.woken <= Cardinality(Waiting) => P.woken <= Cardinality(Waiting)
    BY <2>3, WaitingFinite, NotifyEffect
  <2> HIDE DEF P
  <2>5. Effect(Q, P, c, -1, 0, 0)
    <3>1. -1 \in Int /\ 0 \in Int /\ -1 + 0 = -1 /\ 0 + 0 = 0  OBVIOUS
    <3>2. Effect(Q, P, c, -1 + 0, 0 + 0, 0 + 0)
      BY <2>2, <2>3, <2>4, <3>1, EffectSum, ZenonT(40)
    <3> QED  BY <3>1, <3>2
  <2>6. Handled(Q, P)  BY <2>3, <2>4 DEF Handled, Kept
  <2> QED  BY <2>1, <2>4, <2>5, <2>6 DEF c
<1> QED  BY <1>2, <1>3

----------------------------------------------------------------------------
(* Taking tasks out of the queue. *)

\* a container is made for the sequence of a task, unless it is there
Fresh(Q, t) == IF t.item \in Registered(Q) THEN 0 ELSE 1

\* A serial value moves from the pending tasks to the sequence of its item.
LEMMA MoveFirstEffect ==
    ASSUME NEW Q, NEW E, NEW steady \in BOOLEAN, Shape(Q, E, steady),
           Q.pending # <<>>, NEW t, t = Head(Q.pending), t.type = "value_seq"
    PROVE  LET P == MoveFirst(Q)
           IN  /\ Shape(P, E, steady)
               /\ Effect(Q, P, t, Fresh(Q, t), 0, 0)
               /\ Kept(Q, P) /\ P.pending = Tail(Q.pending) /\ P.immediate = Q.immediate
               /\ P.pending_num = Q.pending_num
               /\ Registered(P) = Registered(Q) \cup {t.item}
<1> DEFINE R == AddSequence(Q, t)
           P == [R EXCEPT !.pending = Tail(@)]
           new == Fresh(Q, t)
<1>1. Q.pending \in Seq(PendingTasks) /\ t \in PendingTasks  BY DEF Shape
<1>2. t.item \in Items /\ t \in MemberTasks(t.item, steady)
  <2>1. t.item \in Roots /\ t.value \in Values /\ t.item \in Serial
    BY <1>1 DEF PendingTasks
  <2>2. t.item \notin Sharing  BY <2>1, RootsUnshared
  <2> QED  BY <1>1, <2>1, <2>2 DEF PendingTasks, MemberTasks, Tasks, Roots
<1>3. /\ R \in Fields(R) /\ Kept(Q, R) /\ R.pending = Q.pending
      /\ R.immediate = Q.immediate /\ R.pending_num = Q.pending_num
      /\ Registered(R) = Registered(Q) \cup {t.item}
  <2>1. /\ R \in Fields(R) /\ R.pending = Q.pending /\ R.immediate = Q.immediate
        /\ R.finished = Q.finished /\ R.pending_num = Q.pending_num
        /\ R.processing_num = Q.processing_num /\ R.finished_num = Q.finished_num
        /\ R.woken = Q.woken /\ Registered(R) = Registered(Q) \cup {t.item}
    BY AddSequenceFields, ZenonT(40)
  <2> HIDE DEF R
  <2> QED  BY <2>1 DEF Kept
<1>4. Shape(R, E, steady)  BY <1>2, AddSequenceShape
<1>5. Effect(Q, R, t, new, -1, 1)  BY <1>2, AddSequenceEffect DEF Fresh
<1> HIDE DEF R
<1>6. /\ P \in Fields(P) /\ P.sequences = R.sequences /\ P.pending_num = R.pending_num
      /\ P.pending = Tail(R.pending) /\ P.immediate = R.immediate /\ Kept(R, P)
  BY <1>3 DEF Fields, Kept
<1>7. MoveFirst(Q) = P  BY DEF MoveFirst, R
<1> HIDE DEF P
<1>8. Relisted(R, P, 0) /\ P.finished = R.finished
  BY <1>4, <1>6 DEF Relisted, Shape, Kept
<1>9. Shape(P, E, steady) /\ Effect(R, P, t, 0, 0 + 1, -1)
  BY <1>3, <1>4, <1>6, <1>8, PendingShrinks
<1>10. Effect(Q, P, t, new, 0, 0)
  <2>1. new \in Int /\ -1 \in Int /\ 0 \in Int /\ 1 \in Int /\ 0 + 1 \in Int
        /\ new + 0 = new /\ -1 + (0 + 1) = 0 /\ 1 + (-1) = 0
    BY DEF Fresh
  <2> HIDE DEF new
  <2>2. Effect(Q, P, t, new + 0, -1 + (0 + 1), 1 + (-1))
    BY <1>5, <1>9, <2>1, EffectSum, ZenonT(40)
  <2> QED  BY <2>1, <2>2
<1>11. Registered(P) = Registered(Q) \cup {t.item}  BY <1>3, <1>6 DEF Registered
<1>12. Kept(Q, P)  BY <1>3, <1>6 DEF Kept
<1> QED  BY <1>3, <1>6, <1>7, <1>9, <1>10, <1>11, <1>12

\* The pending task joins a sequence that is there already.
LEMMA MoveFirstKnown ==
    ASSUME NEW Q, NEW E, NEW steady \in BOOLEAN, Shape(Q, E, steady), NEW t,
           Q.pending # <<>>, Head(Q.pending).type = "value_seq",
           Head(Q.pending).item \in Registered(Q)
    PROVE  LET P == MoveFirst(Q)
           IN  /\ Shape(P, E, steady) /\ Effect(Q, P, t, 0, 0, 0)
               /\ Kept(Q, P) /\ P.pending = Tail(Q.pending) /\ P.immediate = Q.immediate
               /\ P.pending_num = Q.pending_num /\ Registered(P) = Registered(Q)
<1> DEFINE u == Head(Q.pending)
           P == MoveFirst(Q)
<1>1. u = Head(Q.pending) /\ u.type = "value_seq" /\ u.item \in Registered(Q) /\ Fresh(Q, u) = 0
  BY DEF Fresh
<1> HIDE DEF u
<1>2. /\ Shape(P, E, steady) /\ Effect(Q, P, u, Fresh(Q, u), 0, 0)
      /\ Kept(Q, P) /\ P.pending = Tail(Q.pending) /\ P.immediate = Q.immediate
      /\ P.pending_num = Q.pending_num /\ Registered(P) = Registered(Q) \cup {u.item}
  BY <1>1, MoveFirstEffect
<1> HIDE DEF P
<1>3. Registered(P) = Registered(Q)  BY <1>1, <1>2
<1>4. Effect(Q, P, u, 0, 0, 0)  BY <1>1, <1>2
<1>5. Effect(Q, P, t, 0, 0, 0)
  <2>1. 0 \in Int  OBVIOUS
  <2> QED  BY <1>4, <2>1, EffectOther, ZenonT(40)
<1> QED  BY <1>2, <1>3, <1>5 DEF P

\* P is Q after its first n pending tasks have gone to sequences.
Moves(Q, P, n) ==
    /\ Kept(Q, P) /\ P.immediate = Q.immediate /\ P.pending_num = Q.pending_num
    /\ Len(P.pending) = Len(Q.pending) - n
    /\ \A k \in 1 .. Len(Q.pending) - n : P.pending[k] = Q.pending[k + n]

MovesKnown(Q, P, E, steady, t, n) ==
    /\ Shape(P, E, steady) /\ Effect(Q, P, t, 0, 0, 0) /\ Moves(Q, P, n)
    /\ Registered(P) = Registered(Q)

\* the first n pending tasks are tasks of sequences that are there
Known(Q, n) ==
    \A k \in 1 .. n : Q.pending[k].type = "value_seq" /\ Q.pending[k].item \in Registered(Q)

Movable(f, Q, n) ==
    n \in Nat /\ n <= Len(Q.pending) /\ Known(Q, n) /\ Stepwise(f, Q, n)

\* The first n pending tasks go to sequences that are there.
LEMMA MoveRegistered ==
    ASSUME NEW Q, NEW E, NEW steady \in BOOLEAN, Shape(Q, E, steady), NEW t,
           NEW f, NEW n, Movable(f, Q, n)
    PROVE  MovesKnown(Q, f[n], E, steady, t, n)
<1> DEFINE Good(k) == /\ Shape(f[k], E, steady) /\ Effect(Q, f[k], t, 0, 0, 0)
                      /\ Moves(Q, f[k], k) /\ Registered(f[k]) = Registered(Q)
           S == {k \in Nat : Good(k)}
<1> USE DEF Movable, MovesKnown
<1>1. Q.pending \in Seq(PendingTasks) /\ Len(Q.pending) \in Nat  BY DEF Shape
<1>2. 0 \in S
  <2>1. Effect(Q, Q, t, 0, 0, 0) /\ Kept(Q, Q)  BY EffectNone DEF Kept
  <2>2. Moves(Q, Q, 0)  BY <1>1, <2>1 DEF Moves
  <2> QED  BY <2>1, <2>2 DEF Stepwise
<1>3. ASSUME NEW k \in Nat, k < n, k \in S PROVE k + 1 \in S
  <2> DEFINE A == f[k]
             B == MoveFirst(A)
             u == Head(A.pending)
             m == Len(Q.pending)
  <2>1. /\ Shape(A, E, steady) /\ Effect(Q, A, t, 0, 0, 0) /\ Moves(Q, A, k)
        /\ Registered(A) = Registered(Q)
    BY <1>3
  <2>2. f[k + 1] = B  BY <1>3 DEF Stepwise
  <2>3. k + 1 \in 1 .. n  BY <1>3
  <2> HIDE DEF A, S, Good
  <2>4. A.pending \in Seq(PendingTasks) /\ Len(A.pending) = m - k
    BY <2>1 DEF Shape, Moves
  <2>5. m \in Nat /\ k + 1 <= m /\ 1 \in 1 .. m - k  BY <1>1, <1>3
  <2>6. A.pending # <<>> /\ u = A.pending[1]  BY <2>4, <2>5
  <2>7. A.pending[1] = Q.pending[k + 1]
    <3>1. A.pending[1] = Q.pending[1 + k]  BY <2>1, <2>5 DEF Moves
    <3> QED  BY <3>1
  <2>8. u.type = "value_seq" /\ u.item \in Registered(A)
    BY <2>1, <2>3, <2>6, <2>7 DEF Known
  <2>9. /\ Shape(B, E, steady) /\ Effect(A, B, t, 0, 0, 0)
        /\ Kept(A, B) /\ B.pending = Tail(A.pending) /\ B.immediate = A.immediate
        /\ B.pending_num = A.pending_num /\ Registered(B) = Registered(A)
    BY <2>1, <2>6, <2>8, MoveFirstKnown
  <2> HIDE DEF B
  <2>10. Effect(Q, B, t, 0, 0, 0)
    <3>1. 0 \in Int /\ 0 + 0 = 0  OBVIOUS
    <3>2. Effect(Q, B, t, 0 + 0, 0 + 0, 0 + 0)
      BY <2>1, <2>9, <3>1, EffectSum, ZenonT(40)
    <3> QED  BY <3>1, <3>2
  <2>11. Moves(Q, B, k + 1)
    <3>1. Kept(Q, B) /\ B.immediate = Q.immediate /\ B.pending_num = Q.pending_num
      BY <2>1, <2>9 DEF Moves, Kept
    <3>2. Len(B.pending) = m - (k + 1)
          /\ \A j \in 1 .. m - (k + 1) : B.pending[j] = A.pending[j + 1]
      BY <2>4, <2>5, <2>6, <2>9
    <3>3. ASSUME NEW j \in 1 .. m - (k + 1)
          PROVE  B.pending[j] = Q.pending[j + (k + 1)]
      <4>1. j + 1 \in 1 .. m - k /\ (j + 1) + k = j + (k + 1)  BY <2>5, <3>3
      <4>2. A.pending[j + 1] = Q.pending[(j + 1) + k]  BY <2>1, <4>1 DEF Moves
      <4> QED  BY <3>2, <4>1, <4>2
    <3> QED  BY <3>1, <3>2, <3>3 DEF Moves
  <2>12. Good(k + 1)  BY <2>1, <2>2, <2>8, <2>9, <2>10, <2>11 DEF Good
  <2> QED  BY <2>12 DEF S
<1> HIDE DEF S
<1>4. n \in S  BY <1>2, <1>3, UpTo
<1> QED  BY <1>4 DEF S

\* The same for the first n pending tasks.
LEMMA MovedKnown ==
    ASSUME NEW Q, NEW E, NEW steady \in BOOLEAN, Shape(Q, E, steady), NEW t,
           NEW n \in Nat, n <= Len(Q.pending), Known(Q, n)
    PROVE  MovesKnown(Q, Moved(Q, n), E, steady, t, n)
<1>1. PICK f : Stepwise(f, Q, n) /\ f[n] = Moved(Q, n)
  BY MoveSteps
<1>2. MovesKnown(Q, f[n], E, steady, t, n)
  <2>1. Movable(f, Q, n)  BY <1>1 DEF Movable
  <2> QED  BY <2>1, MoveRegistered
<1> QED  BY <1>1, <1>2

\* The last one of them is the first task of a new sequence.
LEMMA MovedLast ==
    ASSUME NEW Q, NEW E, NEW steady \in BOOLEAN, Shape(Q, E, steady),
           NEW n \in Nat \ {0}, n <= Len(Q.pending), NEW t, t = Q.pending[n],
           Known(Q, n - 1),
           t.type = "value_seq", t.item \notin Registered(Q)
    PROVE  LET P == Moved(Q, n)
           IN  /\ Shape(P, E, steady) /\ Effect(Q, P, t, 1, 0, 0) /\ Kept(Q, P)
               /\ P.pending_num = Q.pending_num
<1>1. PICK f : Stepwise(f, Q, n) /\ f[n] = Moved(Q, n)
  BY MoveSteps
<1> DEFINE A == f[n - 1]
           B == MoveFirst(A)
<1>2. n - 1 \in Nat /\ n - 1 <= Len(Q.pending) /\ (n - 1) + 1 = n
      /\ \A k \in Nat : k < n - 1 => k < n
  <2>1. Len(Q.pending) \in Nat  BY Lists
  <2> QED  BY <2>1
<1>3. /\ Shape(A, E, steady) /\ Effect(Q, A, t, 0, 0, 0) /\ Moves(Q, A, n - 1)
      /\ Registered(A) = Registered(Q)
  <2>1. Stepwise(f, Q, n - 1)  BY <1>1, <1>2 DEF Stepwise
  <2> HIDE DEF A
  <2>2. Movable(f, Q, n - 1)  BY <1>2, <2>1 DEF Movable
  <2>3. MovesKnown(Q, f[n - 1], E, steady, t, n - 1)  BY <2>2, MoveRegistered
  <2> QED  BY <2>3 DEF A, MovesKnown
<1>4. f[n] = B
  <2>1. f[(n - 1) + 1] = B  BY <1>1, <1>2 DEF Stepwise
  <2> QED  BY <1>2, <2>1
<1> HIDE DEF A
<1>5. A.pending # <<>> /\ t = Head(A.pending)
  <2>1. Len(Q.pending) \in Nat /\ A.pending \in Seq(PendingTasks)  BY <1>3 DEF Shape
  <2>2. 1 \in 1 .. Len(Q.pending) - (n - 1) /\ 1 + (n - 1) = n  BY <1>2, <2>1
  <2>3. A.pending[1] = Q.pending[1 + (n - 1)] /\ Len(A.pending) = Len(Q.pending) - (n - 1)
    BY <1>3, <2>2 DEF Moves
  <2> QED  BY <1>2, <2>1, <2>2, <2>3
<1>6. Fresh(A, t) = 1  BY <1>3 DEF Fresh
<1>7. /\ Shape(B, E, steady) /\ Effect(A, B, t, Fresh(A, t), 0, 0) /\ Kept(A, B)
      /\ B.pending_num = A.pending_num
  BY <1>3, <1>5, MoveFirstEffect, ZenonT(40)
<1> HIDE DEF B
<1>8. Effect(Q, B, t, 1, 0, 0)
  <2>1. 0 \in Int /\ 1 \in Int /\ 0 + 0 = 0 /\ 0 + 1 = 1  OBVIOUS
  <2>2. Effect(A, B, t, 1, 0, 0)  BY <1>6, <1>7
  <2>3. Effect(Q, B, t, 0 + 1, 0 + 0, 0 + 0)
    BY <1>3, <2>1, <2>2, EffectSum, ZenonT(40)
  <2> QED  BY <2>1, <2>3
<1>9. Kept(Q, B) /\ B.pending_num = Q.pending_num  BY <1>3, <1>7 DEF Kept, Moves
<1> QED  BY <1>1, <1>4, <1>7, <1>8, <1>9

\* a worker has got a task
Started(Q) == [Q EXCEPT !.pending_num = @ - 1, !.processing_num = @ + 1]

\* A task is counted as processed instead of pending.
LEMMA StartedEffect ==
    ASSUME NEW Q, NEW E, NEW steady \in BOOLEAN, Shape(Q, E, steady), NEW t
    PROVE  LET P == Started(Q)
           IN  /\ Shape(P, E, steady) /\ Effect(Q, P, t, 0, -1, 0)
               /\ P.finished = Q.finished /\ P.finished_num = Q.finished_num
               /\ P.woken = Q.woken /\ P.processing_num = Q.processing_num + 1
               /\ P.pending_num = Q.pending_num - 1
<1> DEFINE P == Started(Q)
<1>1. /\ P \in Fields(P) /\ P.sequences = Q.sequences /\ P.pending_num = Q.pending_num - 1
      /\ P.pending = Q.pending /\ P.immediate = Q.immediate /\ P.finished = Q.finished
      /\ P.finished_num = Q.finished_num /\ P.processing_num = Q.processing_num + 1
      /\ P.woken = Q.woken
  BY DEF Started, Fields, Shape
<1>2. P.processing_num \in Int /\ P.finished_num \in Int /\ P.woken \in Nat
      /\ P.pending_num = Q.pending_num + (-1)
  BY <1>1 DEF Shape
<1> HIDE DEF P
<1>3. Relisted(Q, P, -1) /\ -1 \in Int  BY <1>1, <1>2 DEF Relisted
<1>4. Shape(P, E, steady) /\ Effect(Q, P, t, 0, -1, 0)
  BY <1>1, <1>3, CountersEffect
<1> QED  BY <1>1, <1>4 DEF P

\* A task that is no value: its count does not matter.
LEMMA EffectAny ==
    ASSUME NEW Q, NEW P, NEW t, NEW g, NEW s, NEW k, NEW m, Effect(Q, P, t, g, s, k),
           t.type \notin {"value", "value_seq"}
    PROVE  Effect(Q, P, t, g, s, m)
<1>1. \A i \in Roots, v \in Values : t \notin Own(i, v)  BY DEF Own
<1>2. \A i \in Roots, v \in Values :
         Inside(P, i, v) = Inside(Q, i, v) + (IF t \in Own(i, v) THEN m ELSE 0)
  BY <1>1 DEF Effect
<1> QED  BY <1>2 DEF Effect

\* What a worker does that looks for a task: it gets one, or it finds none and
\* nothing is left to be looked at.
Popped(Q, P, t, steady) ==
    /\ Shape(P, {}, steady)
    /\ P.finished = Q.finished /\ P.finished_num = Q.finished_num /\ P.woken = Q.woken
    /\ \/ /\ t = NoTask /\ P.pending = <<>> /\ P.immediate = <<>>
          /\ P.processing_num = Q.processing_num /\ Effect(Q, P, t, 0, 0, 0)
       \/ /\ t \in RunTasks(steady) /\ t # NoTask
          /\ P.processing_num = Q.processing_num + 1 /\ P.pending_num = Q.pending_num - 1
          /\ Effect(Q, P, t, Box(t), - Box(t), -1)

\* An immediate task, or a pending one that is not serial, is taken.
LEMMA TakenEffect ==
    ASSUME NEW Q, NEW steady \in BOOLEAN, Shape(Q, {}, steady),
           NEW R, NEW t \in RunTasks(steady), Shape(R, {}, steady),
           Effect(Q, R, t, Box(t), 1 - Box(t), -1), Kept(Q, R),
           R.pending_num = Q.pending_num
    PROVE  Popped(Q, Started(R), t, steady)
<1> DEFINE P == Started(R)
<1>1. /\ Shape(P, {}, steady) /\ Effect(R, P, t, 0, -1, 0)
      /\ P.finished = R.finished /\ P.finished_num = R.finished_num
      /\ P.woken = R.woken /\ P.processing_num = R.processing_num + 1
      /\ P.pending_num = R.pending_num - 1
  BY StartedEffect
<1> HIDE DEF P
<1>2. Effect(Q, P, t, Box(t), - Box(t), -1)
  <2>1. /\ Box(t) \in Int /\ 1 - Box(t) \in Int /\ -1 \in Int /\ 0 \in Int
        /\ Box(t) + 0 = Box(t) /\ 1 - Box(t) + (-1) = - Box(t) /\ -1 + 0 = -1
    BY DEF Box
  <2>2. Effect(Q, P, t, Box(t) + 0, 1 - Box(t) + (-1), -1 + 0)
    BY <1>1, <2>1, EffectSum, ZenonT(40)
  <2> QED  BY <2>1, <2>2
<1>3. t # NoTask  BY DEF RunTasks, NoTask, Task, SequenceTask
<1> QED  BY <1>1, <1>2, <1>3 DEF Popped, P, Kept

\* What the queue gives a worker, and what is left of it.
LEMMA PopNewEffect ==
    ASSUME NEW Q, NEW steady \in BOOLEAN, Shape(Q, {}, steady)
    PROVE  Popped(Q, PopNew(Q).queue, PopNew(Q).task, steady)
<1>1. /\ Q.pending \in Seq(PendingTasks) /\ Q.immediate \in Seq(RunTasks(steady))
      /\ Len(Q.pending) \in Nat /\ DOMAIN Q.pending = 1 .. Len(Q.pending)
      /\ Q \in Fields(Q)
      /\ Q.processing_num \in Int /\ Q.finished_num \in Int /\ Q.woken \in Nat
      /\ Q.pending_num \in Int
  BY DEF Shape
<1>2. CASE Q.immediate # <<>>
  <2> DEFINE t == Head(Q.immediate)
             R == [Q EXCEPT !.immediate = Tail(@)]
  <2>1. PopNew(Q) = [queue |-> Started(R), task |-> t]
    BY <1>2 DEF PopNew, Started
  <2>2. /\ R \in Fields(R) /\ R.sequences = Q.sequences /\ R.pending_num = Q.pending_num
        /\ R.pending = Q.pending /\ R.immediate = Tail(Q.immediate) /\ R.finished = Q.finished
        /\ R.finished_num = Q.finished_num /\ R.processing_num = Q.processing_num
        /\ R.woken = Q.woken
    BY <1>1 DEF Fields
  <2> HIDE DEF R
  <2>3. Relisted(Q, R, 0) /\ Kept(Q, R)  BY <1>1, <2>2 DEF Relisted, Kept
  <2>4. /\ t \in RunTasks(steady) /\ Shape(R, {}, steady)
        /\ Effect(Q, R, t, Box(t), 0 + 1 - Box(t), -1)
    BY <1>2, <2>2, <2>3, ImmediateShrinks
  <2>5. 0 + 1 - Box(t) = 1 - Box(t)  BY DEF Box
  <2> HIDE DEF t
  <2>6. Effect(Q, R, t, Box(t), 1 - Box(t), -1)  BY <2>4, <2>5
  <2>7. Popped(Q, Started(R), t, steady)  BY <2>2, <2>3, <2>4, <2>6, TakenEffect
  <2> QED  BY <2>1, <2>7
<1>3. CASE Q.immediate = <<>> /\ Startable(Q) = {}
  <2> DEFINE n == Len(Q.pending)
             R == Moved(Q, n)
  <2>1. PopNew(Q) = [queue |-> R, task |-> NoTask]  BY <1>3 DEF PopNew
  <2>2. Known(Q, n)  BY <1>1, <1>3 DEF Known, Startable
  <2>3. MovesKnown(Q, R, {}, steady, NoTask, n)
    BY <1>1, <2>2, MovedKnown
  <2> HIDE DEF R
  <2>4. Len(R.pending) = 0 /\ R.pending \in Seq(PendingTasks)
    BY <1>1, <2>3 DEF MovesKnown, Moves, Shape
  <2>5. R.pending = <<>> /\ R.immediate = <<>>
    BY <1>3, <2>3, <2>4 DEF MovesKnown, Moves
  <2>6. Popped(Q, R, NoTask, steady)
    BY <2>3, <2>5 DEF Popped, MovesKnown, Moves, Kept
  <2> QED  BY <2>1, <2>6
<1>4. CASE Q.immediate = <<>> /\ Startable(Q) # {}
  <2> DEFINE n == Min(Startable(Q))
             t == Q.pending[n]
  <2>1. n \in Startable(Q) /\ \A k \in Startable(Q) : n <= k
    <3>1. Startable(Q) \subseteq DOMAIN Q.pending  BY DEF Startable
    <3> QED  BY <1>1, <1>4, <3>1, FirstOf
  <2>2. /\ n \in 1 .. Len(Q.pending) /\ n \in Nat \ {0} /\ n <= Len(Q.pending)
        /\ n - 1 \in Nat /\ n - 1 <= Len(Q.pending)
        /\ t \in PendingTasks
        /\ t.type = "value_seq" => t.item \notin Registered(Q)
    <3> HIDE DEF n
    <3>1. n \in DOMAIN Q.pending /\ (t.type = "value_seq" => t.item \notin Registered(Q))
      BY <2>1 DEF Startable
    <3> QED  BY <1>1, <3>1
  <2>3. Known(Q, n - 1)
    <3> SUFFICES ASSUME NEW k \in 1 .. n - 1, k \notin Startable(Q)
                 PROVE  Q.pending[k].type = "value_seq" /\ Q.pending[k].item \in Registered(Q)
      BY <2>1, <2>2 DEF Known
    <3>1. k \in DOMAIN Q.pending  BY <1>1, <2>2
    <3> QED  BY <3>1 DEF Startable
  <2>4. CASE t.type = "value_seq"
    <3> DEFINE R == Moved(Q, n)
               c == SequenceTask(t.item)
    <3>1. PopNew(Q) = [queue |-> Started(R), task |-> c]
      BY <1>4, <2>4 DEF PopNew, Started
    <3>2. c \in RunTasks(steady) /\ c.type = "sequence" /\ c.item = t.item
      <4>1. t.item \in Items  BY <2>2 DEF PendingTasks, Roots
      <4> QED  BY <4>1, NewTasks
    <3> HIDE DEF n, t
    <3>3. t = Q.pending[n]  BY DEF t
    <3>4. /\ Shape(R, {}, steady) /\ Effect(Q, R, t, 1, 0, 0) /\ Kept(Q, R)
          /\ R.pending_num = Q.pending_num
      BY <2>2, <2>3, <2>4, <3>3, MovedLast
    <3> HIDE DEF R, c
    <3>5. Effect(Q, R, c, 1, 0, 0)
      <4>1. 0 \in Int /\ 1 \in Int  OBVIOUS
      <4> QED  BY <3>2, <3>4, <4>1, EffectOther, ZenonT(40)
    <3>6. Effect(Q, R, c, 1, 0, -1)  BY <3>2, <3>5, EffectAny
    <3>7. Box(c) = 1 /\ 1 - Box(c) = 0  BY <3>2 DEF Box
    <3>8. Effect(Q, R, c, Box(c), 1 - Box(c), -1)  BY <3>6, <3>7
    <3>9. Popped(Q, Started(R), c, steady)  BY <3>2, <3>4, <3>8, TakenEffect
    <3> QED  BY <3>1, <3>9
  <2>5. CASE t.type # "value_seq"
    <3> DEFINE A == Moved(Q, n - 1)
               R == [A EXCEPT !.pending = Tail(@)]
    <3>1. PopNew(Q) = [queue |-> Started(R), task |-> t]
      BY <1>4, <2>5 DEF PopNew, Started
    <3>2. t \in RunTasks(steady) /\ Box(t) = 0
      <4>1. t.item \in Roots /\ t.type = "value"  BY <2>2, <2>5 DEF PendingTasks
      <4>2. t.item \notin Sharing  BY <4>1, RootsUnshared
      <4> QED  BY <2>2, <4>1, <4>2 DEF PendingTasks, RunTasks, Box
    <3> HIDE DEF n, t
    <3>3. t = Q.pending[n]  BY DEF t
    <3>4. MovesKnown(Q, A, {}, steady, t, n - 1)
      BY <2>2, <2>3, MovedKnown
    <3> HIDE DEF A
    <3>5. Shape(A, {}, steady) /\ Effect(Q, A, t, 0, 0, 0) /\ Kept(Q, A)
          /\ A \in Fields(A) /\ A.pending \in Seq(PendingTasks)
      BY <3>4 DEF MovesKnown, Moves, Shape
    <3>6. A.pending # <<>> /\ t = Head(A.pending)
      <4>1. 1 \in 1 .. Len(Q.pending) - (n - 1) /\ 1 + (n - 1) = n  BY <1>1, <2>2
      <4>2. A.pending[1] = Q.pending[1 + (n - 1)] /\ Len(A.pending) = Len(Q.pending) - (n - 1)
        BY <3>4, <4>1 DEF Moves, MovesKnown
      <4> QED  BY <1>1, <2>2, <3>3, <3>5, <4>1, <4>2
    <3>7. /\ R \in Fields(R) /\ R.sequences = A.sequences /\ R.pending_num = A.pending_num
          /\ R.pending = Tail(A.pending) /\ R.immediate = A.immediate /\ R.finished = A.finished
          /\ R.finished_num = A.finished_num /\ R.processing_num = A.processing_num
          /\ R.woken = A.woken
      BY <3>5 DEF Fields
    <3> HIDE DEF R
    <3>8. Relisted(A, R, 0)  BY <3>5, <3>7 DEF Relisted, Shape
    <3>9. Shape(R, {}, steady) /\ Effect(A, R, t, 0, 0 + 1, -1)
      BY <3>5, <3>6, <3>7, <3>8, PendingShrinks
    <3>10. Effect(Q, R, t, Box(t), 1 - Box(t), -1)
      <4>1. /\ 0 \in Int /\ 1 \in Int /\ -1 \in Int /\ 0 + 1 \in Int
            /\ 0 + 0 = Box(t) /\ 0 + (0 + 1) = 1 - Box(t) /\ 0 + (-1) = -1
        BY <3>2
      <4>2. Effect(Q, R, t, 0 + 0, 0 + (0 + 1), 0 + (-1))
        BY <3>5, <3>9, <4>1, EffectSum, ZenonT(40)
      <4> QED  BY <4>1, <4>2
    <3>11. Kept(Q, R) /\ R.pending_num = Q.pending_num
      BY <3>4, <3>5, <3>7 DEF Kept, MovesKnown, Moves
    <3>12. Popped(Q, Started(R), t, steady)  BY <3>2, <3>9, <3>10, <3>11, TakenEffect
    <3> QED  BY <3>1, <3>12
  <2> QED  BY <2>4, <2>5
<1> QED  BY <1>2, <1>3, <1>4

----------------------------------------------------------------------------
(* The tasks that workers have. *)

WorkerStates == [state : {"new", "waiting", "busy", "ended"}, task : Tasks]

BusyWith(wk, S) == {w \in Workers : wk[w].state = "busy" /\ wk[w].task \in S}
Holding(wk, S) == Cardinality(BusyWith(wk, S))

\* The workers that have tasks of S are finitely many.
LEMMA HoldingFinite ==
    ASSUME NEW wk, NEW S
    PROVE  IsFiniteSet(BusyWith(wk, S)) /\ Holding(wk, S) \in Nat
<1>1. IsFiniteSet(Workers) /\ BusyWith(wk, S) \in SUBSET Workers
  BY PreprocAssumption DEF BusyWith
<1>2. IsFiniteSet(BusyWith(wk, S))  BY <1>1, FS_Subset
<1> QED  BY <1>2, FS_CardinalityType DEF Holding

\* whether a worker in state r has a task of S
Has(r, S) == IF r.state = "busy" /\ r.task \in S THEN 1 ELSE 0

\* The state of one worker changes.
LEMMA HoldingChange ==
    ASSUME NEW wk \in [Workers -> WorkerStates], NEW w \in Workers, NEW r, NEW S
    PROVE  Holding([wk EXCEPT ![w] = r], S) = Holding(wk, S) + Has(r, S) - Has(wk[w], S)
<1> DEFINE next == [wk EXCEPT ![w] = r]
           others == BusyWith(wk, S) \ {w}
<1>1. \A x \in Workers : next[x] = IF x = w THEN r ELSE wk[x]  OBVIOUS
<1>2. BusyWith(next, S) = IF Has(r, S) = 1 THEN others \cup {w} ELSE others
  <2> HIDE DEF next
  <2> QED  BY <1>1 DEF BusyWith, Has
<1>3. IsFiniteSet(BusyWith(wk, S)) /\ Holding(wk, S) \in Nat  BY HoldingFinite
<1>4. w \in BusyWith(wk, S) <=> Has(wk[w], S) = 1  BY DEF BusyWith, Has
<1>5. /\ IsFiniteSet(others)
      /\ Cardinality(others) = IF w \in BusyWith(wk, S) THEN Holding(wk, S) - 1 ELSE Holding(wk, S)
  BY <1>3, FS_RemoveElement DEF Holding
<1>6. Cardinality(others \cup {w}) = Cardinality(others) + 1
  <2>1. w \notin others  OBVIOUS
  <2> HIDE DEF others
  <2> QED  BY <1>5, <2>1, FS_AddElement
<1>7. Has(r, S) \in {0, 1} /\ Has(wk[w], S) \in {0, 1}  BY DEF Has
<1>8. Holding(next, S) = Cardinality(others) + Has(r, S)
  <2>1. Cardinality(others) \in Nat  BY <1>5, FS_CardinalityType
  <2> HIDE DEF next, others
  <2> QED  BY <1>2, <1>6, <1>7, <2>1 DEF Holding
<1> HIDE DEF next, others
<1> QED  BY <1>3, <1>4, <1>5, <1>7, <1>8 DEF next

Balanced(Q, wk) ==
    /\ \A i \in Items : Gap(Q, i) = Holding(wk, {SequenceTask(i)})
    /\ Gaps(Q) = Holding(wk, Containers)
    /\ Surplus(Q) = - Holding(wk, Containers)
    /\ Q.processing_num = Holding(wk, Tasks)
    /\ Q.finished_num = Len(Q.finished)

\* The values in the queue or with the workers stay the same.
SameInside(Q, wk, P, next) ==
    \A i \in Roots, v \in Values :
        Inside(P, i, v) + Holding(next, Own(i, v)) = Inside(Q, i, v) + Holding(wk, Own(i, v))

\* A worker has no task, or task t, while the queue is Q.
HasNone(Q, wk, w, steady) ==
    /\ Shape(Q, {}, steady) /\ Balanced(Q, wk) /\ wk \in [Workers -> WorkerStates]
    /\ w \in Workers /\ wk[w].state # "busy"
HasTask(Q, wk, w, t, steady) ==
    /\ Shape(Q, {}, steady) /\ Balanced(Q, wk) /\ wk \in [Workers -> WorkerStates]
    /\ w \in Workers /\ wk[w].state = "busy" /\ wk[w].task = t /\ t \in RunTasks(steady)

\* Task t has left the queue for a worker, or is back from one.
Left(Q, P, t, steady) ==
    /\ t \in RunTasks(steady) /\ Effect(Q, P, t, Box(t), - Box(t), -1)
    /\ P.processing_num = Q.processing_num + 1
    /\ P.finished_num = Q.finished_num /\ P.finished = Q.finished
Back(Q, P, t) ==
    /\ Effect(Q, P, t, - Box(t), Box(t), 1)
    /\ P.processing_num = Q.processing_num - 1
    /\ P.finished_num = Q.finished_num + 1 /\ Len(P.finished) = Len(Q.finished) + 1

\* A task of a list, and what it counts for.
LEMMA TaskCounts ==
    ASSUME NEW steady \in BOOLEAN, NEW t \in RunTasks(steady), NEW r,
           r.state = "busy", r.task = t
    PROVE  /\ Has(r, Containers) = Box(t) /\ Has(r, Tasks) = 1
           /\ \A i \in Items : Has(r, {SequenceTask(i)}) = IF i = t.item THEN Box(t) ELSE 0
           /\ \A i \in Roots, v \in Values : Has(r, Own(i, v)) = IF t \in Own(i, v) THEN 1 ELSE 0
<1>1. t \in Tasks  BY DEF RunTasks
<1>2. t \in Containers <=> t.type = "sequence"  BY <1>1 DEF Containers
<1>3. \A i \in Items : t \in {SequenceTask(i)} <=> t.type = "sequence" /\ i = t.item
  BY DEF RunTasks, SequenceTask, Task
<1> QED  BY <1>1, <1>2, <1>3 DEF Has, Box

\* A worker without a task takes one that has left the queue.
LEMMA Takes ==
    ASSUME NEW Q, NEW P, NEW steady \in BOOLEAN, NEW wk, NEW w,
           HasNone(Q, wk, w, steady), NEW t, Left(Q, P, t, steady),
           NEW r, r.state = "busy", r.task = t
    PROVE  /\ Balanced(P, [wk EXCEPT ![w] = r])
           /\ SameInside(Q, wk, P, [wk EXCEPT ![w] = r])
<1> USE DEF HasNone, Left
<1> DEFINE next == [wk EXCEPT ![w] = r]
<1>1. \A S : Holding(next, S) = Holding(wk, S) + Has(r, S) /\ Holding(wk, S) \in Nat
  <2> TAKE S
  <2>1. Has(wk[w], S) = 0 /\ Has(r, S) \in {0, 1}  BY DEF Has
  <2>2. Holding(next, S) = Holding(wk, S) + Has(r, S) - Has(wk[w], S)  BY HoldingChange
  <2>3. Holding(wk, S) \in Nat  BY HoldingFinite
  <2> QED  BY <2>1, <2>2, <2>3
<1>2. /\ Has(r, Containers) = Box(t) /\ Has(r, Tasks) = 1
      /\ \A i \in Items : Has(r, {SequenceTask(i)}) = IF i = t.item THEN Box(t) ELSE 0
      /\ \A i \in Roots, v \in Values : Has(r, Own(i, v)) = IF t \in Own(i, v) THEN 1 ELSE 0
  BY TaskCounts
<1>3. /\ \A i \in Items : Gap(Q, i) \in Int
      /\ Gaps(Q) \in Int /\ Surplus(Q) \in Int
      /\ \A i \in Roots, v \in Values : Inside(Q, i, v) \in Nat
  BY Measures
<1> HIDE DEF next
<1>4. Box(t) \in Int  BY DEF Box
<1>5. \A i \in Items : Gap(P, i) = Holding(next, {SequenceTask(i)})
  BY <1>1, <1>2 DEF Balanced, Effect
<1>6. Gaps(P) = Holding(next, Containers)
  BY <1>1, <1>2 DEF Balanced, Effect
<1>7. Surplus(P) = - Holding(next, Containers)
  <2>1. Surplus(P) = Surplus(Q) + (- Box(t)) /\ Surplus(Q) = - Holding(wk, Containers)
    BY DEF Effect, Balanced
  <2>2. Holding(next, Containers) = Holding(wk, Containers) + Box(t)
        /\ Holding(wk, Containers) \in Nat
    BY <1>1, <1>2
  <2> QED  BY <1>4, <2>1, <2>2
<1>8. P.processing_num = Holding(next, Tasks)
  BY <1>1, <1>2 DEF Balanced
<1>9. ASSUME NEW i \in Roots, NEW v \in Values
      PROVE  Inside(P, i, v) + Holding(next, Own(i, v))
               = Inside(Q, i, v) + Holding(wk, Own(i, v))
  <2>1. Inside(P, i, v) = Inside(Q, i, v) + (IF t \in Own(i, v) THEN -1 ELSE 0)  BY DEF Effect
  <2>2. Holding(next, Own(i, v)) = Holding(wk, Own(i, v)) + (IF t \in Own(i, v) THEN 1 ELSE 0)
        /\ Holding(wk, Own(i, v)) \in Nat /\ Inside(Q, i, v) \in Nat
    BY <1>1, <1>2, <1>3
  <2> QED  BY <2>1, <2>2
<1> QED  BY <1>5, <1>6, <1>7, <1>8, <1>9 DEF Balanced, SameInside, next

\* A worker puts its task back into the queue.
LEMMA Gives ==
    ASSUME NEW Q, NEW P, NEW steady \in BOOLEAN, NEW wk, NEW w, NEW t,
           HasTask(Q, wk, w, t, steady), Back(Q, P, t),
           NEW r, r.state # "busy"
    PROVE  /\ Balanced(P, [wk EXCEPT ![w] = r])
           /\ SameInside(Q, wk, P, [wk EXCEPT ![w] = r])
<1> USE DEF HasTask, Back
<1> DEFINE next == [wk EXCEPT ![w] = r]
           old == wk[w]
<1>1. \A S : Holding(next, S) = Holding(wk, S) - Has(old, S) /\ Holding(wk, S) \in Nat
  <2> TAKE S
  <2>1. Has(r, S) = 0 /\ Has(old, S) \in {0, 1}  BY DEF Has
  <2>2. Holding(next, S) = Holding(wk, S) + Has(r, S) - Has(old, S)  BY HoldingChange
  <2>3. Holding(wk, S) \in Nat  BY HoldingFinite
  <2> QED  BY <2>1, <2>2, <2>3
<1>2. /\ Has(old, Containers) = Box(t) /\ Has(old, Tasks) = 1
      /\ \A i \in Items : Has(old, {SequenceTask(i)}) = IF i = t.item THEN Box(t) ELSE 0
      /\ \A i \in Roots, v \in Values : Has(old, Own(i, v)) = IF t \in Own(i, v) THEN 1 ELSE 0
  BY TaskCounts
<1>3. /\ \A i \in Items : Gap(Q, i) \in Int
      /\ Gaps(Q) \in Int /\ Surplus(Q) \in Int
      /\ \A i \in Roots, v \in Values : Inside(Q, i, v) \in Nat
  BY Measures
<1> HIDE DEF next, old
<1>4. Box(t) \in Int  BY DEF Box
<1>5. \A i \in Items : Gap(P, i) = Holding(next, {SequenceTask(i)})
  <2> TAKE i \in Items
  <2>1. Gap(P, i) = Gap(Q, i) + (IF i = t.item THEN - Box(t) ELSE 0)
        /\ Gap(Q, i) = Holding(wk, {SequenceTask(i)})
    BY DEF Effect, Balanced
  <2>2. Holding(next, {SequenceTask(i)})
          = Holding(wk, {SequenceTask(i)}) - (IF i = t.item THEN Box(t) ELSE 0)
        /\ Holding(wk, {SequenceTask(i)}) \in Nat
    BY <1>1, <1>2
  <2> QED  BY <1>4, <2>1, <2>2
<1>6. Gaps(P) = Holding(next, Containers)
  <2>1. Gaps(P) = Gaps(Q) + (- Box(t)) /\ Gaps(Q) = Holding(wk, Containers)
    BY DEF Effect, Balanced
  <2> QED  BY <1>1, <1>2, <1>4, <2>1
<1>7. Surplus(P) = - Holding(next, Containers)
  <2>1. Surplus(P) = Surplus(Q) + Box(t) /\ Surplus(Q) = - Holding(wk, Containers)
    BY DEF Effect, Balanced
  <2>2. Holding(next, Containers) = Holding(wk, Containers) - Box(t)
        /\ Holding(wk, Containers) \in Nat
    BY <1>1, <1>2
  <2> QED  BY <1>4, <2>1, <2>2
<1>8. P.processing_num = Holding(next, Tasks) /\ P.finished_num = Len(P.finished)
  BY <1>1, <1>2 DEF Balanced
<1>9. ASSUME NEW i \in Roots, NEW v \in Values
      PROVE  Inside(P, i, v) + Holding(next, Own(i, v))
               = Inside(Q, i, v) + Holding(wk, Own(i, v))
  <2>1. Inside(P, i, v) = Inside(Q, i, v) + (IF t \in Own(i, v) THEN 1 ELSE 0)  BY DEF Effect
  <2>2. Holding(next, Own(i, v)) = Holding(wk, Own(i, v)) - (IF t \in Own(i, v) THEN 1 ELSE 0)
        /\ Holding(wk, Own(i, v)) \in Nat /\ Inside(Q, i, v) \in Nat
    BY <1>1, <1>2, <1>3
  <2> QED  BY <2>1, <2>2
<1> QED  BY <1>5, <1>6, <1>7, <1>8, <1>9 DEF Balanced, SameInside, next

----------------------------------------------------------------------------
(* What a worker does between taking the mutex and letting go of it. *)

\* The counter of pending tasks covers the lists, so it does not wrap around.
LEMMA PendingCovers ==
    ASSUME NEW Q, NEW steady \in BOOLEAN, Shape(Q, {}, steady),
           NEW wk, Balanced(Q, wk)
    PROVE  /\ Q.pending_num \in Nat
           /\ Q.pending_num >= Len(Q.pending) + Len(Q.immediate)
<1> DEFINE f == [i \in Registered(Q) |-> <<i, 1>>]
<1>1. Cardinality(Registered(Q)) <= Cardinality(Places(Q))
  <2>1. \A i \in Registered(Q) : f[i] \in Places(Q)
    <3> TAKE i \in Registered(Q)
    <3>1. Q.sequences[i] \in Seq(Tasks) /\ Q.sequences[i] # <<>>  BY DEF Shape
    <3>2. 1 \in DOMAIN Q.sequences[i]
      <4> DEFINE s == Q.sequences[i]
      <4>1. s \in Seq(Tasks) /\ s # <<>>  BY <3>1
      <4> HIDE DEF s
      <4>2. 1 \in DOMAIN s  BY <4>1
      <4> QED  BY <4>2 DEF s
    <3>3. f[i] = <<i, 1>>  OBVIOUS
    <3>4. <<i, 1>> \in {i} \X DOMAIN Q.sequences[i]  BY <3>2
    <3> QED  BY <3>3, <3>4 DEF Places
  <2>2. \A i, j \in Registered(Q) : f[i] = f[j] => i = j  OBVIOUS
  <2>3. f \in [Registered(Q) -> Places(Q)]  BY <2>1
  <2> HIDE DEF f
  <2>4. f \in Injection(Registered(Q), Places(Q))
    BY <2>2, <2>3 DEF Injection, IsInjective
  <2>5. IsFiniteSet(Places(Q))  BY DEF Shape
  <2> QED  BY <2>4, <2>5, FS_Injection
<1> DEFINE n == Q.pending_num
           a == Len(Q.pending)
           b == Len(Q.immediate)
           c == Count(Q.immediate, Containers)
           d == Cardinality(Places(Q))
           e == Count(Q.finished, Containers)
           g == Cardinality(Registered(Q))
           h == Holding(wk, Containers)
<1>2. n \in Int /\ a \in Nat /\ b \in Nat /\ c \in Nat /\ d \in Nat /\ e \in Nat /\ g \in Nat
  BY Lists
<1>3. h \in Nat  BY HoldingFinite
<1>4. n - (a + b - c + d - e) = - h /\ g - c - e = h
  BY DEF Balanced, Surplus, Gaps
<1> HIDE DEF n, a, b, c, d, e, g, h
<1>5. g <= d  BY <1>1 DEF g, d
<1>6. n \in Nat /\ n >= a + b  BY <1>2, <1>3, <1>4, <1>5
<1> QED  BY <1>6 DEF n, a, b

\* An empty queue gives no task.
LEMMA PopNewNone ==
    ASSUME NEW Q, Q.pending = <<>>, Q.immediate = <<>>
    PROVE  PopNew(Q).task = NoTask
<1>1. Startable(Q) = {}  BY DEF Startable
<1> QED  BY <1>1 DEF PopNew

\* The container that a worker has belongs to a sequence.
LEMMA HeldRegistered ==
    ASSUME NEW Q, NEW steady \in BOOLEAN, Shape(Q, {}, steady),
           NEW wk, Balanced(Q, wk), NEW i \in Items,
           NEW w \in Workers, wk[w].state = "busy", wk[w].task = SequenceTask(i)
    PROVE  i \in Registered(Q)
<1>1. w \in BusyWith(wk, {SequenceTask(i)})  BY DEF BusyWith
<1>2. IsFiniteSet(BusyWith(wk, {SequenceTask(i)})) /\ Holding(wk, {SequenceTask(i)}) \in Nat
  BY HoldingFinite
<1>3. Holding(wk, {SequenceTask(i)}) # 0  BY <1>1, <1>2, FS_EmptySet DEF Holding
<1>4. Count(Q.immediate, {SequenceTask(i)}) \in Nat /\ Count(Q.finished, {SequenceTask(i)}) \in Nat
  BY Lists
<1>5. Gap(Q, i) = Holding(wk, {SequenceTask(i)})  BY DEF Balanced
<1> QED  BY <1>2, <1>3, <1>4, <1>5 DEF Gap

\* A task joins the finished ones.
LEMMA PushFinishedEffect ==
    ASSUME NEW Q, NEW steady \in BOOLEAN, Shape(Q, {}, steady), NEW t \in RunTasks(steady)
    PROVE  LET P == PushFinished(Q, t)
           IN  /\ Shape(P, {}, steady) /\ Back(Q, P, t)
               /\ P.pending = Q.pending /\ P.immediate = Q.immediate
               /\ P.pending_num = Q.pending_num /\ P.woken = Q.woken
<1> DEFINE P == PushFinished(Q, t)
<1>1. /\ Q \in Fields(Q) /\ Q.processing_num \in Int /\ Q.finished_num \in Int
      /\ Q.pending_num \in Int /\ Q.woken \in Nat /\ Q.finished \in Seq(RunTasks(steady))
  BY DEF Shape
<1>2. /\ P \in Fields(P) /\ P.sequences = Q.sequences /\ P.pending_num = Q.pending_num
      /\ P.pending = Q.pending /\ P.immediate = Q.immediate
      /\ P.finished = Append(Q.finished, t)
      /\ P.finished_num = Q.finished_num + 1 /\ P.processing_num = Q.processing_num - 1
      /\ P.woken = Q.woken
  BY <1>1 DEF Fields, PushFinished
<1> HIDE DEF P
<1>3. Relisted(Q, P, 0)  BY <1>1, <1>2 DEF Relisted
<1>4. Shape(P, {}, steady) /\ Effect(Q, P, t, - Box(t), 0 + Box(t), 1)
  <2>1. 0 \in Int  OBVIOUS
  <2> QED  BY <1>2, <1>3, <2>1, FinishedGrows, ZenonT(40)
<1>5. 0 + Box(t) = Box(t)  BY DEF Box
<1>6. Len(P.finished) = Len(Q.finished) + 1  BY <1>1, <1>2
<1> QED  BY <1>2, <1>4, <1>5, <1>6 DEF P, Back

\* The steps have run: the task joins the finished ones, and the queue is
\* otherwise as it was.
PutBack(Q, P, t, steady) ==
    /\ Shape(P, {}, steady) /\ Back(Q, P, t)
    /\ P.pending = Q.pending /\ P.immediate = Q.immediate /\ P.woken = Q.woken

\* A worker is done with its task: the task is back in the queue.
LEMMA ProcessedEffect ==
    ASSUME NEW Q, NEW wk, NEW w, NEW t, NEW steady \in BOOLEAN,
           HasTask(Q, wk, w, t, steady), NEW result \in BOOLEAN
    PROVE  PutBack(Q, Processed(Q, t, result), t, steady)
<1>1. CASE t.type = "sequence"
  <2> DEFINE i == t.item
             R == ResultSet(Q, i, result)
             P == PushFinished(R, t)
  <2>1. Processed(Q, t, result) = P  BY <1>1 DEF Processed, ResultSet
  <2>2. i \in Items /\ t = SequenceTask(i)  BY <1>1 DEF HasTask, RunTasks, Tasks
  <2>3. i \in Registered(Q) /\ Q.sequences[i] # <<>>
    <3>1. i \in Registered(Q)
      <4> HIDE DEF i
      <4> QED  BY <2>2, HeldRegistered DEF HasTask
    <3> QED  BY <3>1 DEF HasTask, Shape
  <2> HIDE DEF i
  <2>4. Shape(Q, {}, steady) /\ t \in RunTasks(steady)  BY DEF HasTask
  <2>5. /\ Shape(R, {}, steady) /\ Effect(Q, R, t, 0, 0, 0) /\ Kept(Q, R)
        /\ R.pending = Q.pending /\ R.immediate = Q.immediate
        /\ R.pending_num = Q.pending_num
    BY <2>3, <2>4, ResultSetEffect, ZenonT(40)
  <2> HIDE DEF R
  <2>6. /\ Shape(P, {}, steady) /\ Back(R, P, t)
        /\ P.pending = R.pending /\ P.immediate = R.immediate
        /\ P.pending_num = R.pending_num /\ P.woken = R.woken
    BY <2>4, <2>5, PushFinishedEffect
  <2> HIDE DEF P
  <2>7. Effect(Q, P, t, - Box(t), Box(t), 1)
    <3>1. 1 \in Int /\ - Box(t) \in Int /\ Box(t) \in Int
      <4>1. Box(t) \in Int  BY DEF Box
      <4> QED  BY <4>1
    <3>2. Effect(R, P, t, - Box(t), Box(t), 1)  BY <2>6 DEF Back
    <3> QED  BY <2>4, <2>5, <3>1, <3>2, EffectThen, ZenonT(40)
  <2>8. PutBack(Q, P, t, steady)
    BY <2>5, <2>6, <2>7 DEF Kept, Back, PutBack
  <2> QED  BY <2>1, <2>8
<1>2. CASE t.type # "sequence"
  <2> DEFINE u == [t EXCEPT !.result = result]
             P == PushFinished(Q, u)
  <2>1. Processed(Q, t, result) = P  BY <1>2 DEF Processed
  <2>2. t \in Tasks /\ t \in RunTasks(steady) /\ Shape(Q, {}, steady)
    BY DEF HasTask, RunTasks
  <2>3. /\ u \in Tasks /\ u.type = t.type /\ u.item = t.item /\ u.primary = t.primary
        /\ u.value = t.value
    BY <2>2 DEF Tasks
  <2> HIDE DEF u
  <2>4. u \in RunTasks(steady)  BY <1>2, <2>2, <2>3 DEF RunTasks
  <2>5. /\ Shape(P, {}, steady) /\ Back(Q, P, u)
        /\ P.pending = Q.pending /\ P.immediate = Q.immediate
        /\ P.pending_num = Q.pending_num /\ P.woken = Q.woken
    BY <2>2, <2>4, PushFinishedEffect
  <2> HIDE DEF P
  <2>6. Effect(Q, P, t, - Box(t), Box(t), 1)
    <3>1. Box(u) = Box(t)  BY <2>3 DEF Box
    <3>2. \A i, v : u \in Own(i, v) <=> t \in Own(i, v)  BY <2>2, <2>3 DEF Own
    <3>3. Effect(Q, P, u, - Box(t), Box(t), 1)  BY <2>5, <3>1 DEF Back
    <3> QED  BY <2>3, <3>2, <3>3 DEF Effect
  <2>7. PutBack(Q, P, t, steady)
    BY <2>5, <2>6 DEF Back, PutBack
  <2> QED  BY <2>1, <2>7
<1> QED  BY <1>1, <1>2

\* A worker that has no task goes on without one.
LEMMA Idles ==
    ASSUME NEW Q, NEW P, NEW steady \in BOOLEAN, NEW wk, NEW w,
           HasNone(Q, wk, w, steady), NEW t, Effect(Q, P, t, 0, 0, 0),
           P.processing_num = Q.processing_num,
           P.finished_num = Q.finished_num, P.finished = Q.finished,
           NEW r, r.state # "busy"
    PROVE  /\ Balanced(P, [wk EXCEPT ![w] = r])
           /\ SameInside(Q, wk, P, [wk EXCEPT ![w] = r])
<1> USE DEF HasNone
<1> DEFINE next == [wk EXCEPT ![w] = r]
<1>1. \A S : Holding(next, S) = Holding(wk, S) /\ Holding(wk, S) \in Nat
  <2> TAKE S
  <2>1. Has(wk[w], S) = 0 /\ Has(r, S) = 0  BY DEF Has
  <2>2. Holding(next, S) = Holding(wk, S) + Has(r, S) - Has(wk[w], S)  BY HoldingChange
  <2>3. Holding(wk, S) \in Nat  BY HoldingFinite
  <2> QED  BY <2>1, <2>2, <2>3
<1>2. /\ \A i \in Items : Gap(Q, i) \in Int
      /\ Gaps(Q) \in Int /\ Surplus(Q) \in Int
      /\ \A i \in Roots, v \in Values : Inside(Q, i, v) \in Nat
  BY Measures
<1> HIDE DEF next
<1>3. /\ \A i \in Items : Gap(P, i) = Gap(Q, i)
      /\ Gaps(P) = Gaps(Q) /\ Surplus(P) = Surplus(Q)
      /\ \A i \in Roots, v \in Values : Inside(P, i, v) = Inside(Q, i, v)
  BY <1>2 DEF Effect
<1>4. Balanced(P, next)  BY <1>1, <1>3 DEF Balanced
<1>5. SameInside(Q, wk, P, next)  BY <1>1, <1>3 DEF SameInside
<1> QED  BY <1>4, <1>5 DEF next

\* the states of the other workers
SameBut(wk, w) == \A r : [wk EXCEPT ![w] = r] = [worker EXCEPT ![w] = r]

\* What a worker without a task has come to when it lets go of the mutex.
Looped(Q, wk, w, P, next, steady) ==
    /\ Shape(P, {}, steady) /\ Balanced(P, next) /\ SameInside(Q, wk, P, next)
    /\ P.woken = Q.woken
    /\ \/ next[w].state = "waiting" /\ P.pending = <<>> /\ P.immediate = <<>>
       \/ /\ next[w].state = "busy" /\ next[w].task \in RunTasks(steady)
          /\ P.pending_num = Q.pending_num - 1
          /\ Q.pending # <<>> \/ Q.immediate # <<>>

Turned(Q, wk, w, steady) ==
    /\ Looped(Q, wk, w, q', worker', steady)
    /\ \E r \in WorkerStates : worker' = [worker EXCEPT ![w] = r]

\* A worker without a task ends, waits or takes a task: all balances stay.
LEMMA LoopEffect ==
    ASSUME NEW Q, NEW steady \in BOOLEAN, NEW wk, NEW w, HasNone(Q, wk, w, steady),
           SameBut(wk, w),
           ~Stopping, Loop(w, Q)
    PROVE  Turned(Q, wk, w, steady)
<1> DEFINE P == PopNew(Q).queue
           t == PopNew(Q).task
           r == IF t = NoTask THEN [state |-> "waiting", task |-> NoTask]
                              ELSE [state |-> "busy", task |-> t]
           next == [wk EXCEPT ![w] = r]
<1>1. Popped(Q, P, t, steady)
  <2>1. Shape(Q, {}, steady)  BY DEF HasNone
  <2> QED  BY <2>1, PopNewEffect
<1>2. q' = P /\ worker' = [worker EXCEPT ![w] = r]  BY DEF Loop
<1>3. worker' = next  BY <1>2 DEF SameBut
<1>4. next[w] = r  BY DEF HasNone
<1> HIDE DEF P, next
<1>5. CASE t = NoTask
  <2>1. r = [state |-> "waiting", task |-> NoTask]  BY <1>5
  <2> HIDE DEF t, r
  <2>2. r.state = "waiting" /\ r \in WorkerStates
    <3>1. NoTask \in Tasks  BY NewTasks
    <3> HIDE DEF NoTask
    <3> QED  BY <2>1, <3>1 DEF WorkerStates
  <2>3. /\ Shape(P, {}, steady)
        /\ P.finished = Q.finished /\ P.finished_num = Q.finished_num /\ P.woken = Q.woken
        /\ P.pending = <<>> /\ P.immediate = <<>>
        /\ P.processing_num = Q.processing_num /\ Effect(Q, P, t, 0, 0, 0)
    BY <1>1, <1>5 DEF Popped
  <2>4. Balanced(P, next) /\ SameInside(Q, wk, P, next)
    <3>1. r.state # "busy"  BY <2>2
    <3>2. /\ Balanced(P, [wk EXCEPT ![w] = r])
          /\ SameInside(Q, wk, P, [wk EXCEPT ![w] = r])
      BY <2>3, <3>1, Idles, ZenonT(40)
    <3> QED  BY <3>2 DEF next
  <2>5. Looped(Q, wk, w, P, next, steady)  BY <1>4, <2>2, <2>3, <2>4 DEF Looped
  <2> QED  BY <1>2, <1>3, <2>2, <2>5 DEF Turned
<1>6. CASE t # NoTask
  <2>1. r = [state |-> "busy", task |-> t]  BY <1>6
  <2>2. t \in RunTasks(steady)  BY <1>1, <1>6 DEF Popped
  <2>3. Q.pending # <<>> \/ Q.immediate # <<>>  BY <1>6, PopNewNone
  <2> HIDE DEF t, r
  <2>4. r.state = "busy" /\ r.task = t /\ r \in WorkerStates
    BY <2>1, <2>2, RunTaskTypes DEF WorkerStates
  <2>5. Left(Q, P, t, steady) /\ Shape(P, {}, steady) /\ P.woken = Q.woken
        /\ P.pending_num = Q.pending_num - 1
    BY <1>1, <1>6 DEF Popped, Left
  <2>6. Balanced(P, next) /\ SameInside(Q, wk, P, next)
    <3>1. /\ Balanced(P, [wk EXCEPT ![w] = r])
          /\ SameInside(Q, wk, P, [wk EXCEPT ![w] = r])
      BY <2>4, <2>5, Takes, ZenonT(40)
    <3> QED  BY <3>1 DEF next
  <2>7. Looped(Q, wk, w, P, next, steady)
    BY <1>4, <2>2, <2>3, <2>4, <2>5, <2>6 DEF Looped
  <2> QED  BY <1>2, <1>3, <2>4, <2>7 DEF Turned
<1> QED  BY <1>5, <1>6

\* The counts of the workers' tasks, now and after a step.
LEMMA HeldIs ==
    ASSUME NEW wk, NEW S
    PROVE  {w \in {x \in Workers : wk[x].state = "busy"} : wk[w].task \in S} = BusyWith(wk, S)
BY DEF BusyWith

\* HeldCount, Busy and Balance in terms of the workers' states.
LEMMA HeldNow ==
    ASSUME NEW S
    PROVE  HeldCount(S) = Holding(worker, S)
BY HeldIs DEF HeldCount, Holding, Busy

LEMMA HeldNext ==
    ASSUME NEW S
    PROVE  HeldCount(S)' = Holding(worker', S)
BY HeldIs DEF HeldCount, Holding, Busy

LEMMA BusyAll ==
    ASSUME NEW wk \in [Workers -> WorkerStates]
    PROVE  BusyWith(wk, Tasks) = {w \in Workers : wk[w].state = "busy"}
<1>1. \A w \in Workers : wk[w].task \in Tasks  BY DEF WorkerStates
<1> QED  BY <1>1 DEF BusyWith

LEMMA BalanceNow ==
    ASSUME worker \in [Workers -> WorkerStates]
    PROVE  Balance <=> Balanced(q, worker)
<1>1. \A S : HeldCount(S) = Holding(worker, S)  BY HeldNow
<1>2. Cardinality(Busy) = Holding(worker, Tasks)  BY BusyAll DEF Busy, Holding
<1> QED  BY <1>1, <1>2 DEF Balance, Balanced

LEMMA BalanceNext ==
    ASSUME worker' \in [Workers -> WorkerStates]
    PROVE  Balance' <=> Balanced(q', worker')
<1>1. \A S : HeldCount(S)' = Holding(worker', S)  BY HeldNext
<1>2. Cardinality(Busy)' = Holding(worker', Tasks)  BY BusyAll DEF Busy, Holding
<1>3. /\ \A i \in Items : HeldCount({SequenceTask(i)})' = Holding(worker', {SequenceTask(i)})
      /\ HeldCount(Containers)' = Holding(worker', Containers)
  BY <1>1 DEF Containers
<1>4. Balance' <=>
        /\ \A i \in Items : Gap(q', i) = HeldCount({SequenceTask(i)})'
        /\ Gaps(q') = HeldCount(Containers)'
        /\ Surplus(q') = - HeldCount(Containers)'
        /\ q'.processing_num = Cardinality(Busy)'
        /\ q'.finished_num = Len(q'.finished)
  BY DEF Balance, Gap, Gaps, Surplus, Registered, Places
<1> QED  BY <1>2, <1>3, <1>4 DEF Balanced

\* Worker w is about to run its loop, the queue being Q and no task its own.
Ready(Q, wk, w) ==
    /\ HasNone(Q, wk, w, syncs = 0)
    /\ SameBut(wk, w)
    /\ SameInside(q, worker, Q, wk)
    /\ Q.woken <= Cardinality(Waiting \ {w})
    /\ Stopping \/ Awake(Q, Waiting \ {w}) \/ Q.pending_num <= 1
    /\ pc = "stopped" => Q = EmptyQueue

\* It ends, waits or takes a task.
LEMMA LoopResult ==
    ASSUME NEW w, NEW Q, NEW wk, Ready(Q, wk, w), Loop(w, Q)
    PROVE  /\ Shape(q', {}, syncs = 0) /\ Balanced(q', worker')
           /\ SameInside(Q, wk, q', worker') /\ q'.woken = Q.woken
           /\ \E r \in WorkerStates :
                 /\ worker' = [worker EXCEPT ![w] = r] /\ worker'[w] = r
                 /\ r.state = "busy" => r.task \in RunTasks(syncs = 0) /\ ~Stopping
           /\ ~Stopping => Looped(Q, wk, w, q', worker', syncs = 0)
           /\ Stopping => q' = Q
<1>1. HasNone(Q, wk, w, syncs = 0) /\ SameBut(wk, w)
  BY DEF Ready
<1>2. (syncs = 0) \in BOOLEAN  OBVIOUS
<1>3. \A r : [wk EXCEPT ![w] = r][w] = r  BY <1>1 DEF HasNone
<1>4. CASE Stopping
  <2> DEFINE r == [state |-> "ended", task |-> NoTask]
  <2>1. q' = Q /\ worker' = [worker EXCEPT ![w] = r]  BY <1>4 DEF Loop
  <2>2. NoTask \in Tasks  BY NewTasks
  <2>3. r.state # "busy" /\ r \in WorkerStates  BY <2>2 DEF WorkerStates
  <2> HIDE DEF r
  <2>4. Effect(Q, Q, NoTask, 0, 0, 0)  BY <1>1, EffectNone DEF HasNone
  <2>5. /\ Balanced(Q, [wk EXCEPT ![w] = r])
        /\ SameInside(Q, wk, Q, [wk EXCEPT ![w] = r])
    BY <1>1, <1>2, <2>3, <2>4, Idles, ZenonT(40)
  <2>6. worker' = [wk EXCEPT ![w] = r] /\ worker'[w] = r  BY <1>1, <1>3, <2>1 DEF SameBut
  <2>7. Balanced(q', worker') /\ SameInside(Q, wk, q', worker')  BY <2>1, <2>5, <2>6
  <2>8. Shape(q', {}, syncs = 0)  BY <1>1, <2>1 DEF HasNone
  <2> QED  BY <1>4, <2>1, <2>3, <2>6, <2>7, <2>8
<1>5. CASE ~Stopping
  <2>1. /\ Looped(Q, wk, w, q', worker', syncs = 0)
        /\ \E r \in WorkerStates : worker' = [worker EXCEPT ![w] = r]
    <3> DEFINE steady == (syncs = 0)
    <3>1. HasNone(Q, wk, w, steady) /\ steady \in BOOLEAN  BY <1>1, <1>2
    <3> HIDE DEF steady
    <3>2. Turned(Q, wk, w, steady)
      BY <1>1, <1>5, <3>1, LoopEffect, ZenonT(40)
    <3> QED  BY <3>2 DEF steady, Turned
  <2>2. PICK r \in WorkerStates : worker' = [worker EXCEPT ![w] = r]  BY <2>1
  <2>3. worker'[w] = r  BY <1>1, <1>3, <2>2 DEF SameBut
  <2>4. r.state = "busy" => r.task \in RunTasks(syncs = 0)  BY <2>1, <2>3 DEF Looped
  <2> QED  BY <1>5, <2>1, <2>2, <2>3, <2>4 DEF Looped
<1> QED  BY <1>4, <1>5

\* The queue is left so that nobody sleeps while a list has tasks.
LEMMA LoopSignals ==
    ASSUME NEW w \in Workers, NEW Q, NEW wk, Ready(Q, wk, w), Loop(w, Q),
           worker \in [Workers -> WorkerStates]
    PROVE  /\ q'.woken <= Cardinality(Waiting')
           /\ Stopping \/ Awake(q', Waiting')
<1> DEFINE others == Waiting \ {w}
<1>1. /\ Shape(q', {}, syncs = 0) /\ Balanced(q', worker') /\ q'.woken = Q.woken
      /\ ~Stopping => Looped(Q, wk, w, q', worker', syncs = 0)
      /\ \E r \in WorkerStates : worker' = [worker EXCEPT ![w] = r] /\ worker'[w] = r
  BY LoopResult
<1>2. PICK r \in WorkerStates : worker' = [worker EXCEPT ![w] = r] /\ worker'[w] = r
  BY <1>1
<1>3. Waiting' = IF r.state = "waiting" THEN others \cup {w} ELSE others
  <2>1. Waiting' = {x \in Workers : worker'[x].state = "waiting"}  BY DEF Waiting
  <2>2. \A x \in Workers : worker'[x] = IF x = w THEN r ELSE worker[x]  BY <1>2
  <2> QED  BY <2>1, <2>2 DEF Waiting
<1>4. IsFiniteSet(others) /\ IsFiniteSet(Waiting') /\ Cardinality(others) <= Cardinality(Waiting')
      /\ Cardinality(others) \in Nat /\ Cardinality(Waiting') \in Nat
  <2>1. IsFiniteSet(Waiting)  BY WaitingFinite
  <2>2. others \in SUBSET Waiting  OBVIOUS
  <2>3. IsFiniteSet(others)  BY <2>1, <2>2, FS_Subset
  <2>4. IsFiniteSet(others \cup {w})  BY <2>3, FS_AddElement
  <2> HIDE DEF others
  <2>5. IsFiniteSet(Waiting') /\ others \in SUBSET Waiting'  BY <1>3, <2>3, <2>4
  <2> QED  BY <2>3, <2>5, FS_Subset, FS_CardinalityType
<1>5. Q.woken <= Cardinality(others) /\ Q.woken \in Nat /\ Q.pending_num \in Int
  BY DEF Ready, HasNone, Shape
<1>6. q'.woken <= Cardinality(Waiting')
  <2> HIDE DEF others
  <2> QED  BY <1>1, <1>4, <1>5
<1>7. ASSUME ~Stopping
      PROVE  Awake(q', Waiting')
  <2>1. Looped(Q, wk, w, q', worker', syncs = 0)  BY <1>1, <1>7
  <2>2. CASE q'.pending = <<>> /\ q'.immediate = <<>>
    BY <2>2 DEF Awake
  <2>3. CASE ~(q'.pending = <<>> /\ q'.immediate = <<>>)
    <3>1. /\ r.state = "busy" /\ q'.pending_num = Q.pending_num - 1
          /\ Q.pending # <<>> \/ Q.immediate # <<>>
      BY <1>2, <2>1, <2>3 DEF Looped
    <3>2. Waiting' = others  BY <1>3, <3>1
    <3> HIDE DEF others
    <3>3. CASE Awake(Q, others)
      BY <1>1, <3>1, <3>2, <3>3 DEF Awake
    <3>4. CASE Q.pending_num <= 1
      <4>1. (syncs = 0) \in BOOLEAN  OBVIOUS
      <4>2. q'.pending_num >= Len(q'.pending) + Len(q'.immediate)
        BY <1>1, <4>1, PendingCovers
      <4>3. q'.pending \in Seq(Tasks) /\ q'.immediate \in Seq(Tasks)
        BY <1>1, <4>1, Lists
      <4> DEFINE a == q'.pending
                 b == q'.immediate
                 n == q'.pending_num
      <4>4. n >= Len(a) + Len(b) /\ n <= 0 /\ n \in Int
        <5>1. n <= 0 /\ n \in Int
          <6> DEFINE m == Q.pending_num
          <6>1. m \in Int /\ m <= 1 /\ n = m - 1  BY <1>5, <3>1, <3>4
          <6> HIDE DEF m, n
          <6> QED  BY <6>1
        <5> QED  BY <4>2, <5>1
      <4>5. a \in Seq(Tasks) /\ b \in Seq(Tasks)  BY <4>3
      <4> HIDE DEF a, b, n
      <4>6. Len(a) \in Nat /\ Len(b) \in Nat  BY <4>5
      <4>7. Len(a) = 0 /\ Len(b) = 0  BY <4>4, <4>6
      <4>8. a = <<>> /\ b = <<>>  BY <4>5, <4>7
      <4> QED  BY <2>3, <4>8 DEF a, b
    <3>5. Awake(Q, others) \/ Q.pending_num <= 1  BY <1>7 DEF Ready, others
    <3> QED  BY <3>3, <3>4, <3>5
  <2> QED  BY <2>2, <2>3
<1> QED  BY <1>6, <1>7

\* The invariant after a worker has let go of the mutex.
LEMMA LoopKeeps ==
    ASSUME IInv, Unlocked, NEW w \in Workers, NEW Q, NEW wk,
           Ready(Q, wk, w), Loop(w, Q), WorkerUnchanged
    PROVE  IInv'
<1> USE DEF WorkerUnchanged
<1>1. /\ Shape(q', {}, syncs = 0) /\ Balanced(q', worker')
      /\ SameInside(Q, wk, q', worker')
      /\ \E r \in WorkerStates :
            /\ worker' = [worker EXCEPT ![w] = r] /\ worker'[w] = r
            /\ r.state = "busy" => r.task \in RunTasks(syncs = 0) /\ ~Stopping
      /\ Stopping => q' = Q
  BY LoopResult
<1>2. /\ worker \in [Workers -> WorkerStates]
      /\ \A x \in Workers : worker[x].state = "busy" => worker[x].task \in RunTasks(syncs = 0)
  BY DEF IInv, WorkerShape, Busy, WorkerStates
<1>3. PICK r \in WorkerStates :
         /\ worker' = [worker EXCEPT ![w] = r] /\ worker'[w] = r
         /\ r.state = "busy" => r.task \in RunTasks(syncs = 0) /\ ~Stopping
  BY <1>1
<1>4. \A x \in Workers : worker'[x] = IF x = w THEN r ELSE worker[x]  BY <1>2, <1>3
<1>5. worker' \in [Workers -> WorkerStates]  BY <1>2, <1>3
<1>6. WorkerShape'
  <2>1. \A x \in Workers : worker'[x].state = "busy" => worker'[x].task \in RunTasks(syncs = 0)
    BY <1>2, <1>3, <1>4
  <2>2. syncs' = syncs  OBVIOUS
  <2> QED  BY <1>5, <2>1, <2>2 DEF WorkerShape, Busy, WorkerStates
<1>7. Balance'  BY <1>1, <1>5, BalanceNext
<1>8. Turn'
  <2>1. pc = "stopped" => q' = EmptyQueue /\ Busy' = {}
    <3> SUFFICES ASSUME pc = "stopped" PROVE q' = EmptyQueue /\ Busy' = {}
      OBVIOUS
    <3>1. Stopping  BY DEF Stopping
    <3>2. q' = EmptyQueue  BY <1>1, <3>1 DEF Ready
    <3>3. \A x \in Workers : worker[x].state # "busy"  BY DEF IInv, Turn, Busy
    <3>4. \A x \in Workers : worker'[x].state # "busy"  BY <1>3, <1>4, <3>1, <3>3
    <3> QED  BY <3>2, <3>4 DEF Busy
  <2> QED  BY <2>1 DEF IInv, Turn
<1>9. Signals'
  <2>1. q'.woken <= Cardinality(Waiting') /\ (Stopping \/ Awake(q', Waiting'))
    BY <1>2, LoopSignals
  <2> QED  BY <2>1 DEF Signals, Stopping, Awake
<1>10. Rest'  BY DEF IInv, Rest
<1>11. Settled'
  <2>1. ASSUME NEW i \in Roots, NEW v \in Values, pc # "stopped"
        PROVE  Inside(q', i, v) + HeldCount(Own(i, v))' + Count(flushed[i], {v}) = Came(i, v)
    <3>1. Inside(q, i, v) + HeldCount(Own(i, v)) + Count(flushed[i], {v}) = Came(i, v)
      BY <2>1 DEF IInv, Settled
    <3>2. HeldCount(Own(i, v)) = Holding(worker, Own(i, v))  BY HeldNow
    <3>3. HeldCount(Own(i, v))' = Holding(worker', Own(i, v))
      <4>1. \A S : HeldCount(S)' = Holding(worker', S)  BY HeldNext
      <4> QED  BY <4>1 DEF Own, Tasks
    <3>4. Inside(q', i, v) + Holding(worker', Own(i, v)) = Inside(Q, i, v) + Holding(wk, Own(i, v))
      BY <1>1 DEF SameInside
    <3>5. Inside(Q, i, v) + Holding(wk, Own(i, v)) = Inside(q, i, v) + Holding(worker, Own(i, v))
      BY DEF Ready, SameInside
    <3> QED  BY <3>1, <3>2, <3>3, <3>4, <3>5
  <2>2. \A i, v : Came(i, v)' = Came(i, v)  BY DEF Came
  <2>3. ASSUME NEW i \in Roots, NEW v \in Values, pc = "stopped"
        PROVE  Count(flushed[i], {v}) <= Came(i, v)
    BY <2>3 DEF IInv, Settled
  <2> QED  BY <2>1, <2>2, <2>3 DEF Settled, Inside, Came, Count, Sequence, Registered
<1>12. Shape(q, {}, syncs = 0)'  BY <1>1
<1> QED  BY <1>6, <1>7, <1>8, <1>9, <1>10, <1>11, <1>12 DEF IInv

\* A worker that wakes up may pass the signal on.
LEMMA ChainedEffect ==
    ASSUME NEW Q, NEW steady \in BOOLEAN, Shape(Q, {}, steady), NEW w
    PROVE  LET P == Chained(Q, w)
           IN  /\ Shape(P, {}, steady) /\ Effect(Q, P, NoTask, 0, 0, 0)
               /\ P.finished = Q.finished /\ P.finished_num = Q.finished_num
               /\ P.processing_num = Q.processing_num
               /\ Awake(P, Waiting \ {w}) \/ P.pending_num <= 1
               /\ Q.woken <= Cardinality(Waiting \ {w}) => P.woken <= Cardinality(Waiting \ {w})
<1> DEFINE others == Waiting \ {w}
           P == Notify(Q, others)
<1>1. IsFiniteSet(others)
  <2>1. IsFiniteSet(Waiting) /\ others \in SUBSET Waiting  BY WaitingFinite
  <2> QED  BY <2>1, FS_Subset
<1> HIDE DEF others
<1>2. CASE 1 < Q.pending_num
  <2>1. Chained(Q, w) = P  BY <1>2 DEF Chained, others
  <2>2. /\ Shape(P, {}, steady) /\ Effect(Q, P, NoTask, 0, 0, 0)
        /\ P.finished = Q.finished /\ P.finished_num = Q.finished_num
        /\ P.processing_num = Q.processing_num
        /\ Awake(P, others)
        /\ Q.woken <= Cardinality(others) => P.woken <= Cardinality(others)
    BY <1>1, NotifyEffect
  <2> HIDE DEF P
  <2> QED  BY <2>1, <2>2 DEF others
<1>3. CASE ~(1 < Q.pending_num)
  <2>1. Chained(Q, w) = Q  BY <1>3 DEF Chained
  <2>2. Effect(Q, Q, NoTask, 0, 0, 0)  BY EffectNone
  <2>3. Q.pending_num <= 1  BY <1>3 DEF Shape
  <2> QED  BY <2>1, <2>2, <2>3
<1> QED  BY <1>2, <1>3

\* A queue that is changed without effect on what workers have.
LEMMA IdlesOn ==
    ASSUME NEW Q, NEW P, NEW steady \in BOOLEAN, NEW wk, NEW w,
           HasNone(Q, wk, w, steady), NEW t, Effect(Q, P, t, 0, 0, 0), Shape(P, {}, steady),
           P.processing_num = Q.processing_num,
           P.finished_num = Q.finished_num, P.finished = Q.finished
    PROVE  HasNone(P, wk, w, steady) /\ SameInside(Q, wk, P, wk)
<1> DEFINE r == wk[w]
<1>1. wk \in [Workers -> WorkerStates] /\ r.state # "busy" /\ w \in Workers  BY DEF HasNone
<1>2. [wk EXCEPT ![w] = r] = wk  BY <1>1
<1> HIDE DEF r
<1>3. /\ Balanced(P, [wk EXCEPT ![w] = r])
      /\ SameInside(Q, wk, P, [wk EXCEPT ![w] = r])
  BY <1>1, Idles, ZenonT(40)
<1> QED  BY <1>1, <1>2, <1>3 DEF HasNone, r

\* What a worker that is not busy starts from.
LEMMA IdleNow ==
    ASSUME IInv, NEW w \in Workers, worker[w].state # "busy"
    PROVE  HasNone(q, worker, w, syncs = 0) /\ SameBut(worker, w)
           /\ SameInside(q, worker, q, worker)
<1>1. worker \in [Workers -> WorkerStates]  BY DEF IInv, WorkerShape, WorkerStates
<1>2. Balanced(q, worker)  BY <1>1, BalanceNow DEF IInv
<1> QED  BY <1>1, <1>2 DEF IInv, HasNone, SameBut, SameInside

\* Each step of a worker: it starts, wakes up without a signal or with one,
\* and ends its task.
LEMMA StartWorkerKeeps ==
    ASSUME IInv, NEW w \in Workers, StartWorker(w)
    PROVE  IInv'
<1> USE DEF StartWorker
<1>1. HasNone(q, worker, w, syncs = 0) /\ SameBut(worker, w) /\ SameInside(q, worker, q, worker)
  BY IdleNow
<1>2. Waiting \ {w} = Waiting  BY DEF Waiting
<1>3. q.woken <= Cardinality(Waiting) /\ (Stopping \/ Awake(q, Waiting))
  BY DEF IInv, Signals, Unlocked
<1>4. pc = "stopped" => q = EmptyQueue  BY DEF IInv, Turn
<1>5. Ready(q, worker, w)  BY <1>1, <1>2, <1>3, <1>4 DEF Ready
<1> QED  BY <1>5, LoopKeeps

LEMMA SpuriousWakeKeeps ==
    ASSUME IInv, NEW w \in Workers, SpuriousWake(w)
    PROVE  IInv'
<1> USE DEF SpuriousWake
<1> DEFINE Q == Chained(q, w)
           steady == (syncs = 0)
<1>1. HasNone(q, worker, w, syncs = 0) /\ SameBut(worker, w)
  BY IdleNow
<1>2. Shape(q, {}, steady) /\ steady \in BOOLEAN /\ HasNone(q, worker, w, steady)
  BY <1>1 DEF IInv
<1> HIDE DEF steady
<1>3. q.woken <= Cardinality(Waiting \ {w})
  <2>1. IsFiniteSet(Waiting) /\ Cardinality(Waiting) \in Nat  BY WaitingFinite
  <2>2. w \in Waiting  BY DEF Waiting
  <2>3. Cardinality(Waiting \ {w}) = Cardinality(Waiting) - 1
    BY <2>1, <2>2, FS_RemoveElement
  <2>4. q.woken \in Nat /\ q.woken < Cardinality(Waiting)  BY <1>2 DEF Shape
  <2> DEFINE m == q.woken
             n == Cardinality(Waiting)
             k == Cardinality(Waiting \ {w})
  <2>5. m \in Nat /\ n \in Nat /\ k = n - 1 /\ m < n  BY <2>1, <2>3, <2>4
  <2> HIDE DEF m, n, k
  <2>6. m <= k  BY <2>5
  <2> QED  BY <2>6 DEF m, k
<1>4. /\ Shape(Q, {}, steady) /\ Effect(q, Q, NoTask, 0, 0, 0)
      /\ Q.finished = q.finished /\ Q.finished_num = q.finished_num
      /\ Q.processing_num = q.processing_num
      /\ Awake(Q, Waiting \ {w}) \/ Q.pending_num <= 1
      /\ Q.woken <= Cardinality(Waiting \ {w})
  BY <1>2, <1>3, ChainedEffect
<1>5. pc = "stopped" => Q = EmptyQueue
  <2>1. pc = "stopped" => q = EmptyQueue  BY DEF IInv, Turn
  <2> QED  BY <2>1 DEF Chained, EmptyQueue
<1>6. Loop(w, Q) /\ Unlocked /\ WorkerUnchanged  OBVIOUS
<1> HIDE DEF Q
<1>7. HasNone(Q, worker, w, steady) /\ SameInside(q, worker, Q, worker)
  BY <1>2, <1>4, IdlesOn, ZenonT(40)
<1>8. Ready(Q, worker, w)  BY <1>1, <1>4, <1>5, <1>7 DEF Ready, steady
<1> QED  BY <1>6, <1>8, LoopKeeps

LEMMA WakeKeeps ==
    ASSUME IInv, NEW w \in Workers, Wake(w)
    PROVE  IInv'
<1> USE DEF Wake
<1> DEFINE R == [q EXCEPT !.woken = @ - 1]
           Q == Chained(R, w)
           steady == (syncs = 0)
<1>1. HasNone(q, worker, w, syncs = 0) /\ SameBut(worker, w)
  BY IdleNow
<1>2. Shape(q, {}, steady) /\ steady \in BOOLEAN /\ HasNone(q, worker, w, steady)
  BY <1>1 DEF IInv
<1> HIDE DEF steady
<1>3. /\ R \in Fields(R) /\ R.sequences = q.sequences /\ R.pending_num = q.pending_num
      /\ R.pending = q.pending /\ R.immediate = q.immediate /\ R.finished = q.finished
      /\ R.finished_num = q.finished_num /\ R.processing_num = q.processing_num
      /\ R.woken = q.woken - 1
  BY <1>2 DEF Fields, Shape
<1>4. Loop(w, Q) /\ Unlocked /\ WorkerUnchanged  OBVIOUS
<1> HIDE DEF R
<1>5. /\ q.woken \in Nat /\ q.processing_num \in Int /\ q.finished_num \in Int
      /\ q.pending_num \in Int
  BY <1>2 DEF Shape
<1>6. Relisted(q, R, 0) /\ 0 \in Int
  BY <1>3, <1>5 DEF Relisted
<1>7. Shape(R, {}, steady) /\ Effect(q, R, NoTask, 0, 0, 0)
  BY <1>2, <1>3, <1>6, CountersEffect, ZenonT(40)
<1>8. R.woken <= Cardinality(Waiting \ {w})
  <2>1. IsFiniteSet(Waiting) /\ Cardinality(Waiting) \in Nat  BY WaitingFinite
  <2>2. w \in Waiting  BY DEF Waiting
  <2>3. Cardinality(Waiting \ {w}) = Cardinality(Waiting) - 1
    BY <2>1, <2>2, FS_RemoveElement
  <2>4. q.woken <= Cardinality(Waiting)  BY DEF IInv, Signals
  <2> DEFINE m == q.woken
             n == Cardinality(Waiting)
             k == Cardinality(Waiting \ {w})
  <2>5. m \in Nat /\ n \in Nat /\ k = n - 1 /\ m <= n  BY <1>5, <2>1, <2>3, <2>4
  <2> HIDE DEF m, n, k
  <2>6. m - 1 <= k  BY <2>5
  <2> QED  BY <1>3, <2>6 DEF m, k
<1>9. /\ Shape(Q, {}, steady) /\ Effect(R, Q, NoTask, 0, 0, 0)
      /\ Q.finished = R.finished /\ Q.finished_num = R.finished_num
      /\ Q.processing_num = R.processing_num
      /\ Awake(Q, Waiting \ {w}) \/ Q.pending_num <= 1
      /\ Q.woken <= Cardinality(Waiting \ {w})
  BY <1>2, <1>7, <1>8, ChainedEffect
<1>10. pc # "stopped"
  <2>1. pc = "stopped" => q = EmptyQueue  BY DEF IInv, Turn
  <2>2. EmptyQueue.woken = 0  BY DEF EmptyQueue
  <2> QED  BY <2>1, <2>2
<1> HIDE DEF Q
<1>11. Effect(q, Q, NoTask, 0, 0, 0)
  BY <1>2, <1>6, <1>7, <1>9, EffectThen, ZenonT(40)
<1>12. /\ Q.finished = q.finished /\ Q.finished_num = q.finished_num
       /\ Q.processing_num = q.processing_num
  BY <1>3, <1>9
<1>13. HasNone(Q, worker, w, steady) /\ SameInside(q, worker, Q, worker)
  BY <1>2, <1>9, <1>11, <1>12, IdlesOn, ZenonT(40)
<1>14. Ready(Q, worker, w)  BY <1>1, <1>9, <1>10, <1>13 DEF Ready, steady
<1> QED  BY <1>4, <1>14, LoopKeeps

LEMMA FinishKeeps ==
    ASSUME IInv, NEW w \in Workers, NEW result \in BOOLEAN, Finish(w, result)
    PROVE  IInv'
<1> USE DEF Finish
<1> DEFINE t == worker[w].task
           Q == Processed(q, t, result)
           r == [state |-> "waiting", task |-> NoTask]
           wk == [worker EXCEPT ![w] = r]
           steady == (syncs = 0)
<1>1. /\ worker \in [Workers -> WorkerStates] /\ w \in Busy
      /\ t \in RunTasks(steady) /\ steady \in BOOLEAN
  BY DEF IInv, WorkerShape, WorkerStates, Busy
<1>2. Balanced(q, worker)  BY <1>1, BalanceNow DEF IInv
<1>3. Shape(q, {}, steady)  BY DEF IInv
<1>4. HasTask(q, worker, w, t, steady)  BY <1>1, <1>2, <1>3 DEF HasTask
<1>5. Loop(w, Q) /\ Unlocked /\ WorkerUnchanged  OBVIOUS
<1> HIDE DEF t, steady
<1>6. PutBack(q, Q, t, steady)  BY <1>1, <1>4, ProcessedEffect
<1> HIDE DEF Q
<1>7. r \in WorkerStates /\ r.state # "busy"
  <2>1. NoTask \in Tasks  BY NewTasks
  <2> QED  BY <2>1 DEF WorkerStates
<1>8. wk \in [Workers -> WorkerStates] /\ wk[w] = r  BY <1>1, <1>7
<1>9. SameBut(wk, w)  BY <1>1 DEF SameBut
<1> HIDE DEF r
<1>10. Balanced(Q, wk) /\ SameInside(q, worker, Q, wk)
  <2>1. Back(q, Q, t)  BY <1>6 DEF PutBack
  <2> QED  BY <1>1, <1>4, <1>7, <2>1, Gives, ZenonT(40)
<1>11. HasNone(Q, wk, w, steady)
  BY <1>6, <1>7, <1>8, <1>10 DEF HasNone, PutBack
<1>12. Waiting \ {w} = Waiting  BY DEF Waiting
<1>13. q.woken <= Cardinality(Waiting) /\ (Stopping \/ Awake(q, Waiting))
  BY DEF IInv, Signals, Unlocked
<1>14. Q.woken <= Cardinality(Waiting \ {w}) /\ (Stopping \/ Awake(Q, Waiting \ {w}))
  BY <1>6, <1>12, <1>13 DEF PutBack, Awake
<1>15. pc # "stopped"  BY <1>1 DEF IInv, Turn
<1> HIDE DEF wk
<1>16. Ready(Q, wk, w)  BY <1>9, <1>10, <1>11, <1>14, <1>15 DEF Ready, steady
<1> QED  BY <1>5, <1>16, LoopKeeps

----------------------------------------------------------------------------
(* The steps of the manager. *)

\* A sequence over a set is one over a larger set.
LEMMA SeqLarger ==
    ASSUME NEW A, NEW B, A \subseteq B, NEW s \in Seq(A)
    PROVE  s \in Seq(B)
OBVIOUS

\* The configuration has changed: less is known of the tasks.
LEMMA ShapeLater ==
    ASSUME NEW Q, NEW E, Shape(Q, E, TRUE)
    PROVE  Shape(Q, E, FALSE)
<1>1. RunTasks(TRUE) \subseteq RunTasks(FALSE)  BY DEF RunTasks
<1>2. \A i \in Items : MemberTasks(i, TRUE) \subseteq MemberTasks(i, FALSE)  BY DEF MemberTasks
<1>3. \A i \in Registered(Q) : Q.sequences[i] \in Seq(MemberTasks(i, FALSE))
  <2> TAKE i \in Registered(Q)
  <2>1. i \in Items /\ Q.sequences[i] \in Seq(MemberTasks(i, TRUE))  BY DEF Shape
  <2>2. MemberTasks(i, TRUE) \subseteq MemberTasks(i, FALSE)  BY <1>2, <2>1
  <2> QED  BY <2>1, <2>2, SeqLarger
<1>4. Q.immediate \in Seq(RunTasks(FALSE)) /\ Q.finished \in Seq(RunTasks(FALSE))
  <2>1. Q.immediate \in Seq(RunTasks(TRUE)) /\ Q.finished \in Seq(RunTasks(TRUE))
    BY DEF Shape
  <2> QED  BY <1>1, <2>1, SeqLarger
<1> QED  BY <1>3, <1>4 DEF Shape

\* A step of the manager has effect k on the values that task t stands for.
Managed(t, k) ==
    /\ worker' = worker /\ (syncs' = 0 => syncs = 0)
    /\ Shape(q', {}, syncs' = 0) /\ Effect(q, q', t, 0, 0, k) /\ k \in Int
    /\ q'.processing_num = q.processing_num /\ q'.finished_num = Len(q'.finished)

\* The counters stay in balance when the manager steps.
LEMMA ManagedBalance ==
    ASSUME IInv, NEW t, NEW k, Managed(t, k)
    PROVE  WorkerShape' /\ Balance'
<1> USE DEF Managed
<1>1. /\ worker \in [Workers -> WorkerStates]
      /\ \A w \in Workers : worker[w].state = "busy" => worker[w].task \in RunTasks(syncs = 0)
  BY DEF IInv, WorkerShape, WorkerStates, Busy
<1>2. RunTasks(syncs = 0) \subseteq RunTasks(syncs' = 0)
  BY DEF RunTasks
<1>3. WorkerShape'  BY <1>1, <1>2 DEF WorkerShape, WorkerStates, Busy
<1>4. Balanced(q, worker)  BY <1>1, BalanceNow DEF IInv
<1>5. /\ \A i \in Items : Gap(q, i) \in Int
      /\ Gaps(q) \in Int /\ Surplus(q) \in Int
      /\ \A i \in Roots, v \in Values : Inside(q, i, v) \in Nat
  <2>1. (syncs = 0) \in BOOLEAN /\ Shape(q, {}, syncs = 0)  BY DEF IInv
  <2> QED  BY <2>1, Measures
<1>6. /\ \A i \in Items : Gap(q', i) = Gap(q, i)
      /\ Gaps(q') = Gaps(q) /\ Surplus(q') = Surplus(q)
  BY <1>5 DEF Effect
<1>7. Balanced(q', worker')  BY <1>4, <1>6 DEF Balanced
<1>8. Balance'  BY <1>1, <1>7, BalanceNext
<1> QED  BY <1>3, <1>8

\* The values received and handed on account for the effect.
SettledBy(t, k) ==
    \A i \in Roots, v \in Values :
       Count(flushed'[i], {v}) + (IF t \in Own(i, v) THEN k ELSE 0) + Came(i, v)
         = Count(flushed[i], {v}) + Came(i, v)'

\* So does the account of the values.
LEMMA ManagedSettled ==
    ASSUME IInv, NEW t, NEW k, Managed(t, k), pc # "stopped", pc' # "stopped",
           flushed' \in [Items -> Seq(Values)],
           SettledBy(t, k)
    PROVE  Settled'
<1> USE DEF Managed, SettledBy
<1>1. ASSUME NEW i \in Roots, NEW v \in Values
      PROVE  Inside(q', i, v) + HeldCount(Own(i, v))' + Count(flushed'[i], {v}) = Came(i, v)'
  <2> DEFINE a == Inside(q, i, v)
             b == HeldCount(Own(i, v))
             c == Count(flushed[i], {v})
             d == Came(i, v)
             e == Count(flushed'[i], {v})
             f == Came(i, v)'
             g == IF t \in Own(i, v) THEN k ELSE 0
             h == Inside(q', i, v)
  <2>1. a + b + c = d  BY DEF IInv, Settled
  <2>2. h = a + g  BY DEF Effect
  <2>3. e + g + d = c + f  OBVIOUS
  <2>4. HeldCount(Own(i, v))' = b
    <3>1. HeldCount(Own(i, v))' = Holding(worker', Own(i, v))
      <4>1. \A S : HeldCount(S)' = Holding(worker', S)  BY HeldNext
      <4> QED  BY <4>1 DEF Own, Tasks
    <3> QED  BY <3>1, HeldNow
  <2>5. a \in Int /\ b \in Int /\ g \in Int /\ d \in Int /\ f \in Int
    <3>1. a \in Int
      <4> DEFINE steady == (syncs = 0)
      <4>1. steady \in BOOLEAN /\ Shape(q, {}, steady)  BY DEF IInv
      <4> HIDE DEF steady
      <4>2. \A j \in Roots, u \in Values : Inside(q, j, u) \in Nat  BY <4>1, Measures
      <4> QED  BY <4>2
    <3>2. b \in Int  BY HeldNow, HoldingFinite
    <3>3. d \in Int /\ f \in Int  BY DEF Came
    <3> QED  BY <3>1, <3>2, <3>3
  <2>6. c \in Int /\ e \in Int
    <3>1. flushed[i] \in Seq(Values) /\ flushed'[i] \in Seq(Values)
      BY DEF IInv, Rest, Roots
    <3> QED  BY <3>1, CountFinite
  <2> HIDE DEF a, b, c, d, e, f, g, h
  <2>7. h + b + e = f  BY <2>1, <2>2, <2>3, <2>5, <2>6
  <2> QED  BY <2>4, <2>7 DEF b, e, f, h
<1> QED  BY <1>1 DEF Settled, Inside, Came, Count, Sequence, Registered

\* No value is received or handed on.
LEMMA QuietKeeps ==
    ASSUME IInv, NEW t, Managed(t, 0), UNCHANGED <<items, accepted, flushed, syncs>>,
           pc # "stopped", pc' # "stopped", Turn', Signals',
           tests' \in [received : 0 .. MaxTests, answered : Nat],
           Len(accepted) + tests'.received <= MaxValues
    PROVE  IInv'
<1>1. WorkerShape' /\ Balance'  BY ManagedBalance
<1>2. Rest'  BY DEF IInv, Rest
<1>3. Settled'
  <2>1. \A i \in Roots, v \in Values :
           Count(flushed'[i], {v}) + (IF t \in Own(i, v) THEN 0 ELSE 0) + Came(i, v)
             = Count(flushed[i], {v}) + Came(i, v)'
    <3> TAKE i \in Roots, v \in Values
    <3>1. Came(i, v)' = Came(i, v) /\ Came(i, v) \in Nat  BY DEF Came
    <3>2. flushed[i] \in Seq(Values)  BY DEF IInv, Rest, Roots
    <3>3. Count(flushed[i], {v}) \in Nat  BY <3>2, CountFinite
    <3> QED  BY <3>1, <3>3
  <2>2. flushed' \in [Items -> Seq(Values)]  BY DEF IInv, Rest
  <2> QED  BY <2>1, <2>2, ManagedSettled DEF SettledBy
<1>4. Shape(q, {}, syncs = 0)'  BY DEF Managed
<1> QED  BY <1>1, <1>2, <1>3, <1>4 DEF IInv

\* The queue's own part of a step that leaves it alone or only signals.
LEMMA QueueKept ==
    ASSUME IInv, NEW P, \/ P = q
                        \/ P = Notify(q, Waiting)
                        \/ P = [q EXCEPT !.woken = Cardinality(Waiting)],
           q' = P, worker' = worker, syncs' = syncs
    PROVE  Managed(NoTask, 0) /\ q'.woken <= Cardinality(Waiting)
           /\ (Stopping \/ Awake(q, Waiting) => Stopping \/ Awake(q', Waiting))
<1> DEFINE steady == (syncs = 0)
<1>1. steady \in BOOLEAN /\ Shape(q, {}, steady) /\ 0 \in Int  BY DEF IInv
<1>2. q.woken <= Cardinality(Waiting) /\ q.finished_num = Len(q.finished)
  BY DEF IInv, Signals, Balance
<1> HIDE DEF steady
<1>3. CASE P = q
  <2>1. Effect(q, q', NoTask, 0, 0, 0)  BY <1>1, <1>3, EffectNone
  <2> QED  BY <1>1, <1>2, <1>3, <2>1 DEF Managed, steady
<1>4. CASE P = Notify(q, Waiting)
  <2>1. /\ Shape(P, {}, steady) /\ Effect(q, P, NoTask, 0, 0, 0)
        /\ P.finished = q.finished /\ P.finished_num = q.finished_num
        /\ P.processing_num = q.processing_num /\ Awake(P, Waiting)
        /\ P.woken <= Cardinality(Waiting)
    BY <1>1, <1>2, <1>4, WaitingFinite, NotifyEffect
  <2> QED  BY <1>1, <1>2, <2>1 DEF Managed, steady
<1>5. CASE P = [q EXCEPT !.woken = Cardinality(Waiting)]
  <2>1. Cardinality(Waiting) \in Nat  BY WaitingFinite
  <2>2. /\ P \in Fields(P) /\ P.sequences = q.sequences /\ P.pending_num = q.pending_num
        /\ P.pending = q.pending /\ P.immediate = q.immediate /\ P.finished = q.finished
        /\ P.finished_num = q.finished_num /\ P.processing_num = q.processing_num
        /\ P.woken = Cardinality(Waiting)
    BY <1>1, <1>5 DEF Fields, Shape
  <2>3. q.processing_num \in Int /\ q.finished_num \in Int /\ q.pending_num \in Int
    BY <1>1 DEF Shape
  <2>4. Relisted(q, P, 0)  BY <2>1, <2>2, <2>3 DEF Relisted
  <2>5. Shape(P, {}, steady) /\ Effect(q, P, NoTask, 0, 0, 0)
    BY <1>1, <2>2, <2>4, CountersEffect, ZenonT(40)
  <2>6. Managed(NoTask, 0)  BY <1>1, <1>2, <2>2, <2>5 DEF Managed, steady
  <2>7. Awake(P, Waiting)
    <3>1. Cardinality(Waiting) = 0 => Waiting = {}  BY WaitingFinite, FS_EmptySet
    <3> QED  BY <2>1, <2>2, <3>1 DEF Awake
  <2> QED  BY <2>1, <2>2, <2>6, <2>7
<1> QED  BY <1>3, <1>4, <1>5

\* The manager's loop moves on; the workers may be told.
LEMMA TurnKeeps ==
    ASSUME IInv, Create \/ EndRequest \/ NoMessage \/ BeginFinished \/ EndFinished \/ Stop
    PROVE  IInv'
<1> DEFINE told == [q EXCEPT !.woken = Cardinality(Waiting)]
<1>1. /\ UNCHANGED <<worker, items, accepted, flushed, tests, syncs>>
      /\ q' = q \/ q' = Notify(q, Waiting) \/ q' = told
  BY DEF Create, EndRequest, NoMessage, BeginFinished, EndFinished, Stop
<1>2. /\ Managed(NoTask, 0) /\ q'.woken <= Cardinality(Waiting)
      /\ (Stopping \/ Awake(q, Waiting) => Stopping \/ Awake(q', Waiting))
  BY <1>1, QueueKept
<1>3. /\ batch \in Nat /\ MaxBatch \in Nat
      /\ pc # "finish" /\ pc # "push" => batch = 0
      /\ pc = "finish" => batch <= MaxBatch
      /\ pc \in {"create", "recv", "push", "process", "finish", "stop", "stopped"}
      /\ pc = "push" => batch <= Len(accepted)
  BY PreprocAssumption DEF IInv, Turn
<1>4. Waiting' = Waiting  BY <1>1 DEF Waiting
<1>5. Stopping \/ Awake(q, Waiting) \/ (pc = "push" /\ batch > 0)  BY DEF IInv, Signals
<1> HIDE DEF told
<1>6. CASE Create
  <2>1. Turn'  BY <1>3, <1>6 DEF Create, Turn
  <2>2. Signals'
    <3>1. ~Stopping /\ pc # "push"  BY <1>6 DEF Create, Stopping
    <3> QED  BY <1>2, <1>4, <1>5, <3>1 DEF Signals, Awake
  <2>3. pc # "stopped" /\ pc' # "stopped"  BY <1>6 DEF Create
  <2> QED  BY <1>1, <1>2, <2>1, <2>2, <2>3, QuietKeeps DEF IInv, Rest
<1>7. CASE EndRequest
  <2>1. Turn'  BY <1>3, <1>7 DEF EndRequest, Turn
  <2>2. Signals'
    <3>1. ~Stopping  BY <1>7 DEF EndRequest, Stopping
    <3>2. CASE batch > 0
      <4>1. q' = Notify(q, Waiting)  BY <1>7, <3>2 DEF EndRequest
      <4>2. (syncs = 0) \in BOOLEAN /\ Shape(q, {}, syncs = 0)  BY DEF IInv
      <4>3. Awake(q', Waiting)
        <5> DEFINE steady == (syncs = 0)
        <5>1. steady \in BOOLEAN /\ Shape(q, {}, steady)  BY <4>2
        <5> HIDE DEF steady
        <5>2. Awake(Notify(q, Waiting), Waiting)  BY <5>1, WaitingFinite, NotifyEffect
        <5> QED  BY <4>1, <5>2
      <4> QED  BY <1>2, <1>4, <4>3 DEF Signals, Awake
    <3>3. CASE ~(batch > 0)
      BY <1>2, <1>4, <1>5, <3>1, <3>3 DEF Signals, Awake
    <3> QED  BY <3>2, <3>3
  <2>3. pc # "stopped" /\ pc' # "stopped"  BY <1>7 DEF EndRequest
  <2> QED  BY <1>1, <1>2, <2>1, <2>2, <2>3, QuietKeeps DEF IInv, Rest
<1>8. CASE NoMessage
  <2>1. Turn'  BY <1>3, <1>8 DEF NoMessage, Turn
  <2>2. Signals'
    <3>1. ~Stopping /\ pc # "push"  BY <1>8 DEF NoMessage, Stopping
    <3> QED  BY <1>2, <1>4, <1>5, <3>1 DEF Signals, Awake
  <2>3. pc # "stopped" /\ pc' # "stopped"  BY <1>8 DEF NoMessage
  <2> QED  BY <1>1, <1>2, <2>1, <2>2, <2>3, QuietKeeps DEF IInv, Rest
<1>9. CASE EndFinished
  <2>1. Turn'  BY <1>3, <1>9 DEF EndFinished, Turn
  <2>2. Signals'
    <3>1. ~Stopping /\ pc # "push"  BY <1>9 DEF EndFinished, Stopping
    <3> QED  BY <1>2, <1>4, <1>5, <3>1 DEF Signals, Awake
  <2>3. pc # "stopped" /\ pc' # "stopped"  BY <1>9 DEF EndFinished
  <2> QED  BY <1>1, <1>2, <2>1, <2>2, <2>3, QuietKeeps DEF IInv, Rest
<1>10. CASE Stop
  <2>1. Turn'  BY <1>3, <1>10 DEF Stop, Turn
  <2>2. Signals'
    <3>1. Stopping'  BY <1>10 DEF Stop, Stopping
    <3> QED  BY <1>2, <1>4, <3>1 DEF Signals
  <2>3. pc # "stopped" /\ pc' # "stopped"  BY <1>10 DEF Stop
  <2> QED  BY <1>1, <1>2, <2>1, <2>2, <2>3, QuietKeeps DEF IInv, Rest
<1>11. CASE BeginFinished
  <2>1. Turn'  BY <1>3, <1>11 DEF BeginFinished, Turn
  <2>2. Signals'
    <3>1. ~Stopping /\ pc # "push"  BY <1>11 DEF BeginFinished, Stopping
    <3> QED  BY <1>2, <1>4, <1>5, <3>1 DEF Signals, Awake
  <2>3. pc # "stopped" /\ pc' # "stopped"  BY <1>11 DEF BeginFinished
  <2> QED  BY <1>1, <1>2, <2>1, <2>2, <2>3, QuietKeeps DEF IInv, Rest
<1> QED  BY <1>6, <1>7, <1>8, <1>9, <1>10, <1>11

\* Nothing happens.
LEMMA StutterKeeps ==
    ASSUME IInv, UNCHANGED vars
    PROVE  IInv'
<1> USE DEF vars
<1>1. WorkerShape'  BY DEF IInv, WorkerShape, Busy
<1>2. Balance'  BY DEF IInv, Balance, HeldCount, Busy
<1>3. Turn'  BY DEF IInv, Turn, Busy
<1>4. Signals'  BY DEF IInv, Signals, Waiting, Stopping
<1>5. Rest'  BY DEF IInv, Rest
<1>6. Settled'  BY DEF IInv, Settled, HeldCount, Busy, Came
<1> QED  BY <1>1, <1>2, <1>3, <1>4, <1>5, <1>6 DEF IInv

\* A test request arrives.
LEMMA TestRequestKeeps ==
    ASSUME IInv, TestRequest
    PROVE  IInv'
<1> USE DEF TestRequest
<1> DEFINE steady == (syncs = 0)
           u == TestTask(tests.received + 1)
           R == [Pending(q) EXCEPT !.immediate = Append(@, u)]
           P == Notify(R, Waiting)
<1>1. steady \in BOOLEAN /\ Shape(q, {}, steady) /\ 0 \in Int  BY DEF IInv
<1>2. q.woken <= Cardinality(Waiting) /\ q.finished_num = Len(q.finished)
  BY DEF IInv, Signals, Balance
<1>3. tests \in [received : 0 .. MaxTests, answered : Nat] /\ MaxTests \in Nat /\ MaxValues \in Nat
  BY PreprocAssumption DEF IInv, Rest
<1>4. tests.received + 1 \in 1 .. MaxTests /\ MaxTests <= MaxValues + MaxTests
  <2> DEFINE n == tests.received
  <2>1. n \in 0 .. MaxTests /\ n < MaxTests  BY <1>3
  <2> HIDE DEF n
  <2>2. n + 1 \in 1 .. MaxTests  BY <1>3, <2>1
  <2> QED  BY <1>3, <2>2 DEF n
<1>5. tests.received + 1 \in 1 .. MaxValues + MaxTests  BY <1>3, <1>4
<1>6. u \in RunTasks(steady) /\ u.type = "test"
  <2>1. u \in RunTasks(steady)  BY <1>1, <1>5, NewTasks
  <2> QED  BY <2>1 DEF TestTask, Task
<1>7. q' = P  BY DEF PushTest
<1>8. /\ UNCHANGED <<worker, items, batch, accepted, flushed, syncs>>
      /\ tests' = [tests EXCEPT !.received = @ + 1] /\ pc = "recv" /\ pc' = "process"
      /\ Len(accepted) + tests.received < MaxValues
  OBVIOUS
<1> HIDE DEF TestRequest, u, steady
<1>9. Shape(R, {}, steady) /\ Effect(q, R, u, 0, 0, 1) /\ Kept(q, R)
  BY <1>1, <1>6, AppendCounted
<1> HIDE DEF R
<1>10. Effect(q, R, u, 0, 0, 0)  BY <1>6, <1>9, EffectAny
<1>11. /\ Shape(P, {}, steady) /\ Effect(R, P, u, 0, 0, 0)
       /\ P.finished = R.finished /\ P.finished_num = R.finished_num
       /\ P.processing_num = R.processing_num /\ Awake(P, Waiting)
       /\ R.woken <= Cardinality(Waiting) => P.woken <= Cardinality(Waiting)
  BY <1>1, <1>9, WaitingFinite, NotifyEffect
<1> HIDE DEF P
<1>12. Effect(q, P, u, 0, 0, 0)
  BY <1>1, <1>10, <1>11, EffectThen, ZenonT(40)
<1>13. Managed(u, 0)
  BY <1>1, <1>2, <1>7, <1>8, <1>9, <1>11, <1>12 DEF Managed, Kept, steady
<1>14. Waiting' = Waiting  BY <1>8 DEF Waiting
<1>15. Signals'  BY <1>2, <1>7, <1>9, <1>11, <1>14 DEF Signals, Awake, Kept
<1>16. Turn'
  <2>1. batch = 0 /\ MaxBatch \in Nat  BY <1>8, PreprocAssumption DEF IInv, Turn
  <2> QED  BY <1>8, <2>1 DEF Turn
<1>17. tests' \in [received : 0 .. MaxTests, answered : Nat]
  BY <1>3, <1>4, <1>8
<1>18. Len(accepted) + tests'.received <= MaxValues
  <2> DEFINE a == Len(accepted)
             n == tests.received
  <2>1. a \in Nat
    <3>1. accepted \in Seq(Arrivals)  BY DEF IInv, Rest
    <3> QED  BY <3>1
  <2>2. n \in Nat /\ a + n < MaxValues /\ tests'.received = n + 1  BY <1>3, <1>8
  <2> HIDE DEF a, n
  <2>3. a + (n + 1) <= MaxValues  BY <1>3, <2>1, <2>2
  <2> QED  BY <2>2, <2>3 DEF a
<1>19. pc # "stopped" /\ pc' # "stopped"  BY <1>8
<1> QED  BY <1>8, <1>13, <1>15, <1>16, <1>17, <1>18, <1>19, QuietKeeps

\* The queue at the start and at the end.
LEMMA EmptyShape ==
    ASSUME NEW steady \in BOOLEAN
    PROVE  /\ Shape(EmptyQueue, {}, steady)
           /\ \A i : Gap(EmptyQueue, i) = 0
           /\ Gaps(EmptyQueue) = 0 /\ Surplus(EmptyQueue) = 0
           /\ \A i, v : Inside(EmptyQueue, i, v) = 0
<1> DEFINE Q == EmptyQueue
<1>1. /\ Q.pending = <<>> /\ Q.immediate = <<>> /\ Q.finished = <<>> /\ Q.sequences = <<>>
      /\ Q.pending_num = 0 /\ Q.processing_num = 0 /\ Q.finished_num = 0 /\ Q.woken = 0
      /\ Q \in Fields(Q)
  BY DEF EmptyQueue, Fields
<1> HIDE DEF Q
<1>2. /\ Registered(Q) = {} /\ Places(Q) = {}
      /\ \A i : Sequence(Q, i) = <<>>
  <2>1. Registered(Q) = {}  BY <1>1 DEF Registered
  <2> QED  BY <2>1 DEF Places, Sequence
<1>3. IsFiniteSet({}) /\ Cardinality({}) = 0  BY FS_EmptySet
<1>4. \A S : Count(<<>>, S) = 0  BY CountEmpty
<1>5. Shape(Q, {}, steady)
  <2>1. Q.pending \in Seq(PendingTasks) /\ Q.immediate \in Seq(RunTasks(steady))
        /\ Q.finished \in Seq(RunTasks(steady))
    BY <1>1
  <2>2. Q.sequences \in [Registered(Q) -> Seq(Tasks)]
    <3>1. DOMAIN Q.sequences = {} /\ Q.sequences = [i \in {} |-> 0]  BY <1>1
    <3> QED  BY <1>2, <3>1
  <2> QED  BY <1>1, <1>2, <1>3, <2>1, <2>2 DEF Shape
<1>6. \A i : Gap(Q, i) = 0  BY <1>1, <1>2, <1>4 DEF Gap
<1>7. Gaps(Q) = 0  BY <1>1, <1>2, <1>3, <1>4 DEF Gaps
<1>8. Surplus(Q) = 0
  <2>1. Len(<<>>) = 0  OBVIOUS
  <2> QED  BY <1>1, <1>2, <1>3, <1>4, <2>1 DEF Surplus
<1>9. \A i, v : Inside(Q, i, v) = 0
  <2> TAKE i, v
  <2>1. \A S : Count(Q.pending, S) = 0 /\ Count(Q.immediate, S) = 0
               /\ Count(Q.finished, S) = 0 /\ Count(Sequence(Q, i), S) = 0
    BY <1>1, <1>2, <1>4
  <2> QED  BY <2>1 DEF Inside
<1> QED  BY <1>5, <1>6, <1>7, <1>8, <1>9 DEF Q

\* Nobody has a task.
LEMMA NobodyHolds ==
    ASSUME NEW wk, \A w \in Workers : wk[w].state # "busy"
    PROVE  \A S : Holding(wk, S) = 0
<1> TAKE S
<1>1. BusyWith(wk, S) = {}  BY DEF BusyWith
<1> QED  BY <1>1, FS_EmptySet DEF Holding

\* The empty queue balances with idle workers.
LEMMA EmptyBalanced ==
    ASSUME NEW wk, \A w \in Workers : wk[w].state # "busy"
    PROVE  Balanced(EmptyQueue, wk)
<1>1. TRUE \in BOOLEAN  OBVIOUS
<1>2. /\ \A i : Gap(EmptyQueue, i) = 0
      /\ Gaps(EmptyQueue) = 0 /\ Surplus(EmptyQueue) = 0
  BY <1>1, EmptyShape
<1>3. \A S : Holding(wk, S) = 0  BY NobodyHolds
<1>4. EmptyQueue.processing_num = 0 /\ EmptyQueue.finished_num = Len(EmptyQueue.finished)
  BY DEF EmptyQueue
<1> QED  BY <1>2, <1>3, <1>4 DEF Balanced

\* The start.
LEMMA InitIInv ==
    ASSUME Init
    PROVE  IInv
<1> USE DEF Init
<1>1. NoTask \in Tasks  BY NewTasks
<1>2. worker \in [Workers -> WorkerStates] /\ \A w \in Workers : worker[w].state = "new"
  <2> HIDE DEF NoTask
  <2> QED  BY <1>1 DEF WorkerStates
<1>3. Busy = {} /\ Waiting = {}  BY <1>2 DEF Busy, Waiting
<1>4. WorkerShape  BY <1>2, <1>3 DEF WorkerShape, WorkerStates
<1>5. Balance
  <2>1. Balanced(q, worker)  BY <1>2, EmptyBalanced
  <2> QED  BY <1>2, <2>1, BalanceNow
<1>6. Shape(q, {}, syncs = 0)
  <2>1. (syncs = 0) \in BOOLEAN  OBVIOUS
  <2> QED  BY <2>1, EmptyShape
<1>7. Turn  BY PreprocAssumption DEF Turn
<1>8. Signals
  <2>1. q.woken = 0  BY DEF EmptyQueue
  <2> QED  BY <1>3, <2>1, FS_EmptySet DEF Signals, Awake
<1>9. Rest
  <2>1. <<>> \in Seq(Roots) /\ <<>> \in Seq(Values) /\ Len(<<>>) = 0  OBVIOUS
  <2>2. MaxValues \in Nat /\ MaxTests \in Nat /\ MaxSyncs \in Nat  BY PreprocAssumption
  <2> QED  BY <2>1, <2>2 DEF Rest
<1>10. Settled
  <2>1. ASSUME NEW i \in Roots, NEW v \in Values
        PROVE  Inside(q, i, v) + HeldCount(Own(i, v)) + Count(flushed[i], {v}) = Came(i, v)
    <3>1. Inside(q, i, v) = 0
      <4>1. TRUE \in BOOLEAN  OBVIOUS
      <4> QED  BY <4>1, EmptyShape
    <3>2. HeldCount(Own(i, v)) = 0
      <4>1. \A S : Holding(worker, S) = 0  BY <1>2, NobodyHolds
      <4> QED  BY <4>1, HeldNow
    <3>3. Count(flushed[i], {v}) = 0
      <4>1. flushed[i] = <<>>  BY DEF Roots
      <4> QED  BY <4>1, CountEmpty
    <3>4. Came(i, v) = 0  BY DEF Came
    <3> QED  BY <3>1, <3>2, <3>3, <3>4
  <2> QED  BY <2>1 DEF Settled
<1> QED  BY <1>4, <1>5, <1>6, <1>7, <1>8, <1>9, <1>10 DEF IInv

\* The end.
LEMMA FreeKeeps ==
    ASSUME IInv, Free
    PROVE  IInv'
<1> USE DEF Free
<1>1. worker \in [Workers -> WorkerStates] /\ worker' = worker
      /\ \A w \in Workers : worker'[w].state # "busy"
  BY DEF IInv, WorkerShape, WorkerStates
<1>2. WorkerShape'  BY <1>1 DEF WorkerShape, WorkerStates, Busy
<1>3. Balance'
  <2>1. Balanced(q', worker')  BY <1>1, EmptyBalanced
  <2> QED  BY <1>1, <2>1, BalanceNext
<1>4. Shape(q, {}, syncs = 0)'
  <2>1. (syncs' = 0) \in BOOLEAN  OBVIOUS
  <2>2. Shape(q', {}, syncs' = 0)  BY <2>1, EmptyShape
  <2> QED  BY <2>2
<1>5. Turn'  BY <1>1 DEF IInv, Turn, Busy
<1>6. Signals'
  <2>1. q'.woken = 0  BY DEF EmptyQueue
  <2>2. Waiting' = Waiting  BY DEF Waiting
  <2> QED  BY <2>1, <2>2, WaitingFinite DEF Signals, Stopping
<1>7. Rest'  BY DEF IInv, Rest
<1>8. Settled'
  <2>1. ASSUME NEW i \in Roots, NEW v \in Values
        PROVE  Count(flushed[i], {v}) <= Came(i, v)
    <3>1. Inside(q, i, v) + HeldCount(Own(i, v)) + Count(flushed[i], {v}) = Came(i, v)
      BY DEF IInv, Settled
    <3>2. Inside(q, i, v) \in Nat
      <4> DEFINE steady == (syncs = 0)
      <4>1. steady \in BOOLEAN /\ Shape(q, {}, steady)  BY DEF IInv
      <4> HIDE DEF steady
      <4>2. \A j \in Roots, u \in Values : Inside(q, j, u) \in Nat  BY <4>1, Measures
      <4> QED  BY <4>2
    <3>3. HeldCount(Own(i, v)) \in Nat  BY HeldNow, HoldingFinite
    <3>4. Count(flushed[i], {v}) \in Nat
      <4>1. flushed[i] \in Seq(Values)  BY DEF IInv, Rest, Roots
      <4> QED  BY <4>1, CountFinite
    <3> DEFINE a == Inside(q, i, v)
               b == HeldCount(Own(i, v))
               c == Count(flushed[i], {v})
    <3>5. a \in Nat /\ b \in Nat /\ c \in Nat /\ a + b + c = Came(i, v)
      BY <3>1, <3>2, <3>3, <3>4
    <3> HIDE DEF a, b, c
    <3>6. c <= Came(i, v)  BY <3>5
    <3> QED  BY <3>6 DEF c
  <2> QED  BY <2>1 DEF Settled, Came
<1> QED  BY <1>2, <1>3, <1>4, <1>5, <1>6, <1>7, <1>8 DEF IInv

\* One more value has come.
LEMMA CameOne ==
    ASSUME NEW i \in Roots, NEW a \in Arrivals, a.item = i,
           accepted \in Seq(Arrivals), accepted' = Append(accepted, a),
           NEW j \in Roots, NEW v \in Values
    PROVE  Came(j, v)' = Came(j, v) + (IF j = i /\ v = Len(accepted) + 1 THEN 1 ELSE 0)
<1> DEFINE n == Len(accepted)
<1>1. /\ n \in Nat /\ DOMAIN accepted = 1 .. n /\ DOMAIN accepted' = 1 .. n + 1
      /\ accepted'[n + 1] = a /\ \A k \in 1 .. n : accepted'[k] = accepted[k]
      /\ v \in Nat
  BY PreprocAssumption DEF Values
<1> HIDE DEF n
<1>2. v \in 1 .. n + 1 <=> v \in 1 .. n \/ v = n + 1  BY <1>1 DEF Values
<1>3. n + 1 \notin 1 .. n  BY <1>1
<1>4. CASE v = n + 1
  BY <1>1, <1>2, <1>3, <1>4 DEF Came, n
<1>5. CASE v # n + 1
  BY <1>1, <1>2, <1>5 DEF Came, n
<1> QED  BY <1>4, <1>5

\* A value arrives, with the configuration known at that time.
LEMMA ReceivedKeeps ==
    ASSUME IInv, NEW i \in Roots, NEW known, NEW none \in BOOLEAN, Received(i, known, none),
           UNCHANGED <<worker, tests>>, pc \in {"recv", "push"}, pc' = "push",
           items' \subseteq Items, syncs' \in 0 .. MaxSyncs,
           syncs' = 0 => syncs = 0 /\ items' = Items
    PROVE  IInv'
<1> DEFINE steady == (syncs = 0)
           v == Len(accepted) + 1
           came == [item |-> i, none |-> none]
           u == ValueTask(i, v)
           P == Push(q, u)
<1>1. steady \in BOOLEAN /\ Shape(q, {}, steady) /\ 0 \in Int  BY DEF IInv
<1>2. q.woken <= Cardinality(Waiting) /\ q.finished_num = Len(q.finished)
  BY DEF IInv, Signals, Balance
<1>3. /\ tests \in [received : 0 .. MaxTests, answered : Nat]
      /\ MaxTests \in Nat /\ MaxValues \in Nat
      /\ accepted \in Seq(Arrivals) /\ flushed \in [Items -> Seq(Values)] /\ i \in Items
      /\ came \in Arrivals /\ came.item = i
  BY PreprocAssumption DEF IInv, Rest, Roots, Arrivals
<1>4. /\ Len(accepted) \in Nat /\ v \in Nat \ {0} /\ v + tests.received <= MaxValues
      /\ tests.received \in Nat
      /\ accepted' = Append(accepted, came) /\ Len(accepted') = v
      /\ accepted' \in Seq(Arrivals)
  BY <1>3 DEF Received
<1>5. v \in Values
  <2> DEFINE n == tests.received
  <2>1. n \in Nat /\ v + n <= MaxValues  BY <1>4
  <2> HIDE DEF n, v
  <2> QED  BY <1>3, <1>4, <2>1 DEF Values
<1>6. \A j \in Roots, m \in Values :
         Came(j, m)' = Came(j, m) + (IF j = i /\ m = v THEN 1 ELSE 0)
  BY <1>3, <1>4, CameOne
<1>7. \A j \in Roots, m \in Values : Came(j, m) \in Nat /\ Count(flushed[j], {m}) \in Nat
  <2> TAKE j \in Roots, m \in Values
  <2>1. flushed[j] \in Seq(Values)  BY <1>3 DEF Roots
  <2>2. Count(flushed[j], {m}) \in Nat  BY <2>1, CountFinite
  <2> QED  BY <2>2 DEF Came
<1>8. /\ batch \in Nat /\ (pc = "push" => batch <= Len(accepted)) /\ (pc = "recv" => batch = 0)
  BY DEF IInv, Turn
<1>9. Waiting' = Waiting  BY DEF Waiting
<1>10. \A R : Shape(R, {}, steady) => Shape(R, {}, syncs' = 0)
  BY ShapeLater
<1>11. \/ q' = P /\ batch' = batch + 1 /\ flushed' = flushed
       \/ q' = q /\ batch' = batch /\ flushed' = [flushed EXCEPT ![i] = Append(@, v)]
  BY DEF Received
<1>12. ~Stopping /\ pc # "stopped" /\ pc' # "stopped"  BY DEF Stopping
<1> HIDE DEF v, steady, came
<1>13. CASE q' = P /\ batch' = batch + 1 /\ flushed' = flushed
  <2>1. Shape(P, {}, steady) /\ Effect(q, P, u, 0, 0, 1) /\ Kept(q, P)
    BY <1>1, <1>5, PushEffect
  <2>2. \A j \in Roots, m \in Values : u \in Own(j, m) <=> j = i /\ m = v
    <3>1. u \in Tasks  BY <1>5, NewTasks DEF PendingTasks
    <3> QED  BY <3>1 DEF Own, ValueTask, Task
  <2> HIDE DEF P, u
  <2>3. Managed(u, 1)
    BY <1>1, <1>2, <1>10, <1>13, <2>1 DEF Managed, Kept, steady
  <2>4. Settled'
    <3>1. \A j \in Roots, m \in Values :
             Count(flushed'[j], {m}) + (IF u \in Own(j, m) THEN 1 ELSE 0) + Came(j, m)
               = Count(flushed[j], {m}) + Came(j, m)'
      <4> TAKE j \in Roots, m \in Values
      <4> DEFINE a == Count(flushed[j], {m})
                 b == Came(j, m)
                 c == Came(j, m)'
                 d == IF j = i /\ m = v THEN 1 ELSE 0
      <4>1. a \in Nat /\ b \in Nat /\ c = b + d /\ d \in Nat  BY <1>6, <1>7
      <4>2. (IF u \in Own(j, m) THEN 1 ELSE 0) = d  BY <2>2
      <4>3. Count(flushed'[j], {m}) = a  BY <1>13
      <4> HIDE DEF a, b, c, d
      <4>4. a + d + b = a + c  BY <4>1
      <4> QED  BY <4>2, <4>3, <4>4 DEF a, b, c
    <3>2. SettledBy(u, 1)  BY <3>1 DEF SettledBy
    <3>3. flushed' \in [Items -> Seq(Values)]  BY <1>3, <1>13
    <3> QED  BY <1>12, <2>3, <3>2, <3>3, ManagedSettled, ZenonT(40)
  <2>5. Signals'  BY <1>2, <1>8, <1>9, <1>13, <2>1 DEF Signals, Kept
  <2>6. Turn'  BY <1>4, <1>8, <1>13 DEF Turn, v
  <2>7. Rest'  BY <1>3, <1>4, <1>13 DEF Rest
  <2>8. WorkerShape' /\ Balance'  BY <2>3, ManagedBalance
  <2>9. Shape(q, {}, syncs = 0)'  BY <2>3 DEF Managed
  <2> QED  BY <2>4, <2>5, <2>6, <2>7, <2>8, <2>9 DEF IInv
<1>14. CASE q' = q /\ batch' = batch /\ flushed' = [flushed EXCEPT ![i] = Append(@, v)]
  <2>1. Effect(q, q, NoTask, 0, 0, 0)  BY <1>1, EffectNone
  <2>2. Managed(NoTask, 0)
    BY <1>1, <1>2, <1>10, <1>14, <2>1 DEF Managed, steady
  <2>3. flushed[i] \in Seq(Values)  BY <1>3
  <2>4. flushed' \in [Items -> Seq(Values)]  BY <1>3, <1>5, <1>14, <2>3
  <2>5. Settled'
    <3>1. \A j \in Roots, m \in Values :
             Count(flushed'[j], {m}) = Count(flushed[j], {m}) + (IF j = i /\ m = v THEN 1 ELSE 0)
      <4> TAKE j \in Roots, m \in Values
      <4>1. flushed'[j] = IF j = i THEN Append(flushed[i], v) ELSE flushed[j]
        BY <1>3, <1>14 DEF Roots
      <4>2. Count(Append(flushed[i], v), {m}) = Count(flushed[i], {m}) + (IF v \in {m} THEN 1 ELSE 0)
        BY <1>5, <2>3, CountAppend
      <4>3. Count(flushed[j], {m}) \in Nat  BY <1>7
      <4> QED  BY <4>1, <4>2, <4>3
    <3>2. \A j \in Roots, m \in Values :
             Count(flushed'[j], {m}) + (IF NoTask \in Own(j, m) THEN 0 ELSE 0) + Came(j, m)
               = Count(flushed[j], {m}) + Came(j, m)'
      <4> TAKE j \in Roots, m \in Values
      <4> DEFINE a == Count(flushed[j], {m})
                 b == Came(j, m)
                 c == Came(j, m)'
                 d == IF j = i /\ m = v THEN 1 ELSE 0
                 e == Count(flushed'[j], {m})
      <4>1. a \in Nat /\ b \in Nat /\ c = b + d /\ d \in Nat /\ e = a + d
        BY <1>6, <1>7, <3>1
      <4> HIDE DEF a, b, c, d, e
      <4>2. e + 0 + b = a + c  BY <4>1
      <4>3. (IF NoTask \in Own(j, m) THEN 0 ELSE 0) = 0  OBVIOUS
      <4> QED  BY <4>2, <4>3 DEF a, b, c, e
    <3>3. SettledBy(NoTask, 0)  BY <3>2 DEF SettledBy
    <3> QED  BY <1>12, <2>2, <2>4, <3>3, ManagedSettled, ZenonT(40)
  <2>6. Signals'
    <3>1. Awake(q, Waiting) \/ (pc = "push" /\ batch > 0)  BY <1>12 DEF IInv, Signals
    <3> QED  BY <1>2, <1>9, <1>14, <3>1 DEF Signals
  <2>7. Turn'
    <3>1. batch <= Len(accepted')  BY <1>4, <1>8 DEF v
    <3> QED  BY <1>8, <1>14, <3>1 DEF Turn
  <2>8. Rest'  BY <1>3, <1>4, <2>4 DEF Rest
  <2>9. WorkerShape' /\ Balance'  BY <2>2, ManagedBalance
  <2>10. Shape(q, {}, syncs = 0)'  BY <2>2 DEF Managed
  <2> QED  BY <2>5, <2>6, <2>7, <2>8, <2>9, <2>10 DEF IInv
<1> QED  BY <1>11, <1>13, <1>14

\* A value arrives in a request under way, or with a new request.
LEMMA AddValueKeeps ==
    ASSUME IInv, NEW i \in Roots, NEW none \in BOOLEAN, AddValue(i, none)
    PROVE  IInv'
<1>1. /\ Received(i, items, none) /\ UNCHANGED <<worker, tests>> /\ pc \in {"recv", "push"}
      /\ pc' = "push" /\ items' = items /\ syncs' = syncs
  BY DEF AddValue
<1>2. items \subseteq Items /\ (syncs = 0 => items = Items) /\ syncs \in 0 .. MaxSyncs
  BY DEF IInv, Rest
<1> QED  BY <1>1, <1>2, ReceivedKeeps

LEMMA RequestKeeps ==
    ASSUME IInv, NEW i \in Roots, NEW none \in BOOLEAN, Request(i, none)
    PROVE  IInv'
<1>1. /\ Received(i, items', none) /\ UNCHANGED <<worker, tests>> /\ pc \in {"recv", "push"}
      /\ pc' = "push"
  BY DEF Request
<1>2. items \subseteq Items /\ (syncs = 0 => items = Items) /\ syncs \in 0 .. MaxSyncs
  BY DEF IInv, Rest
<1>3. /\ items' \subseteq Items /\ syncs' \in 0 .. MaxSyncs
      /\ syncs' = 0 => syncs = 0 /\ items' = Items
  <2>1. CASE UNCHANGED <<items, syncs>>  BY <1>2, <2>1
  <2>2. CASE /\ syncs < MaxSyncs /\ syncs' = syncs + 1
             /\ \E r \in Removable : items' = SymDiff(items, {r})
    <3>1. PICK r \in Removable : items' = SymDiff(items, {r})  BY <2>2
    <3>2. r \in Items  BY PreprocAssumption
    <3>3. items' \subseteq Items  BY <1>2, <3>1, <3>2 DEF SymDiff
    <3>4. syncs' \in 0 .. MaxSyncs /\ syncs' # 0  BY <1>2, <2>2, PreprocAssumption
    <3> QED  BY <3>3, <3>4
  <2> QED  BY <2>1, <2>2 DEF Request
<1> DEFINE known == items'
<1>4. Received(i, known, none)  BY <1>1
<1> HIDE DEF known
<1> QED  BY <1>1, <1>3, <1>4, ReceivedKeeps

\* A container that is in no list belongs to a sequence.
LEMMA GapRegistered ==
    ASSUME NEW Q, NEW E, NEW steady \in BOOLEAN, Shape(Q, E, steady), NEW i \in Items,
           Gap(Q, i) >= 1
    PROVE  i \in Registered(Q)
<1>1. Count(Q.immediate, {SequenceTask(i)}) \in Nat /\ Count(Q.finished, {SequenceTask(i)}) \in Nat
  BY Lists
<1> QED  BY <1>1 DEF Gap

\* The first finished task is taken from its list.
Taken(Q) == [Q EXCEPT !.finished = Tail(@), !.finished_num = @ - 1]

LEMMA TakenOff ==
    ASSUME NEW Q, NEW steady \in BOOLEAN, Shape(Q, {}, steady), Q.finished # <<>>,
           Q.finished_num = Len(Q.finished)
    PROVE  LET t == Head(Q.finished)
               P == Taken(Q)
           IN  /\ t \in RunTasks(steady) /\ Shape(P, {}, steady)
               /\ Effect(Q, P, t, Box(t), 0 - Box(t), -1)
               /\ P.finished_num = Len(P.finished) /\ P.processing_num = Q.processing_num
               /\ P.woken = Q.woken /\ P.pending = Q.pending /\ P.immediate = Q.immediate
               /\ P.sequences = Q.sequences
<1> DEFINE t == Head(Q.finished)
           P == Taken(Q)
<1>1. /\ Q \in Fields(Q) /\ Q.processing_num \in Int /\ Q.finished_num \in Int
      /\ Q.pending_num \in Int /\ Q.woken \in Nat /\ Q.finished \in Seq(RunTasks(steady))
  BY DEF Shape
<1>2. /\ P \in Fields(P) /\ P.sequences = Q.sequences /\ P.pending_num = Q.pending_num
      /\ P.pending = Q.pending /\ P.immediate = Q.immediate /\ P.finished = Tail(Q.finished)
      /\ P.finished_num = Q.finished_num - 1 /\ P.processing_num = Q.processing_num
      /\ P.woken = Q.woken
  BY <1>1 DEF Fields, Taken
<1> HIDE DEF P
<1>3. Relisted(Q, P, 0) /\ 0 \in Int  BY <1>1, <1>2 DEF Relisted
<1>4. /\ t \in RunTasks(steady) /\ Shape(P, {}, steady)
      /\ Effect(Q, P, t, Box(t), 0 - Box(t), -1)
  BY <1>2, <1>3, FinishedShrinks, ZenonT(40)
<1>5. P.finished_num = Len(P.finished)  BY <1>1, <1>2
<1> QED  BY <1>2, <1>4, <1>5 DEF P

\* A handled task: the rest of its sequence, its result, its container.
Rested(Q, i) == [Q EXCEPT !.sequences[i] = Tail(@)]

LEMMA SequenceHandled ==
    ASSUME NEW Q, NEW R, NEW steady \in BOOLEAN, Shape(Q, {}, steady), Shape(R, {}, steady),
           NEW i \in Items, Effect(Q, R, SequenceTask(i), 1, -1, -1), Gap(R, i) >= 1,
           items \subseteq Items, steady => items = Items
    PROVE  LET u == Head(R.sequences[i])
               P == Requeue(TaskResult(Rested(R, i), u), SequenceTask(i))
           IN  /\ Shape(P, {}, steady) /\ Effect(Q, P, u, 0, 0, -1)
               /\ u \in MemberTasks(i, steady) /\ Handled(R, P)
<1> DEFINE u == Head(R.sequences[i])
           c == SequenceTask(i)
           S == Rested(R, i)
           T == TaskResult(S, u)
           P == Requeue(T, c)
<1>1. i \in Registered(R) /\ R.sequences[i] # <<>>
  <2>1. i \in Registered(R)  BY GapRegistered
  <2> QED  BY <2>1 DEF Shape
<1>2. /\ Shape(S, {i} \cup {}, steady) /\ Effect(R, S, u, 0, 1, -1)
      /\ u \in MemberTasks(i, steady)
      /\ S.finished = R.finished /\ S.finished_num = R.finished_num
      /\ S.processing_num = R.processing_num /\ S.woken = R.woken
      /\ S.pending = R.pending /\ S.immediate = R.immediate
  BY <1>1, RestEffect DEF Rested
<1>3. u.item = i  BY <1>2 DEF MemberTasks
<1>4. Shape(S, {i}, steady)
  <2>1. {i} \cup {} = {i}  OBVIOUS
  <2> QED  BY <1>2, <2>1
<1>5. c.item = i /\ c.type = "sequence"  BY NewTasks
<1> HIDE DEF S, u
<1>6. Shape(T, {i}, steady) /\ Effect(S, T, u, 0, 0, 0) /\ Handled(S, T)
  <2>1. u.item \in Items /\ u \in MemberTasks(u.item, steady)  BY <1>2, <1>3
  <2> QED  BY <1>4, <2>1, TaskResultEffect, ZenonT(40)
<1> HIDE DEF T
<1>7. /\ 0 \in Int /\ 1 \in Int /\ -1 \in Int /\ 0 + 0 = 0 /\ 1 + 0 = 1 /\ 0 + 1 = 1
      /\ -1 + 0 = -1 /\ -1 + 1 = 0 /\ 0 + (-1) = -1 /\ 1 + (-1) = 0
  OBVIOUS
<1>8. Effect(R, T, u, 0, 1, -1)
  <2>1. Effect(R, T, u, 0 + 0, 1 + 0, -1 + 0)
    <3>1. Effect(R, S, u, 0, 1, -1) /\ Effect(S, T, u, 0, 0, 0)  BY <1>2, <1>6
    <3> QED  BY <1>7, <3>1, EffectSum, ZenonT(40)
  <2> QED  BY <1>7, <2>1
<1>9. i \in Registered(T)
  <2>1. Gap(T, i) = Gap(R, i)
    <3>1. \A j \in Items : Gap(R, j) \in Int  BY Measures
    <3> QED  BY <1>8, <3>1 DEF Effect
  <2> QED  BY <1>6, <2>1, GapRegistered
<1>10. Shape(P, {}, steady) /\ Effect(T, P, c, -1, 0, 0) /\ Handled(T, P)
  BY <1>6, <1>9, RequeueEffect
<1> HIDE DEF P
<1>11. Effect(T, P, u, -1, 0, 0)
  <2> HIDE DEF c
  <2> QED  BY <1>3, <1>5, <1>6, <1>7, <1>10, EffectOther, ZenonT(40)
<1>12. Effect(Q, R, u, 1, -1, 0)
  <2>1. Effect(Q, R, c, 1, -1, 0)  BY <1>5, EffectAny
  <2> HIDE DEF c
  <2> QED  BY <1>3, <1>5, <1>7, <2>1, EffectOther, ZenonT(40)
<1>13. Effect(Q, T, u, 1, 0, -1)
  <2>1. Effect(Q, T, u, 1 + 0, -1 + 1, 0 + (-1))
    BY <1>7, <1>8, <1>12, EffectSum, ZenonT(40)
  <2> QED  BY <1>7, <2>1
<1>14. Effect(Q, P, u, 0, 0, -1)
  <2>1. Effect(Q, P, u, 1 + (-1), 0 + 0, -1 + 0)
    BY <1>7, <1>11, <1>13, EffectSum, ZenonT(40)
  <2> QED  BY <1>7, <2>1
<1>15. Handled(R, S)  BY <1>2 DEF Handled, Awake
<1>16. Handled(R, P)  BY <1>6, <1>10, <1>15 DEF Handled
<1> QED  BY <1>2, <1>10, <1>14, <1>16 DEF P, T, S, u

\* A turn of the manager with a finished task, R being the queue without it.
Handling(R) ==
    /\ pc = "finish" /\ pc' = pc /\ batch < MaxBatch /\ batch' = batch + 1
    /\ UNCHANGED <<worker, items, accepted, syncs>>
    /\ R.finished_num = Len(R.finished) /\ R.processing_num = q.processing_num
    /\ R.woken = q.woken /\ R.pending = q.pending /\ R.immediate = q.immediate
    /\ Handled(R, q')

\* The manager's own part of such a turn.
LEMMA HandlingTurn ==
    ASSUME IInv, NEW R, Handling(R)
    PROVE  Turn' /\ Signals'
<1> USE DEF Handling
<1>1. batch \in Nat /\ MaxBatch \in Nat  BY PreprocAssumption DEF IInv, Turn
<1>2. batch' \in Nat /\ batch' <= MaxBatch  BY <1>1
<1>3. Turn'  BY <1>2 DEF Turn
<1>4. ~Stopping /\ pc # "push"  BY DEF Stopping
<1>5. q.woken <= Cardinality(Waiting) /\ Awake(q, Waiting)
  BY <1>4 DEF IInv, Signals
<1>6. R.woken <= Cardinality(Waiting) /\ Awake(R, Waiting)
  BY <1>5 DEF Awake
<1>7. Waiting' = Waiting  BY DEF Waiting
<1>8. q'.woken <= Cardinality(Waiting) /\ Awake(q', Waiting)  BY <1>6 DEF Handled
<1> QED  BY <1>3, <1>7, <1>8 DEF Signals, Awake

LEMMA HandlingManaged ==
    ASSUME NEW R, Handling(R), NEW t, NEW k \in Int, Shape(q', {}, syncs = 0),
           Effect(q, q', t, 0, 0, k)
    PROVE  Managed(t, k)
BY DEF Handling, Managed, Handled

\* The value is handed on that the task stands for.
FlushOf(u) ==
    /\ u.value \in Values /\ u.primary \in Items
    /\ \A j \in Roots, m \in Values : u \in Own(j, m) <=> u.primary = j /\ u.value = m
    /\ flushed' = [flushed EXCEPT ![u.primary] = Append(@, u.value)]

LEMMA FlushKeeps ==
    ASSUME IInv, NEW R, Handling(R), NEW u, FlushOf(u), UNCHANGED tests,
           Shape(q', {}, syncs = 0), Effect(q, q', u, 0, 0, -1)
    PROVE  IInv'
<1> USE DEF FlushOf
<1>1. Managed(u, -1)
  <2>1. -1 \in Int  OBVIOUS
  <2> QED  BY <2>1, HandlingManaged
<1>2. Turn' /\ Signals'  BY HandlingTurn
<1>3. pc = "finish" /\ pc' = pc /\ UNCHANGED <<worker, items, accepted, syncs>>  BY DEF Handling
<1>4. flushed \in [Items -> Seq(Values)]  BY DEF IInv, Rest
<1>5. flushed' \in [Items -> Seq(Values)]
  <2>1. flushed[u.primary] \in Seq(Values)  BY <1>4
  <2>2. Append(flushed[u.primary], u.value) \in Seq(Values)  BY <2>1
  <2> QED  BY <1>4, <2>2
<1>6. SettledBy(u, -1)
  <2>1. ASSUME NEW j \in Roots, NEW m \in Values
        PROVE  Count(flushed'[j], {m}) + (IF u \in Own(j, m) THEN -1 ELSE 0) + Came(j, m)
                 = Count(flushed[j], {m}) + Came(j, m)'
    <3> DEFINE a == Count(flushed[j], {m})
               b == Count(flushed'[j], {m})
               c == Came(j, m)
               d == IF u.primary = j /\ u.value = m THEN 1 ELSE 0
    <3>1. j \in Items /\ flushed[j] \in Seq(Values)  BY <1>4 DEF Roots
    <3>2. a \in Nat  BY <3>1, CountFinite
    <3>3. c \in Nat /\ Came(j, m)' = c  BY <1>3 DEF Came
    <3>4. flushed'[j] = IF u.primary = j THEN Append(flushed[j], u.value) ELSE flushed[j]
      BY <1>4, <3>1
    <3>5. Count(Append(flushed[j], u.value), {m})
            = a + (IF u.value \in {m} THEN 1 ELSE 0)
      BY <3>1, CountAppend
    <3>6. b = a + d  BY <3>2, <3>4, <3>5
    <3>7. (IF u \in Own(j, m) THEN -1 ELSE 0) = 0 - d  OBVIOUS
    <3>8. d \in Nat  OBVIOUS
    <3> HIDE DEF a, b, c, d
    <3>9. b + (0 - d) + c = a + c  BY <3>2, <3>3, <3>6, <3>8
    <3> QED  BY <3>3, <3>7, <3>9 DEF a, b, c
  <2> QED  BY <2>1 DEF SettledBy
<1>7. Settled'  BY <1>1, <1>3, <1>5, <1>6, ManagedSettled, ZenonT(40)
<1>8. WorkerShape' /\ Balance'  BY <1>1, ManagedBalance
<1>9. Rest'  BY <1>3, <1>5 DEF IInv, Rest
<1>10. Shape(q, {}, syncs = 0)'  BY <1>3
<1> QED  BY <1>2, <1>7, <1>8, <1>9, <1>10 DEF IInv

\* The value, when the task belongs to a sequence.
LEMMA MemberFlush ==
    ASSUME NEW steady \in BOOLEAN, NEW i \in Items, NEW u \in MemberTasks(i, steady),
           flushed' = [flushed EXCEPT ![u.primary] = Append(@, u.value)]
    PROVE  FlushOf(u)
<1>1. u.value \in Values /\ u.item = i /\ u \in Tasks  BY DEF MemberTasks
<1>2. CASE u.type = "value_seq"
  <2>1. u.primary = i  BY <1>2 DEF MemberTasks
  <2> QED  BY <1>1, <1>2, <2>1 DEF FlushOf, Own
<1>3. CASE u.type = "dependent"
  <2>1. u.primary \in Range(Deps[i])  BY <1>3 DEF MemberTasks
  <2>2. u.primary \in Items /\ u.primary \notin Roots
    <3>1. Deps[i] \in Seq(Items)  BY PreprocAssumption
    <3> QED  BY <2>1, <3>1 DEF Range, Roots, Dependent
  <2> QED  BY <1>1, <1>3, <2>2 DEF FlushOf, Own
<1> QED  BY <1>2, <1>3 DEF MemberTasks

\* A finished task is handled.
LEMMA ProcessFinishedKeeps ==
    ASSUME IInv, ProcessFinished
    PROVE  IInv'
<1> DEFINE steady == (syncs = 0)
           t == Head(q.finished)
           R == Taken(q)
           i == t.item
           u == Head(R.sequences[i])
<1>1. /\ steady \in BOOLEAN /\ Shape(q, {}, steady) /\ q.finished_num = Len(q.finished)
      /\ items \subseteq Items /\ (steady => items = Items)
  BY DEF IInv, Balance, Rest
<1>2. /\ pc = "finish" /\ pc' = pc /\ batch < MaxBatch /\ batch' = batch + 1
      /\ q.finished # <<>> /\ UNCHANGED <<worker, items, accepted, syncs>>
  BY DEF ProcessFinished
<1> HIDE DEF steady
<1>3. /\ t \in RunTasks(steady) /\ Shape(R, {}, steady)
      /\ Effect(q, R, t, Box(t), 0 - Box(t), -1)
      /\ R.finished_num = Len(R.finished) /\ R.processing_num = q.processing_num
      /\ R.woken = q.woken /\ R.pending = q.pending /\ R.immediate = q.immediate
      /\ R.sequences = q.sequences
  BY <1>1, <1>2, TakenOff
<1>4. /\ 0 \in Int /\ -1 \in Int /\ 0 + 0 = 0 /\ -1 + 0 = -1 /\ 0 - 0 = 0 /\ 0 - 1 = -1
      /\ \A P : Shape(P, {}, steady) => Shape(P, {}, syncs = 0)
  BY DEF steady
<1>5. \/ /\ t.type = "value" /\ q' = ValueTaskResult(R, t) /\ UNCHANGED tests
         /\ flushed' = [flushed EXCEPT ![t.primary] = Append(@, t.value)]
      \/ /\ t.type = "sequence" /\ q' = Requeue(TaskResult(Rested(R, i), u), t)
         /\ flushed' = [flushed EXCEPT ![u.primary] = Append(@, u.value)]
         /\ UNCHANGED tests
      \/ /\ t.type = "test" /\ q' = R /\ tests' = [tests EXCEPT !.answered = @ + 1]
         /\ UNCHANGED flushed
  BY <1>3 DEF ProcessFinished, Taken, Rested
<1>6. ASSUME Handled(R, q') PROVE Handling(R)
  BY <1>2, <1>3, <1>6 DEF Handling
<1> HIDE DEF R, u
<1>7. CASE /\ t.type = "value" /\ q' = ValueTaskResult(R, t) /\ UNCHANGED tests
           /\ flushed' = [flushed EXCEPT ![t.primary] = Append(@, t.value)]
  <2>1. /\ t.primary = t.item /\ t.value \in Values /\ t.primary \in Items /\ t \in Tasks
        /\ Box(t) = 0
    BY <1>3, <1>7 DEF RunTasks, Box, Tasks
  <2>2. FlushOf(t)  BY <1>7, <2>1 DEF FlushOf, Own
  <2> HIDE DEF t
  <2>3. Shape(q', {}, steady) /\ Effect(R, q', t, 0, 0, 0) /\ Handled(R, q')
    BY <1>1, <1>3, <1>7, <2>1, ValueTaskResultEffect, ZenonT(40)
  <2>4. Effect(q, R, t, 0, 0, -1)  BY <1>3, <1>4, <2>1
  <2>5. Effect(q, q', t, 0 + 0, 0 + 0, -1 + 0)
    BY <1>1, <1>4, <2>3, <2>4, EffectSum, ZenonT(40)
  <2>6. Effect(q, q', t, 0, 0, -1)  BY <1>4, <2>5
  <2>7. Handling(R)  BY <1>6, <2>3
  <2>8. Shape(q', {}, syncs = 0)  BY <1>4, <2>3
  <2> QED  BY <1>7, <2>2, <2>6, <2>7, <2>8, FlushKeeps, ZenonT(40)
<1>8. CASE /\ t.type = "sequence" /\ q' = Requeue(TaskResult(Rested(R, i), u), t)
           /\ flushed' = [flushed EXCEPT ![u.primary] = Append(@, u.value)]
           /\ UNCHANGED tests
  <2>1. t = SequenceTask(i) /\ i \in Items /\ Box(t) = 1
    BY <1>3, <1>8 DEF RunTasks, Box, Tasks
  <2>2. Effect(q, R, SequenceTask(i), 1, -1, -1)  BY <1>3, <1>4, <2>1
  <2>3. Gap(R, i) >= 1
    <3>1. Gap(q, i) \in Nat
      <4>1. Gap(q, i) = HeldCount({SequenceTask(i)})  BY <2>1 DEF IInv, Balance
      <4>2. HeldCount({SequenceTask(i)}) \in Nat  BY HeldNow, HoldingFinite
      <4> QED  BY <4>1, <4>2
    <3>2. Gap(R, i) = Gap(q, i) + 1  BY <1>3, <2>1 DEF Effect
    <3> QED  BY <3>1, <3>2
  <2> HIDE DEF t, i
  <2>4. LET P == Requeue(TaskResult(Rested(R, i), u), SequenceTask(i))
        IN  /\ Shape(P, {}, steady) /\ Effect(q, P, u, 0, 0, -1)
            /\ u \in MemberTasks(i, steady) /\ Handled(R, P)
    BY <1>1, <1>3, <2>1, <2>2, <2>3, SequenceHandled DEF u
  <2>5. /\ Shape(q', {}, steady) /\ Effect(q, q', u, 0, 0, -1)
        /\ u \in MemberTasks(i, steady) /\ Handled(R, q')
    BY <1>8, <2>1, <2>4, ZenonT(40)
  <2>6. Handling(R) /\ Shape(q', {}, syncs = 0)  BY <1>4, <1>6, <2>5
  <2>7. FlushOf(u)  BY <1>1, <1>8, <2>1, <2>5, MemberFlush
  <2> QED  BY <1>8, <2>5, <2>6, <2>7, FlushKeeps, ZenonT(40)
<1>9. CASE /\ t.type = "test" /\ q' = R /\ tests' = [tests EXCEPT !.answered = @ + 1]
           /\ UNCHANGED flushed
  <2>1. Box(t) = 0  BY <1>9 DEF Box
  <2> HIDE DEF t
  <2>2. Effect(q, q', t, 0, 0, 0)
    <3>1. Effect(q, R, t, 0, 0, -1)  BY <1>3, <1>4, <2>1
    <3>2. t.type \notin {"value", "value_seq"}  BY <1>9
    <3> QED  BY <1>9, <3>1, <3>2, EffectAny, ZenonT(40)
  <2>3. Handling(R)
    <3>1. Handled(R, R)  BY DEF Handled
    <3> QED  BY <1>6, <1>9, <3>1
  <2>4. Shape(q', {}, syncs = 0)  BY <1>3, <1>4, <1>9
  <2>5. Managed(t, 0)  BY <1>4, <2>2, <2>3, <2>4, HandlingManaged
  <2>6. Turn' /\ Signals'  BY <2>3, HandlingTurn
  <2>7. tests' \in [received : 0 .. MaxTests, answered : Nat] /\ tests'.received = tests.received
    <3>1. tests \in [received : 0 .. MaxTests, answered : Nat]  BY DEF IInv, Rest
    <3>2. tests.answered + 1 \in Nat  BY <3>1
    <3>3. tests' = [tests EXCEPT !.answered = tests.answered + 1]  BY <1>9
    <3> QED  BY <3>1, <3>2, <3>3
  <2>8. Len(accepted) + tests'.received <= MaxValues  BY <2>7 DEF IInv, Rest
  <2>9. pc # "stopped" /\ pc' # "stopped"  BY <1>2
  <2> QED  BY <1>2, <1>9, <2>5, <2>6, <2>7, <2>8, <2>9, QuietKeeps, ZenonT(40)
<1> QED  BY <1>5, <1>7, <1>8, <1>9

\* Every step keeps the invariant.
LEMMA NextKeeps ==
    ASSUME IInv, [Next]_vars
    PROVE  IInv'
<1>1. CASE UNCHANGED vars  BY <1>1, StutterKeeps
<1>2. CASE ManagerStep
  <2>1. CASE Create \/ EndRequest \/ NoMessage \/ BeginFinished \/ EndFinished  BY <2>1, TurnKeeps
  <2>2. CASE ProcessFinished  BY <2>2, ProcessFinishedKeeps
  <2>3. CASE Free  BY <2>3, FreeKeeps
  <2> QED  BY <1>2, <2>1, <2>2, <2>3 DEF ManagerStep
<1>3. CASE \E w \in Workers : WorkerStep(w) \/ SpuriousWake(w)
  <2>1. PICK w \in Workers : WorkerStep(w) \/ SpuriousWake(w)  BY <1>3
  <2>2. CASE StartWorker(w)  BY <2>2, StartWorkerKeeps
  <2>3. CASE Wake(w)  BY <2>3, WakeKeeps
  <2>4. CASE \E result \in BOOLEAN : Finish(w, result)
    <3>1. PICK result \in BOOLEAN : Finish(w, result)  BY <2>4
    <3> QED  BY <3>1, FinishKeeps
  <2>5. CASE SpuriousWake(w)  BY <2>5, SpuriousWakeKeeps
  <2> QED  BY <2>1, <2>2, <2>3, <2>4, <2>5 DEF WorkerStep
<1>4. CASE TestRequest  BY <1>4, TestRequestKeeps
<1>5. CASE Stop  BY <1>5, TurnKeeps
<1>6. CASE \E i \in Roots, none \in BOOLEAN : Request(i, none) \/ AddValue(i, none)
  <2>1. PICK i \in Roots, none \in BOOLEAN : Request(i, none) \/ AddValue(i, none)  BY <1>6
  <2>2. CASE Request(i, none)  BY <2>2, RequestKeeps
  <2>3. CASE AddValue(i, none)  BY <2>3, AddValueKeeps
  <2> QED  BY <2>1, <2>2, <2>3
<1> QED  BY <1>1, <1>2, <1>3, <1>4, <1>5, <1>6 DEF Next

\* The inductive invariant holds in every behaviour of the manager, its queue
\* and its workers: the lists and sequences hold the tasks they may hold, the
\* counters balance, signals suffice, and each value received is in one place.
THEOREM PreprocInvariant == Spec => []IInv
<1>1. Init => IInv  BY InitIInv
<1>2. IInv /\ [Next]_vars => IInv'  BY NextKeeps
<1> QED  BY <1>1, <1>2, PTL DEF Spec

----------------------------------------------------------------------------
(* The properties of Preproc. *)

\* What the invariant says of the queue.
LEMMA QueueFacts ==
    ASSUME IInv
    PROVE  /\ \A S : HeldCount(S) \in Nat
           /\ q.pending \in Seq(Tasks) /\ q.immediate \in Seq(Tasks) /\ q.finished \in Seq(Tasks)
           /\ q.pending_num \in Nat
           /\ \A S : Count(q.immediate, S) \in Nat /\ Count(q.finished, S) \in Nat
           /\ Cardinality(Places(q)) \in Nat
<1> DEFINE steady == (syncs = 0)
<1>1. steady \in BOOLEAN /\ Shape(q, {}, steady)  BY DEF IInv
<1>2. worker \in [Workers -> WorkerStates]  BY DEF IInv, WorkerShape, WorkerStates
<1>3. Balanced(q, worker)  BY <1>2, BalanceNow DEF IInv
<1> HIDE DEF steady
<1>4. q.pending_num \in Nat  BY <1>1, <1>3, PendingCovers
<1>5. /\ q.pending \in Seq(Tasks) /\ q.immediate \in Seq(Tasks) /\ q.finished \in Seq(Tasks)
      /\ \A S : Count(q.pending, S) \in Nat /\ Count(q.immediate, S) \in Nat
                  /\ Count(q.finished, S) \in Nat
      /\ Cardinality(Registered(q)) \in Nat /\ Cardinality(Places(q)) \in Nat
  BY <1>1, Lists
<1>6. \A S : HeldCount(S) \in Nat  BY HeldNow, HoldingFinite
<1> QED  BY <1>4, <1>5, <1>6

\* The properties that the runs check follow from the invariant.
LEMMA TypeFollows ==
    ASSUME IInv
    PROVE  TypeOK
<1>1. {q.pending, q.immediate, q.finished} \subseteq Seq(Tasks) /\ q.pending_num \in Nat
  BY QueueFacts
<1>2. Registered(q) \subseteq Items /\ \A i \in Registered(q) : q.sequences[i] \in Seq(Tasks)
  BY DEF IInv, Shape
<1>3. q.processing_num \in Nat /\ q.finished_num \in Nat
  <2>1. q.finished \in Seq(Tasks)  BY QueueFacts
  <2>2. Len(q.finished) \in Nat  BY <2>1
  <2>3. IsFiniteSet(Workers) /\ Busy \in SUBSET Workers
    BY PreprocAssumption DEF Busy
  <2>4. Cardinality(Busy) \in Nat  BY <2>3, FS_Subset, FS_CardinalityType
  <2> QED  BY <2>2, <2>4 DEF IInv, Balance
<1>4. q.woken \in 0 .. Cardinality(Waiting)
  <2>1. q.woken \in Nat /\ q.woken <= Cardinality(Waiting)  BY DEF IInv, Shape, Signals
  <2> QED  BY <2>1, WaitingFinite
<1>5. batch \in 0 .. MaxBatch + MaxValues /\ Len(accepted) <= MaxValues
  <2> DEFINE a == Len(accepted)
             n == tests.received
  <2>1. a \in Nat /\ n \in Nat /\ a + n <= MaxValues
    <3>1. accepted \in Seq(Arrivals)  BY DEF IInv, Rest
    <3>2. n \in Nat  BY PreprocAssumption DEF IInv, Rest
    <3> QED  BY <3>1, <3>2 DEF IInv, Rest
  <2>2. /\ batch \in Nat /\ MaxBatch \in Nat /\ MaxValues \in Nat
        /\ batch <= a \/ batch <= MaxBatch \/ batch = 0
    BY PreprocAssumption DEF IInv, Turn
  <2> HIDE DEF a, n
  <2>3. a <= MaxValues /\ batch \in 0 .. MaxBatch + MaxValues  BY <2>1, <2>2
  <2> QED  BY <2>3 DEF a
<1> QED  BY <1>1, <1>2, <1>3, <1>4, <1>5 DEF TypeOK, IInv, WorkerShape, Turn, Rest, Values

LEMMA CountersFollow ==
    ASSUME IInv
    PROVE  CountersExact
<1> DEFINE n == q.pending_num
           a == Len(q.pending)
           b == Len(q.immediate)
           c == Count(q.immediate, Containers)
           d == Cardinality(Places(q))
           e == Count(q.finished, Containers)
           h == HeldCount(Containers)
<1>1. n \in Nat /\ a \in Nat /\ b \in Nat /\ c \in Nat /\ d \in Nat /\ e \in Nat /\ h \in Nat
  BY QueueFacts
<1>2. n - (a + b - c + d - e) = - h  BY DEF IInv, Balance, Surplus
<1> HIDE DEF n, a, b, c, d, e, h
<1>3. n = (a + b - c) + d - (e + h)  BY <1>1, <1>2
<1> QED  BY <1>3 DEF CountersExact, IInv, Balance, n, a, b, c, d, e, h

LEMMA NoneForgottenFollows ==
    ASSUME IInv
    PROVE  NoneForgotten
<1>1. Stopping \/ Awake(q, Waiting) \/ pc = "push"  BY DEF IInv, Signals
<1>2. Startable(q) # {} => q.pending # <<>>  BY DEF Startable
<1>3. q.woken \in Nat  BY DEF IInv, Shape
<1> QED  BY <1>1, <1>2, <1>3 DEF NoneForgotten, Awake, Unlocked

\* A container has one worker at most.
LEMMA ContainerOnce ==
    ASSUME IInv, NEW i \in Items, NEW v \in Busy, NEW w \in Busy,
           worker[v].task = SequenceTask(i), worker[w].task = SequenceTask(i)
    PROVE  v = w /\ i \in Registered(q)
<1> DEFINE steady == (syncs = 0)
           B == BusyWith(worker, {SequenceTask(i)})
<1>1. steady \in BOOLEAN /\ Shape(q, {}, steady)  BY DEF IInv
<1>2. worker \in [Workers -> WorkerStates]  BY DEF IInv, WorkerShape, WorkerStates
<1>3. Balanced(q, worker)  BY <1>2, BalanceNow DEF IInv
<1> HIDE DEF steady
<1>4. i \in Registered(q)  BY <1>1, <1>3, HeldRegistered DEF Busy
<1>5. Count(q.immediate, {SequenceTask(i)}) \in Nat /\ Count(q.finished, {SequenceTask(i)}) \in Nat
  BY QueueFacts
<1>6. Gap(q, i) <= 1  BY <1>4, <1>5 DEF Gap
<1>7. IsFiniteSet(B) /\ Cardinality(B) \in Nat  BY HoldingFinite DEF Holding
<1>8. Cardinality(B) <= 1  BY <1>3, <1>6 DEF Balanced, Holding
<1>9. v \in B /\ w \in B  BY DEF BusyWith, Busy
<1>10. v = w
  <2> SUFFICES ASSUME v # w PROVE FALSE  OBVIOUS
  <2> HIDE DEF B
  <2>1. IsFiniteSet(B \ {v}) /\ Cardinality(B \ {v}) = Cardinality(B) - 1
    BY <1>7, <1>9, FS_RemoveElement
  <2>2. Cardinality(B \ {v}) # 0  BY <1>9, <2>1, FS_EmptySet
  <2>3. Cardinality(B \ {v}) \in Nat  BY <2>1, FS_CardinalityType
  <2> QED  BY <1>7, <1>8, <2>1, <2>2, <2>3
<1> QED  BY <1>4, <1>10

\* The item that a worker runs, as long as the configuration stays the same.
LEMMA RunningItem ==
    ASSUME IInv, syncs = 0, NEW w \in Busy, worker[w].task.type # "test", Running(w) \in Serial
    PROVE  \E i \in Items :
             /\ worker[w].task = SequenceTask(i)
             /\ \/ Running(w) = i /\ i \notin Sharing
                \/ /\ Running(w) \in Range(Deps[i]) /\ Running(w) \in Sharing
<1> DEFINE t == worker[w].task
           i == t.item
           u == q.sequences[i][1]
<1>1. t \in RunTasks(TRUE)  BY DEF IInv, WorkerShape
<1>2. CASE t.type = "value"
  <2>1. t.primary = t.item /\ t.item \notin Serial  BY <1>1, <1>2 DEF RunTasks
  <2> QED  BY <1>2, <2>1 DEF Running
<1>3. CASE t.type = "sequence"
  <2>1. t = SequenceTask(i) /\ i \in Items  BY <1>1, <1>3 DEF RunTasks, Tasks
  <2>2. i \in Registered(q)  BY <2>1, ContainerOnce
  <2>3. q.sequences[i] \in Seq(MemberTasks(i, TRUE)) /\ q.sequences[i] # <<>>
    BY <2>2 DEF IInv, Shape
  <2>4. u \in MemberTasks(i, TRUE)
    <3> DEFINE s == q.sequences[i]
               M == MemberTasks(i, TRUE)
    <3>1. s \in Seq(M) /\ s # <<>>  BY <2>3
    <3> HIDE DEF s, M
    <3>2. s[1] \in M  BY <3>1
    <3> QED  BY <3>2 DEF s, M
  <2>5. Running(w) = u.primary  BY <1>3 DEF Running
  <2> HIDE DEF t, u
  <2>6. \/ u.primary = i /\ i \notin Sharing
        \/ u.primary \in Range(Deps[i]) /\ CacheIndexes(i) # {} /\ u.primary = FirstCached(i)
    BY <2>4 DEF MemberTasks
  <2>7. CacheIndexes(i) # {} => FirstCached(i) \in Sharing  BY <2>1 DEF Sharing
  <2> QED  BY <2>1, <2>5, <2>6, <2>7 DEF t
<1> QED  BY <1>1, <1>2, <1>3 DEF RunTasks

LEMMA SerialFollows ==
    ASSUME IInv
    PROVE  SerialAlone
<1> SUFFICES ASSUME syncs = 0, NEW v \in Busy, NEW w \in Busy, v # w, Running(v) = Running(w),
                    worker[v].task.type # "test", worker[w].task.type # "test",
                    Running(w) \in Serial
             PROVE  FALSE
  BY DEF SerialAlone
<1>1. PICK i \in Items :
        /\ worker[v].task = SequenceTask(i)
        /\ \/ Running(v) = i /\ i \notin Sharing
           \/ Running(v) \in Range(Deps[i]) /\ Running(v) \in Sharing
  BY RunningItem
<1>2. PICK j \in Items :
        /\ worker[w].task = SequenceTask(j)
        /\ \/ Running(w) = j /\ j \notin Sharing
           \/ Running(w) \in Range(Deps[j]) /\ Running(w) \in Sharing
  BY RunningItem
<1>3. i = j
  <2>1. i # j => Range(Deps[i]) \cap Range(Deps[j]) = {}  BY PreprocAssumption
  <2> QED  BY <1>1, <1>2, <2>1
<1> QED  BY <1>1, <1>2, <1>3, ContainerOnce

\* The value v of item i is in the queue, or with a worker, as the counts say.
LEMMA InsideCounted ==
    ASSUME IInv, NEW i \in Roots, NEW v \in Values
    PROVE  (\E t \in TaskSet : t.type \in {"value", "value_seq"} /\ t.item = i /\ t.value = v)
             <=> Inside(q, i, v) + HeldCount(Own(i, v)) > 0
<1> DEFINE S == Own(i, v)
           steady == (syncs = 0)
           s == Sequence(q, i)
           B == BusyWith(worker, S)
           Some(list) == \E n \in DOMAIN list : list[n] \in S
<1>1. steady \in BOOLEAN /\ Shape(q, {}, steady) /\ i \in Items  BY DEF IInv, Roots
<1>2. q.pending \in Seq(Tasks) /\ q.immediate \in Seq(Tasks) /\ q.finished \in Seq(Tasks)
  BY QueueFacts
<1>3. s \in Seq(Tasks)  BY <1>1, Sequences
<1>4. worker \in [Workers -> WorkerStates]  BY DEF IInv, WorkerShape, WorkerStates
<1>5. Held \subseteq Tasks  BY <1>4 DEF Held, Busy, WorkerStates
<1>6. \A j \in Registered(q) : j # i => \A n \in DOMAIN q.sequences[j] : q.sequences[j][n] \notin S
  <2> TAKE j \in Registered(q)
  <2>1. q.sequences[j] \in Seq(MemberTasks(j, steady))  BY <1>1 DEF Shape
  <2> DEFINE r == q.sequences[j]
             M == MemberTasks(j, steady)
  <2>2. r \in Seq(M)  BY <2>1
  <2> HIDE DEF r, M
  <2>3. \A n \in DOMAIN r : r[n] \in M  BY <2>2
  <2>4. \A t \in M : t.item = j  BY DEF M, MemberTasks
  <2>5. \A t \in S : t.item = i  BY DEF Own
  <2> HIDE DEF S
  <2>6. j # i => \A n \in DOMAIN r : r[n] \notin S  BY <2>3, <2>4, <2>5
  <2> QED  BY <2>6 DEF r
<1>7. \A j \in Registered(q) : q.sequences[j] \in Seq(Tasks)  BY <1>1 DEF Shape
<1>8. \A t \in Tasks :
         t \in S <=> t.type \in {"value", "value_seq"} /\ t.item = i /\ t.value = v
  BY DEF Own
<1>9. TaskSet \subseteq Tasks
  <2>1. \A j \in Registered(q) : Range(q.sequences[j]) \subseteq Tasks
    <3> TAKE j \in Registered(q)
    <3> DEFINE r == q.sequences[j]
    <3>1. r \in Seq(Tasks)  BY <1>7
    <3> HIDE DEF r
    <3>2. Range(r) \subseteq Tasks  BY <3>1 DEF Range
    <3> QED  BY <3>2 DEF r
  <2>2. Range(q.pending) \subseteq Tasks /\ Range(q.immediate) \subseteq Tasks
        /\ Range(q.finished) \subseteq Tasks
    BY <1>2 DEF Range
  <2> QED  BY <1>5, <2>1, <2>2 DEF TaskSet
<1>10. (\E t \in TaskSet : t.type \in {"value", "value_seq"} /\ t.item = i /\ t.value = v)
         <=> \E t \in TaskSet : t \in S
  BY <1>8, <1>9
<1> HIDE DEF S
<1>11. (\E t \in TaskSet : t \in S)
         <=> Some(q.pending) \/ Some(q.immediate) \/ Some(q.finished) \/ Some(s) \/ B # {}
  <2>1. \A list : Some(list) <=> \E t \in Range(list) : t \in S
    BY DEF Range
  <2>2. B # {} <=> \E t \in Held : t \in S  BY DEF Held, BusyWith, Busy
  <2>3. Some(s) <=> \E j \in Registered(q) : \E t \in Range(q.sequences[j]) : t \in S
    <3>1. ASSUME Some(s)
          PROVE  \E j \in Registered(q) : \E t \in Range(q.sequences[j]) : t \in S
      <4>1. i \in Registered(q) /\ s = q.sequences[i]  BY <3>1 DEF Sequence
      <4> QED  BY <2>1, <3>1, <4>1
    <3>2. ASSUME NEW j \in Registered(q), NEW t \in Range(q.sequences[j]), t \in S
          PROVE  Some(s)
      <4>1. j = i  BY <1>6, <3>2 DEF Range
      <4>2. s = q.sequences[j]  BY <4>1 DEF Sequence
      <4> QED  BY <2>1, <3>2, <4>2
    <3> QED  BY <3>1, <3>2
  <2> HIDE DEF Some, B, s
  <2> QED  BY <2>1, <2>2, <2>3 DEF TaskSet
<1>12. Count(q.pending, S) \in Nat /\ (Count(q.pending, S) > 0 <=> Some(q.pending))
  BY <1>2, CountFinite, CountSome
<1>13. Count(q.immediate, S) \in Nat /\ (Count(q.immediate, S) > 0 <=> Some(q.immediate))
  BY <1>2, CountFinite, CountSome
<1>14. Count(q.finished, S) \in Nat /\ (Count(q.finished, S) > 0 <=> Some(q.finished))
  BY <1>2, CountFinite, CountSome
<1>15. Count(s, S) \in Nat /\ (Count(s, S) > 0 <=> Some(s))
  <2> HIDE DEF s
  <2> QED  BY <1>3, CountFinite, CountSome
<1>16. HeldCount(S) \in Nat /\ (HeldCount(S) > 0 <=> B # {})
  <2>1. IsFiniteSet(B) /\ Holding(worker, S) \in Nat  BY HoldingFinite
  <2>2. HeldCount(S) = Cardinality(B)  BY HeldNow DEF Holding
  <2>3. Cardinality(B) = 0 <=> B = {}
    <3> HIDE DEF B
    <3> QED  BY <2>1, FS_EmptySet
  <2> QED  BY <2>1, <2>2, <2>3 DEF Holding
<1>17. Inside(q, i, v) = Count(q.pending, S) + Count(q.immediate, S) + Count(q.finished, S)
                           + Count(s, S)
  BY DEF Inside, S
<1> DEFINE a == Count(q.pending, S)
           b == Count(q.immediate, S)
           c == Count(q.finished, S)
           d == Count(s, S)
           h == HeldCount(S)
<1>18. a \in Nat /\ b \in Nat /\ c \in Nat /\ d \in Nat /\ h \in Nat
  BY <1>12, <1>13, <1>14, <1>15, <1>16
<1>19. Some(q.pending) \/ Some(q.immediate) \/ Some(q.finished) \/ Some(s) \/ B # {}
         <=> a > 0 \/ b > 0 \/ c > 0 \/ d > 0 \/ h > 0
  BY <1>12, <1>13, <1>14, <1>15, <1>16
<1> HIDE DEF a, b, c, d, h
<1>20. a > 0 \/ b > 0 \/ c > 0 \/ d > 0 \/ h > 0 <=> a + b + c + d + h > 0  BY <1>18
<1>21. Inside(q, i, v) + HeldCount(S) = a + b + c + d + h  BY <1>17 DEF a, b, c, d, h
<1>22. (\E t \in TaskSet : t \in S) <=> Inside(q, i, v) + HeldCount(S) > 0
  BY <1>11, <1>19, <1>20, <1>21
<1> QED  BY <1>10, <1>22 DEF S

LEMMA AcceptedFollows ==
    ASSUME IInv
    PROVE  AcceptedOnce
<1> SUFFICES ASSUME NEW v \in DOMAIN accepted
             PROVE  LET i == accepted[v].item
                        left == Count(flushed[i], {v})
                        inside == \E t \in TaskSet : /\ t.type \in {"value", "value_seq"}
                                                     /\ t.item = i /\ t.value = v
                    IN  left + (IF inside THEN 1 ELSE 0) = 1 \/ (pc = "stopped" /\ left = 0)
  BY DEF AcceptedOnce
<1> DEFINE i == accepted[v].item
           left == Count(flushed[i], {v})
           n == Inside(q, i, v)
           h == HeldCount(Own(i, v))
           inside == \E t \in TaskSet : /\ t.type \in {"value", "value_seq"}
                                        /\ t.item = i /\ t.value = v
<1>1. accepted \in Seq(Arrivals) /\ Len(accepted) + tests.received <= MaxValues
      /\ tests.received \in Nat /\ flushed \in [Items -> Seq(Values)] /\ MaxValues \in Nat
  BY PreprocAssumption DEF IInv, Rest
<1>2. i \in Roots /\ i \in Items
  <2>1. accepted[v] \in Arrivals  BY <1>1
  <2>2. i \in Roots  BY <2>1 DEF Arrivals
  <2>3. Roots \subseteq Items  BY DEF Roots
  <2> QED  BY <2>2, <2>3
<1>3. v \in Values
  <2> DEFINE k == Len(accepted)
             r == tests.received
  <2>1. k \in Nat /\ r \in Nat /\ k + r <= MaxValues /\ v \in 1 .. k  BY <1>1
  <2> HIDE DEF k, r
  <2> QED  BY <1>1, <2>1 DEF Values
<1>4. Came(i, v) = 1  BY DEF Came
<1>5. left \in Nat
  <2>1. flushed[i] \in Seq(Values)  BY <1>1, <1>2
  <2> HIDE DEF i
  <2> QED  BY <2>1, CountFinite
<1> HIDE DEF i
<1>6. CASE pc = "stopped"
  <2>1. left <= 1  BY <1>2, <1>3, <1>4, <1>6 DEF IInv, Settled
  <2>2. TaskSet = {}
    <3>1. q = EmptyQueue /\ Busy = {}  BY <1>6 DEF IInv, Turn
    <3>2. q.pending = <<>> /\ q.immediate = <<>> /\ q.finished = <<>> /\ Registered(q) = {}
      BY <3>1 DEF EmptyQueue, Registered
    <3>3. Held = {}  BY <3>1 DEF Held
    <3> QED  BY <3>2, <3>3 DEF TaskSet, Range
  <2>3. ~inside  BY <2>2
  <2> HIDE DEF left, inside
  <2>4. left + (IF inside THEN 1 ELSE 0) = 1 \/ (pc = "stopped" /\ left = 0)
    BY <1>5, <1>6, <2>1, <2>3
  <2> QED  BY <2>4 DEF left, inside, i
<1>7. CASE pc # "stopped"
  <2>1. n + h + left = 1  BY <1>2, <1>3, <1>4, <1>7 DEF IInv, Settled
  <2>2. inside <=> n + h > 0  BY <1>2, <1>3, InsideCounted
  <2>3. n \in Nat /\ h \in Nat
    <3> DEFINE steady == (syncs = 0)
    <3>1. steady \in BOOLEAN /\ Shape(q, {}, steady)  BY DEF IInv
    <3> HIDE DEF steady
    <3>2. \A j \in Roots, u \in Values : Inside(q, j, u) \in Nat  BY <3>1, Measures
    <3>3. h \in Nat  BY QueueFacts
    <3> QED  BY <1>2, <1>3, <3>2, <3>3
  <2> HIDE DEF left, inside, n, h
  <2>4. left + (IF inside THEN 1 ELSE 0) = 1  BY <1>5, <2>1, <2>2, <2>3
  <2> QED  BY <2>4 DEF left, inside, i
<1> QED  BY <1>6, <1>7

\* Every variable keeps its type, for any items, dependencies and workers: no
\* unsigned counter of zbx_pp_queue_t (pq_task.c) goes below zero, and no more
\* workers are signalled than wait.
THEOREM PreprocTypeOK == Spec => []TypeOK
BY PreprocInvariant, TypeFollows, PTL

\* pending_num, processing_num and finished_num, which decide whom a worker
\* wakes up and when results are flushed, count the tasks exactly, although
\* containers of sequences are queued, popped and queued again uncounted.
THEOREM PreprocCountersExact == Spec => []CountersExact
BY PreprocInvariant, CountersFollow, PTL

\* While a task can be started and a worker waits, a waiting worker has been
\* signalled, although the manager signals once for a whole request.
THEOREM PreprocNoneForgotten == Spec => []NoneForgotten
BY PreprocInvariant, NoneForgottenFollows, PTL

\* Two workers never run the steps of one serial item at a time as long as the
\* configuration stays the same: its container has one worker at most, and the
\* item that shares a cache runs under its master's container only.
THEOREM PreprocSerialAlone == Spec => []SerialAlone
BY PreprocInvariant, SerialFollows, PTL

\* A value received is in one place of the queue, or with one worker, or has
\* been handed on once, whatever becomes of the configuration, until the
\* manager frees its queue; then it has been handed on once at most.
THEOREM PreprocAcceptedOnce == Spec => []AcceptedOnce
BY PreprocInvariant, AcceptedFollows, PTL

=============================================================================
