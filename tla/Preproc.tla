------------------------------ MODULE Preproc ------------------------------
(***************************************************************************)
(* The preprocessing manager (libs/zbxpreproc): a manager process takes in *)
(* item values, worker threads run the preprocessing steps, and the        *)
(* manager hands the results on and creates the tasks of dependent items.  *)
(* They share one task queue, under one mutex and one condition variable.  *)
(*                                                                         *)
(* A stretch of code under the mutex is one step, except that the manager  *)
(* takes one value, or one finished task, per step; nobody else moves      *)
(* meanwhile (pc "push" and "finish").                                     *)
(***************************************************************************)
EXTENDS Integers, FiniteSets, FiniteSetsExt, SequencesExt, Functions

CONSTANTS
    Items,          \* items with preprocessing or dependent items, and others
    Serial,         \* items preprocessed serially
    Internal,       \* items of type internal
    Cacheable,      \* items whose first step can use a preprocessing cache
    Plain,          \* items without steps and without dependent items
    Deps,           \* dependent items of each item, in order of itemid
    Removable,      \* items that a configuration change disables or enables
    Workers,        \* worker threads
    MaxBatch,       \* PP_FINISHED_TASK_BATCH_SIZE
    MaxValues,      \* bound: values and test requests received
    MaxTests,       \* bound: test requests among them
    MaxSyncs        \* bound: configuration changes

Dependent == UNION {Range(Deps[i]) : i \in Items}
Roots == Items \ Dependent
Master(i) == CHOOSE j \in Items : i \in Range(Deps[j])

ASSUME PreprocAssumption ==
    /\ Serial \cup Internal \cup Cacheable \cup Plain \cup Removable \subseteq Items
    /\ Deps \in [Items -> Seq(Items)]
    /\ \A i \in Items : i \notin Range(Deps[i]) /\ IsInjective(Deps[i])
    /\ \A i, j \in Items : i # j => Range(Deps[i]) \cap Range(Deps[j]) = {}
    /\ \A i \in Plain : Deps[i] = <<>> /\ i \notin Serial \cup Cacheable
    /\ Internal \subseteq Roots       \* a dependent item has a type of its own
    /\ Items # {}                     \* the task of a test carries some item
    /\ Workers # {} /\ IsFiniteSet(Workers)
    /\ MaxBatch \in Nat \ {0}
    /\ {MaxValues, MaxTests, MaxSyncs} \subseteq Nat

VARIABLES
    q,          \* zbx_pp_queue_t, and how many waiting workers are signalled
    worker,     \* state of each worker and the task it has popped
    items,      \* manager->items: the items the manager knows
    pc,         \* where the manager is in its loop
    batch,      \* values queued, or tasks finished, in this turn of the loop
    accepted,   \* values received, in order: the item, and whether it has no data
    flushed,    \* values handed on, by item
    tests,      \* test requests received and answered
    syncs       \* configuration changes

vars == <<q, worker, items, pc, batch, accepted, flushed, tests, syncs>>

----------------------------------------------------------------------------
(* Tasks.  item is the key under which a task is put in sequence, primary  *)
(* the item whose steps it runs.                                           *)

Task(type, i, p, v) ==
    [type |-> type, item |-> i, primary |-> p, value |-> v, result |-> FALSE]

\* a value task of an item, serial or not according to its mode
ValueTask(i, v) == Task(IF i \in Serial THEN "value_seq" ELSE "value", i, i, v)
SequenceTask(i) == Task("sequence", i, i, 0)
TestTask(n) == Task("test", CHOOSE i \in Items : TRUE, CHOOSE i \in Items : TRUE, n)
NoTask == Task("none", CHOOSE i \in Items : TRUE, CHOOSE i \in Items : TRUE, 0)

----------------------------------------------------------------------------
(* The task queue. *)

EmptyQueue ==
    [pending |-> <<>>, immediate |-> <<>>, finished |-> <<>>, sequences |-> <<>>,
     pending_num |-> 0, processing_num |-> 0, finished_num |-> 0, woken |-> 0]

Registered(Q) == DOMAIN Q.sequences

\* tasks in the sequence of item i, if it has one
Sequence(Q, i) == IF i \in Registered(Q) THEN Q.sequences[i] ELSE <<>>

AddSequence(Q, t) ==
    LET tasks(i) == IF i = t.item THEN Append(Sequence(Q, i), t) ELSE Sequence(Q, i)
    IN  [Q EXCEPT !.sequences = [i \in Registered(Q) \cup {t.item} |-> tasks(i)]]

\* a task joins its sequence; the container of a new sequence is queued
AddAndQueue(Q, t) ==
    LET added == AddSequence(Q, t)
    IN  IF t.item \in Registered(Q) THEN added
        ELSE [added EXCEPT !.immediate = Append(@, SequenceTask(t.item))]

Pending(Q) == [Q EXCEPT !.pending_num = @ + 1]

\* mutant: a container that is queued again is counted
PushImmediateCounted(Q, t) ==
    IF t.type \in {"value_seq", "dependent"} THEN AddAndQueue(Pending(Q), t)
    ELSE [Pending(Q) EXCEPT !.immediate = Append(@, t)]

\* mutant: a task that joins a sequence is not counted
PushImmediateUncounted(Q, t) ==
    CASE t.type \in {"value_seq", "dependent"} -> AddAndQueue(Q, t)
      [] t.type = "sequence" -> [Q EXCEPT !.immediate = Append(@, t)]
      [] OTHER -> [Pending(Q) EXCEPT !.immediate = Append(@, t)]

PushImmediate(Q, t) ==
    CASE t.type \in {"value_seq", "dependent"} -> AddAndQueue(Pending(Q), t)
      [] t.type = "sequence" -> [Q EXCEPT !.immediate = Append(@, t)]
      [] OTHER -> [Pending(Q) EXCEPT !.immediate = Append(@, t)]

Push(Q, t) ==
    LET counted == Pending(Q)
    IN  IF t.item \notin Internal THEN [counted EXCEPT !.pending = Append(@, t)]
        ELSE IF t.type = "value" THEN [counted EXCEPT !.immediate = Append(@, t)]
        ELSE AddAndQueue(counted, t)

PushTest(Q, t) == [Pending(Q) EXCEPT !.immediate = Append(@, t)]

\* the first pending task joins the sequence of its item
MoveFirst(Q) == [AddSequence(Q, Head(Q.pending)) EXCEPT !.pending = Tail(@)]

\* the first n pending tasks, one after the other
Moved(Q, n) ==
    LET moved[k \in 0 .. n] == IF k = 0 THEN Q ELSE MoveFirst(moved[k - 1])
    IN  moved[n]

\* Mutant: a serial value is given to the worker although another one of its
\* item is under way.
StartableAlways(Q) == DOMAIN Q.pending

\* pending tasks that do not go to a sequence some other task has registered
Startable(Q) ==
    {n \in DOMAIN Q.pending : \/ Q.pending[n].type # "value_seq"
                              \/ Q.pending[n].item \notin Registered(Q)}

\* the queue and the task, if there is one, that a worker gets
PopNew(Q) ==
    LET processing(P) == [P EXCEPT !.pending_num = @ - 1, !.processing_num = @ + 1]
        n == Min(Startable(Q))
        t == Q.pending[n]
    IN  CASE Q.immediate # <<>> ->
               [queue |-> processing([Q EXCEPT !.immediate = Tail(@)]),
                task |-> Head(Q.immediate)]
          [] Q.immediate = <<>> /\ Startable(Q) # {} ->
               IF t.type = "value_seq"
               THEN [queue |-> processing(Moved(Q, n)), task |-> SequenceTask(t.item)]
               ELSE [queue |-> processing([Moved(Q, n - 1) EXCEPT !.pending = Tail(@)]),
                     task |-> t]
          [] OTHER -> [queue |-> Moved(Q, Len(Q.pending)), task |-> NoTask]

PushFinished(Q, t) ==
    [Q EXCEPT !.finished = Append(@, t),
              !.finished_num = @ + 1, !.processing_num = @ - 1]

Waiting == {w \in Workers : worker[w].state = "waiting"}

\* pp_task_queue_notify: one more of the waiting workers, if any, is signalled
Notify(Q, waiting) ==
    [Q EXCEPT !.woken = IF @ < Cardinality(waiting) THEN @ + 1 ELSE @]

----------------------------------------------------------------------------
(* The workers. *)

Unlocked == pc \notin {"push", "finish"}
Stopping == pc \in {"stop", "stopped"}

\* From the head of the worker's loop, holding the mutex, to where it lets go
\* of it: the worker ends, has a task, or waits.
Loop(w, Q) ==
    LET popped == PopNew(Q)
        to(state, t) == worker' = [worker EXCEPT ![w] = [state |-> state, task |-> t]]
    IN  \/ Stopping /\ to("ended", NoTask) /\ q' = Q
        \/ /\ ~Stopping
           /\ q' = popped.queue
           /\ IF popped.task = NoTask THEN to("waiting", NoTask)
              ELSE to("busy", popped.task)

WorkerUnchanged == UNCHANGED <<items, pc, batch, accepted, flushed, tests, syncs>>

StartWorker(w) ==
    /\ worker[w].state = "new" /\ Unlocked
    /\ Loop(w, q)
    /\ WorkerUnchanged

\* The steps have run, outside the mutex, on the popped task or on the first
\* task of the popped sequence, with a result or with none (value discarded).
Processed(Q, t, result) ==
    IF t.type = "sequence"
    THEN PushFinished([Q EXCEPT !.sequences[t.item][1].result = result], t)
    ELSE PushFinished(Q, [t EXCEPT !.result = result])

Finish(w, result) ==
    /\ worker[w].state = "busy" /\ Unlocked
    /\ Loop(w, Processed(q, worker[w].task, result))
    /\ WorkerUnchanged

\* mutant: a worker that wakes up leaves the others asleep
ChainedNever(Q, w) == Q

\* a worker that wakes up passes the signal on while more tasks are pending
Chained(Q, w) == IF 1 < Q.pending_num THEN Notify(Q, Waiting \ {w}) ELSE Q

\* pp_task_queue_wait returns, signalled
Wake(w) ==
    /\ worker[w].state = "waiting" /\ Unlocked
    /\ q.woken > 0
    /\ Loop(w, Chained([q EXCEPT !.woken = @ - 1], w))
    /\ WorkerUnchanged

\* pthread_cond_wait may return without a signal
SpuriousWake(w) ==
    /\ worker[w].state = "waiting" /\ Unlocked
    /\ q.woken < Cardinality(Waiting)
    /\ Loop(w, Chained(q, w))
    /\ WorkerUnchanged

----------------------------------------------------------------------------
(* The manager. *)

\* zbx_pp_manager_create waits until all workers have registered
Create ==
    /\ pc = "create"
    /\ \A w \in Workers : worker[w].state # "new"
    /\ pc' = "recv"
    /\ UNCHANGED <<q, worker, items, batch, accepted, flushed, tests, syncs>>

\* zbx_pp_manager_create_task makes no task of a value without data (none, for
\* instance an update of metadata alone), whatever its item
Queueable(i, known, none) == ~none /\ i \in known \ Plain

\* a value of item i is queued, or handed on at once, past those in the queue
Received(i, known, none) ==
    LET v == Len(accepted) + 1
    IN  /\ v + tests.received <= MaxValues
        /\ accepted' = Append(accepted, [item |-> i, none |-> none])
        /\ \/ /\ Queueable(i, known, none)
              /\ q' = Push(q, ValueTask(i, v))
              /\ batch' = batch + 1
              /\ UNCHANGED flushed
           \/ /\ ~Queueable(i, known, none)
              /\ flushed' = [flushed EXCEPT ![i] = Append(@, v)]
              /\ UNCHANGED <<q, batch>>

\* a request arrives; the configuration is synchronised first
Request(i, none) ==
    /\ pc = "recv" /\ pc' = "push"
    /\ \/ UNCHANGED <<items, syncs>>
       \/ /\ syncs < MaxSyncs /\ syncs' = syncs + 1
          /\ \E r \in Removable : items' = SymDiff(items, {r})
    /\ Received(i, items', none)
    /\ UNCHANGED <<worker, tests>>

\* a further value of the request
AddValue(i, none) ==
    /\ pc = "push"
    /\ Received(i, items, none)
    /\ UNCHANGED <<worker, items, pc, tests, syncs>>

\* mutant: no worker is told of the request
EndRequestSilent ==
    /\ pc = "push"
    /\ pc' = "process" /\ batch' = 0
    /\ UNCHANGED <<q, worker, items, accepted, flushed, tests, syncs>>

EndRequest ==
    /\ pc = "push"
    /\ q' = IF batch > 0 THEN Notify(q, Waiting) ELSE q
    /\ pc' = "process" /\ batch' = 0
    /\ UNCHANGED <<worker, items, accepted, flushed, tests, syncs>>

TestRequest ==
    /\ pc = "recv" /\ tests.received < MaxTests
    /\ Len(accepted) + tests.received < MaxValues
    /\ tests' = [tests EXCEPT !.received = @ + 1]
    /\ q' = Notify(PushTest(q, TestTask(tests.received + 1)), Waiting)
    /\ pc' = "process"
    /\ UNCHANGED <<worker, items, batch, accepted, flushed, syncs>>

\* zbx_ipc_service_recv returns without a message: alerted, or timed out
NoMessage ==
    /\ pc = "recv" /\ q.finished # <<>>
    /\ pc' = "finish"
    /\ UNCHANGED <<q, worker, items, batch, accepted, flushed, tests, syncs>>

\* the manager takes the mutex again to collect what is finished
BeginFinished ==
    /\ pc = "process"
    /\ pc' = "finish"
    /\ UNCHANGED <<q, worker, items, batch, accepted, flushed, tests, syncs>>

PushKnown(Q, d, known, v) ==
    IF d \in known THEN PushImmediate(Q, ValueTask(d, v)) ELSE Q

QueueDependents(Q, i, exclude, v) ==
    LET known == items \ exclude
        queued[n \in 0 .. Len(Deps[i])] ==
            IF n = 0 THEN Q ELSE PushKnown(queued[n - 1], Deps[i][n], known, v)
    IN  IF Range(Deps[i]) \cap known = {} THEN Q
        ELSE Notify(queued[Len(Deps[i])], Waiting)

\* With a dependent item that can use a cache, one task runs that item and
\* keeps the cache for the others; it is in sequence under the master item.
ValueTaskResult(Q, t) ==
    LET deps == Deps[t.primary]
        cached == {n \in DOMAIN deps : deps[n] \in items \cap Cacheable}
        task == Task("dependent", t.primary, deps[Min(cached)], t.value)
    IN  IF ~t.result THEN Q
        ELSE IF cached = {} THEN QueueDependents(Q, t.primary, {}, t.value)
        ELSE Notify(PushImmediate(Q, task), Waiting)

\* mutant: the dependent item that has been preprocessed is queued again
DependentTaskResultAll(Q, t) ==
    QueueDependents(ValueTaskResult(Q, t), t.item, {}, t.value)

DependentTaskResult(Q, t) ==
    QueueDependents(ValueTaskResult(Q, t), t.item, {t.primary}, t.value)

RemoveSequence(Q, i) == [Q EXCEPT !.sequences = Restrict(@, Registered(Q) \ {i})]

\* mutant: the sequence is removed after its first task
RequeueDropped(Q, t) == RemoveSequence(Q, t.item)

\* the sequence goes on if it has more tasks
Requeue(Q, t) ==
    IF Q.sequences[t.item] = <<>> THEN RemoveSequence(Q, t.item)
    ELSE Notify(PushImmediate(Q, t), Waiting)

TaskResult(Q, t) ==
    IF t.type = "dependent" THEN DependentTaskResult(Q, t) ELSE ValueTaskResult(Q, t)

\* One turn of zbx_pp_manager_process_finished, and what preprocessor_flush_tasks
\* does with the task.  Only values, sequences and tests are queued as such.
ProcessFinished ==
    LET t == Head(q.finished)
        popped == [q EXCEPT !.finished = Tail(@), !.finished_num = @ - 1]
        first == Head(q.sequences[t.item])
        rest == [popped EXCEPT !.sequences[t.item] = Tail(@)]
        flush(done) == flushed' = [flushed EXCEPT ![done.primary] = Append(@, done.value)]
    IN  /\ pc = "finish" /\ batch < MaxBatch /\ q.finished # <<>>
        /\ batch' = batch + 1
        /\ \/ /\ t.type = "value"
              /\ q' = ValueTaskResult(popped, t)
              /\ flush(t)
              /\ UNCHANGED tests
           \/ /\ t.type = "sequence"
              /\ q' = Requeue(TaskResult(rest, first), t)
              /\ flush(first)
              /\ UNCHANGED tests
           \/ /\ t.type = "test"
              /\ q' = popped
              /\ tests' = [tests EXCEPT !.answered = @ + 1]
              /\ UNCHANGED flushed
        /\ UNCHANGED <<worker, items, pc, accepted, syncs>>

EndFinished ==
    /\ pc = "finish" /\ (q.finished = <<>> \/ batch = MaxBatch)
    /\ pc' = "recv" /\ batch' = 0
    /\ UNCHANGED <<q, worker, items, accepted, flushed, tests, syncs>>

\* mutant: one worker is told instead of all
StopOne ==
    /\ pc = "recv"
    /\ pc' = "stop"
    /\ q' = Notify(q, Waiting)
    /\ UNCHANGED <<worker, items, batch, accepted, flushed, tests, syncs>>

\* zbx_pp_manager_free: all workers are told, under the mutex
Stop ==
    /\ pc = "recv"
    /\ pc' = "stop"
    /\ q' = [q EXCEPT !.woken = Cardinality(Waiting)]
    /\ UNCHANGED <<worker, items, batch, accepted, flushed, tests, syncs>>

\* all workers have been joined; what is left in the queue is freed
Free ==
    /\ pc = "stop" /\ \A w \in Workers : worker[w].state = "ended"
    /\ pc' = "stopped" /\ q' = EmptyQueue
    /\ UNCHANGED <<worker, items, batch, accepted, flushed, tests, syncs>>

----------------------------------------------------------------------------

Init ==
    /\ q = EmptyQueue
    /\ worker = [w \in Workers |-> [state |-> "new", task |-> NoTask]]
    /\ items = Items
    /\ pc = "create" /\ batch = 0
    /\ accepted = <<>> /\ flushed = [i \in Items |-> <<>>]
    /\ tests = [received |-> 0, answered |-> 0]
    /\ syncs = 0

WorkerStep(w) ==
    \/ StartWorker(w)
    \/ Wake(w)
    \/ \E result \in BOOLEAN : Finish(w, result)

ManagerStep ==
    \/ Create \/ EndRequest \/ NoMessage \/ BeginFinished
    \/ ProcessFinished \/ EndFinished \/ Free

Next ==
    \/ ManagerStep
    \/ \E w \in Workers : WorkerStep(w) \/ SpuriousWake(w)
    \/ TestRequest \/ Stop
    \/ \E i \in Roots, none \in BOOLEAN : Request(i, none) \/ AddValue(i, none)

Spec == Init /\ [][Next]_vars

\* Every thread keeps running, and every preprocessing step ends (scripts and
\* regular expressions have time limits).  Requests and the stop may never come.
LiveSpec ==
    /\ Spec
    /\ WF_vars(ManagerStep)
    /\ \A w \in Workers : WF_vars(WorkerStep(w))

----------------------------------------------------------------------------
(* Properties. *)

Busy == {w \in Workers : worker[w].state = "busy"}
Held == {worker[w].task : w \in Busy}

Tasks ==
    [type : {"none", "value", "value_seq", "dependent", "sequence", "test"},
     item : Items, primary : Items, value : 0 .. MaxValues + MaxTests, result : BOOLEAN]

Arrivals == [item : Roots, none : BOOLEAN]

\* how many elements of a list, and how many tasks that workers run, are in S
Count(list, S) == Cardinality({n \in DOMAIN list : list[n] \in S})
HeldCount(S) == Cardinality({w \in Busy : worker[w].task \in S})

Containers == {t \in Tasks : t.type = "sequence"}

\* the places of the tasks that are in the sequences of a queue
Places(Q) == UNION {{i} \X DOMAIN Q.sequences[i] : i \in Registered(Q)}

\* Every variable has its type; in particular no counter of the queue wraps
\* around and no more workers are signalled than wait.
TypeOK ==
    /\ {q.pending, q.immediate, q.finished} \subseteq Seq(Tasks)
    /\ Registered(q) \subseteq Items /\ \A i \in Registered(q) : q.sequences[i] \in Seq(Tasks)
    /\ {q.pending_num, q.processing_num, q.finished_num} \subseteq Nat
    /\ q.woken \in 0 .. Cardinality(Waiting)
    /\ worker \in [Workers -> [state : {"new", "waiting", "busy", "ended"}, task : Tasks]]
    /\ items \subseteq Items
    /\ pc \in {"create", "recv", "push", "process", "finish", "stop", "stopped"}
    /\ batch \in 0 .. MaxBatch + MaxValues
    /\ accepted \in Seq(Arrivals) /\ Len(accepted) <= MaxValues
    /\ flushed \in [Items -> Seq(1 .. MaxValues)]
    /\ tests \in [received : 0 .. MaxTests, answered : Nat]
    /\ syncs \in 0 .. MaxSyncs

\* The unsigned counters that decide whom to wake up and when to flush the
\* history are exact: tasks not started, whether they are in a list or inside
\* a sequence, tasks with a worker, tasks finished.  They never wrap around.
CountersExact ==
    LET listed == Len(q.pending) + Len(q.immediate) - Count(q.immediate, Containers)
        started == Count(q.finished, Containers) + HeldCount(Containers)
    IN  /\ q.pending_num = listed + Cardinality(Places(q)) - started
        /\ q.processing_num = Cardinality(Busy)
        /\ q.finished_num = Len(q.finished)

\* An idle worker is not forgotten: when a task can be started and a worker
\* waits, some waiting worker has been signalled, although the manager signals
\* once for a whole request and a signal may come when nobody waits.
NoneForgotten ==
    /\ Unlocked /\ ~Stopping /\ Waiting # {}
    /\ q.immediate # <<>> \/ Startable(q) # {}
    => q.woken > 0

Running(w) ==
    LET t == worker[w].task
    IN  IF t.type = "sequence" THEN q.sequences[t.item][1].primary ELSE t.primary

\* As long as the configuration stays the same, the steps of a serial item run
\* for one value at a time, also when one of its values is run by the task that
\* shares a cache with the other dependent items.
SerialAlone ==
    syncs = 0 =>
        \A v, w \in Busy : /\ v # w /\ Running(v) = Running(w)
                           /\ "test" \notin {worker[v].task.type, worker[w].task.type}
                           => Running(w) \notin Serial

\* values of item i that some task in the queue stands for
TaskSet ==
    Range(q.pending) \cup Range(q.immediate) \cup Range(q.finished) \cup Held
        \cup UNION {Range(q.sequences[i]) : i \in Registered(q)}

\* Whatever happens to the configuration, a value received is in the queue or
\* has been handed on, once, until the manager stops.
AcceptedOnce ==
    \A v \in DOMAIN accepted :
        LET i == accepted[v].item
            left == Count(flushed[i], {v})
            inside == \E t \in TaskSet : t.type \in {"value", "value_seq"} /\ t.item = i /\ t.value = v
        IN  left + (IF inside THEN 1 ELSE 0) = 1 \/ (pc = "stopped" /\ left = 0)

\* Values of item i that wait: those in its sequence, then those still pending,
\* then those that the tasks in its master's sequence will give it.
InboxOf(i) ==
    LET own(tasks) == SelectSeq(tasks, LAMBDA t : t.type = "value_seq" /\ t.item = i)
        given(tasks) == SelectSeq(tasks, LAMBDA t : t.type = "dependent"
                                                    /\ i \in Range(Deps[t.item]))
        all == own(Sequence(q, i)) \o own(q.pending)
                 \o (IF i \in Roots THEN <<>> ELSE given(Sequence(q, Master(i))))
    IN  IF i \in Serial THEN [n \in DOMAIN all |-> all[n].value]
        ELSE {t.value : t \in {u \in TaskSet :
                 \/ u.type = "value" /\ u.item = i
                 \/ u.type = "dependent" /\ i \in Range(Deps[u.item])}}

Order == INSTANCE PreprocOrder WITH
    Values <- 1 .. MaxValues,
    empty <- {v \in DOMAIN accepted : accepted[v].none},
    inbox <- [i \in Items |-> InboxOf(i)],
    phase <- IF pc = "stopped" THEN "closed" ELSE IF syncs = 0 THEN "steady" ELSE "changed"

\* The manager, its queue and its workers keep the promise of PreprocOrder:
\* values of a serial item leave in order, but for those without data, which pass
\* at once; none is lost or leaves twice, and each result reaches each dependent
\* item once.
KeepsOrder == Order!Spec

\* Every value received is handed on, unless the manager is stopped.
EveryValueLeaves ==
    \A v \in 1 .. MaxValues :
        (v \in DOMAIN accepted) ~> (Stopping \/ \E i \in Roots : v \in Range(flushed[i]))

\* The stop ends: no worker is left waiting for a signal that has been given.
StopEnds == (pc = "stop") ~> (pc = "stopped")
=============================================================================
