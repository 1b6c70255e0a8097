-------------------------- MODULE ThreadPool_proofs --------------------------
(***************************************************************************)
(* What every owner of a thread pool may rely on: a worker that reads has  *)
(* one task, a thread that notifies holds the mutexes, a worker ends only  *)
(* after exit_signal is set, and no step of a worker makes a task appear   *)
(* or disappear.  The tasks and results of the owner are parameters.       *)
(***************************************************************************)
EXTENDS ThreadPool, FiniteSetTheorems, SequenceTheorems, TLAPS

\* A worker has a task exactly while it reads the file.
ReadersHaveTasks ==
  \A w \in Worker : worker_state[w] = "reading" <=> worker_task[w] # None

\* A worker holds result_queue_mutex from queue_result to the byte in the pipe,
\* and self_pipe_mutex while it writes this byte.
NotifiersHoldMutexes ==
  \A w \in Worker :
    /\ result_mutex = w <=> worker_state[w] \in {"notifying", "writing"}
    /\ self_pipe_mutex = w <=> worker_state[w] = "writing"

DoneAfterExit == \A w \in Worker : worker_state[w] = "done" => exit_signal

PoolInv == ReadersHaveTasks /\ NotifiersHoldMutexes /\ DoneAfterExit

----------------------------------------------------------------------------
(* Counting the tasks of an identifier in a queue *)

LEMMA PositionsFinite ==
  ASSUME NEW S, NEW q \in Seq(S), NEW id
  PROVE  /\ IsFiniteSet({k \in DOMAIN q : q[k].first = id})
         /\ Occurrences(q, id) \in Nat
<1>1. IsFiniteSet(1 .. Len(q))
  BY FS_Interval, LenProperties
<1>2. DOMAIN q = 1 .. Len(q)
  BY LenProperties
<1>3. {k \in DOMAIN q : q[k].first = id} \in SUBSET (1 .. Len(q))
  BY <1>2
<1>4. IsFiniteSet({k \in DOMAIN q : q[k].first = id})
  BY <1>1, <1>3, FS_Subset
<1>. QED  BY <1>4, FS_CardinalityType DEF Occurrences

LEMMA OccurrencesEmpty ==
  ASSUME NEW id
  PROVE  Occurrences(<<>>, id) = 0
<1>1. {k \in DOMAIN <<>> : <<>>[k].first = id} = {}
  OBVIOUS
<1>. QED  BY <1>1, FS_EmptySet DEF Occurrences

LEMMA OccurrencesPositive ==
  ASSUME NEW S, NEW q \in Seq(S), NEW k \in DOMAIN q
  PROVE  Occurrences(q, q[k].first) > 0
<1>. DEFINE P == {j \in DOMAIN q : q[j].first = q[k].first}
<1>1. IsFiniteSet(P)
  BY PositionsFinite
<1>2. P # {}
  OBVIOUS
<1>3. Cardinality(P) \in Nat /\ Cardinality(P) # 0
  BY <1>1, <1>2, FS_EmptySet, FS_CardinalityType
<1>. QED  BY <1>3 DEF Occurrences

LEMMA OccurrencesAppend ==
  ASSUME NEW S, NEW q \in Seq(S), NEW x \in S, NEW id
  PROVE  Occurrences(Append(q, x), id) =
           IF x.first = id THEN Occurrences(q, id) + 1 ELSE Occurrences(q, id)
<1>. DEFINE P == {k \in DOMAIN q : q[k].first = id}
            R == {k \in DOMAIN Append(q, x) : Append(q, x)[k].first = id}
            n == Len(q) + 1
<1>1. /\ DOMAIN q = 1 .. Len(q) /\ Len(q) \in Nat
      /\ DOMAIN Append(q, x) = 1 .. n
      /\ \A k \in 1 .. Len(q) : Append(q, x)[k] = q[k]
      /\ Append(q, x)[n] = x
  BY LenProperties, AppendProperties
<1>2. R = IF x.first = id THEN P \cup {n} ELSE P
  BY <1>1
<1>3. n \notin P
  BY <1>1
<1>4. IsFiniteSet(P)
  BY PositionsFinite
<1>5. Cardinality(R) = IF x.first = id THEN Cardinality(P) + 1 ELSE Cardinality(P)
  BY <1>2, <1>3, <1>4, FS_AddElement
<1>. QED  BY <1>5 DEF Occurrences

LEMMA OccurrencesTail ==
  ASSUME NEW S, NEW q \in Seq(S), q # <<>>, NEW id
  PROVE  Occurrences(q, id) =
           IF Head(q).first = id THEN Occurrences(Tail(q), id) + 1
                                 ELSE Occurrences(Tail(q), id)
<1>. DEFINE P == {k \in DOMAIN q : q[k].first = id}
            T == {k \in DOMAIN Tail(q) : Tail(q)[k].first = id}
            U == P \ {1}
            f == [k \in T |-> k + 1]
<1>1. /\ DOMAIN q = 1 .. Len(q) /\ Len(q) \in Nat \ {0}
      /\ Head(q) = q[1]
      /\ Tail(q) \in Seq(S)
      /\ DOMAIN Tail(q) = 1 .. Len(q) - 1
      /\ \A k \in 1 .. Len(q) - 1 : Tail(q)[k] = q[k + 1]
  BY LenProperties, EmptySeq, HeadTailProperties
<1>2. f \in Bijection(T, U)
  <2>1. f \in [T -> U]
    BY <1>1
  <2>2. \A k, l \in T : f[k] = f[l] => k = l
    BY <1>1
  <2>3. \A u \in U : \E k \in T : f[k] = u
    <3>1. TAKE u \in U
    <3>2. u - 1 \in T /\ f[u - 1] = u
      BY <1>1
    <3>. QED  BY <3>2
  <2>. QED  BY <2>1, <2>2, <2>3 DEF Bijection, Injection, Surjection, IsInjective
<1>3. IsFiniteSet(T) /\ IsFiniteSet(P)
  BY <1>1, PositionsFinite
<1>4. IsFiniteSet(U) /\ Cardinality(U) = Cardinality(T)
  BY <1>2, <1>3, FS_Bijection, ZenonT(60) DEF ExistsBijection
<1>5. P = IF Head(q).first = id THEN U \cup {1} ELSE U
  BY <1>1
<1>6. Cardinality(P) =
        IF Head(q).first = id THEN Cardinality(U) + 1 ELSE Cardinality(U)
  BY <1>4, <1>5, FS_AddElement
<1>. QED  BY <1>4, <1>6 DEF Occurrences

----------------------------------------------------------------------------
(* Tasks in the hands of the workers *)

LEMMA WorkersFinite ==
  ASSUME NEW id
  PROVE  /\ IsFiniteSet(Worker) /\ IsFiniteSet(WorkersAt(id))
         /\ Cardinality(WorkersAt(id)) \in Nat
<1>1. IsFiniteSet(Worker)
  BY PoolAssumption, FS_Interval DEF Worker
<1>2. WorkersAt(id) \in SUBSET Worker
  BY DEF WorkersAt
<1>. QED  BY <1>1, <1>2, FS_Subset, FS_CardinalityType

LEMMA InPoolType ==
  ASSUME NEW Task, NEW Result, PoolTypeOK(Task, Result), NEW id
  PROVE  InPool(id) \in Nat
<1>1. Occurrences(task_queue, id) \in Nat /\ Occurrences(result_queue, id) \in Nat
  BY PositionsFinite DEF PoolTypeOK
<1>. QED  BY <1>1, WorkersFinite DEF InPool

\* A task that is somewhere in the pool is counted.
LEMMA InPoolPositive ==
  ASSUME NEW Task, NEW Result, PoolTypeOK(Task, Result)
  PROVE  /\ \A k \in DOMAIN task_queue : InPool(task_queue[k].first) > 0
         /\ \A k \in DOMAIN result_queue : InPool(result_queue[k].first) > 0
         /\ \A w \in Worker :
              worker_task[w] # None => InPool(worker_task[w].first) > 0
<1>. task_queue \in Seq(Task) /\ result_queue \in Seq(Result)
  BY DEF PoolTypeOK
<1>1. \A id : /\ Occurrences(task_queue, id) \in Nat
              /\ Occurrences(result_queue, id) \in Nat
              /\ Cardinality(WorkersAt(id)) \in Nat
  BY PositionsFinite, WorkersFinite
<1>2. \A k \in DOMAIN task_queue : InPool(task_queue[k].first) > 0
  BY <1>1, OccurrencesPositive DEF InPool
<1>3. \A k \in DOMAIN result_queue : InPool(result_queue[k].first) > 0
  BY <1>1, OccurrencesPositive DEF InPool
<1>4. \A w \in Worker : worker_task[w] # None => InPool(worker_task[w].first) > 0
  <2>. SUFFICES ASSUME NEW w \in Worker, worker_task[w] # None
                PROVE  InPool(worker_task[w].first) > 0
    OBVIOUS
  <2>1. w \in WorkersAt(worker_task[w].first)
    BY DEF WorkersAt
  <2>2. Cardinality(WorkersAt(worker_task[w].first)) # 0
    BY <2>1, WorkersFinite, FS_EmptySet
  <2>. QED  BY <1>1, <2>2 DEF InPool
<1>. QED  BY <1>2, <1>3, <1>4

LEMMA PoolInitially ==
  ASSUME NEW Task, NEW Result, PoolInit
  PROVE  PoolTypeOK(Task, Result) /\ PoolInv /\ \A id : InPool(id) = 0
<1>1. <<>> \in Seq(Task) /\ <<>> \in Seq(Result) /\ PipeCapacity \in Nat
  BY PoolAssumption, EmptySeq
<1>. worker_state \in [Worker -> WorkerState]
  BY DEF PoolInit, WorkerState
<1>. worker_task \in [Worker -> Task \cup {None}]
  BY DEF PoolInit
<1>. self_pipe \in 0 .. PipeCapacity
  BY <1>1 DEF PoolInit
<1>. PoolTypeOK(Task, Result)
  BY <1>1, Zenon DEF PoolInit, PoolTypeOK
<1>2. PoolInv
  BY ThreadAssumption
  DEF PoolInit, PoolInv, ReadersHaveTasks, NotifiersHoldMutexes, DoneAfterExit
<1>3. \A id : InPool(id) = 0
  <2>. TAKE id
  <2>1. WorkersAt(id) = {}
    BY DEF PoolInit, WorkersAt
  <2>. QED  BY <2>1, OccurrencesEmpty, FS_EmptySet DEF PoolInit, InPool
<1>. QED  BY <1>2, <1>3

----------------------------------------------------------------------------
(* What the owner does to the pool *)

LEMMA SignalKeeps ==
  ASSUME worker_state \in [Worker -> WorkerState], SignalTaskQueue
  PROVE  /\ worker_state' \in [Worker -> WorkerState]
         /\ \A w \in Worker :
              /\ worker_state'[w] # "waiting"
              /\ worker_state[w] # "waiting" => worker_state'[w] = worker_state[w]
              /\ worker_state[w] = "waiting" => worker_state'[w] = "woken"
BY DEF SignalTaskQueue, WorkerState

\* Waking the workers keeps the invariant, when it is all that happens to them.
LEMMA WakingKeeps ==
  ASSUME PoolInv, worker_state \in [Worker -> WorkerState], SignalTaskQueue,
         UNCHANGED <<worker_task, result_mutex, self_pipe_mutex, exit_signal>>
  PROVE  PoolInv'
<1>1. \A w \in Worker : \A st \in {"reading", "notifying", "writing", "done"} :
        worker_state'[w] = st <=> worker_state[w] = st
  BY SignalKeeps
<1>2. ReadersHaveTasks'
  BY <1>1 DEF PoolInv, ReadersHaveTasks
<1>3. NotifiersHoldMutexes'
  BY <1>1 DEF PoolInv, NotifiersHoldMutexes
<1>4. DoneAfterExit'
  BY <1>1 DEF PoolInv, DoneAfterExit
<1>. QED  BY <1>2, <1>3, <1>4 DEF PoolInv

LEMMA QueueTaskCounts ==
  ASSUME NEW Task, NEW Result, PoolTypeOK(Task, Result), NEW task \in Task,
         QueueTask(task), UNCHANGED <<result_queue, worker_task>>, NEW id
  PROVE  InPool(id)' = IF task.first = id THEN InPool(id) + 1 ELSE InPool(id)
<1>. task_queue \in Seq(Task) /\ result_queue \in Seq(Result)
  BY DEF PoolTypeOK
<1>1. Occurrences(task_queue, id)' =
        IF task.first = id THEN Occurrences(task_queue, id) + 1
                           ELSE Occurrences(task_queue, id)
  BY OccurrencesAppend DEF QueueTask
<1>2. Occurrences(result_queue, id)' = Occurrences(result_queue, id)
  BY DEF Occurrences
<1>3. WorkersAt(id)' = WorkersAt(id)
  BY DEF WorkersAt
<1>4. /\ Occurrences(task_queue, id) \in Nat /\ Occurrences(result_queue, id) \in Nat
      /\ Cardinality(WorkersAt(id)) \in Nat
  BY PositionsFinite, WorkersFinite
<1>. QED  BY <1>1, <1>2, <1>3, <1>4 DEF InPool

LEMMA DequeueResultCounts ==
  ASSUME NEW Task, NEW Result, PoolTypeOK(Task, Result), result_queue # <<>>,
         DequeueResult, UNCHANGED <<task_queue, worker_task>>, NEW id
  PROVE  /\ InPool(id)' \in Nat
         /\ InPool(id) = IF Head(result_queue).first = id THEN InPool(id)' + 1
                                                          ELSE InPool(id)'
<1>. task_queue \in Seq(Task) /\ result_queue \in Seq(Result)
  BY DEF PoolTypeOK
<1>1. Occurrences(result_queue, id) =
        IF Head(result_queue).first = id THEN Occurrences(result_queue, id)' + 1
                                         ELSE Occurrences(result_queue, id)'
  BY OccurrencesTail DEF DequeueResult
<1>2. Occurrences(task_queue, id)' = Occurrences(task_queue, id)
  BY DEF Occurrences
<1>3. WorkersAt(id)' = WorkersAt(id)
  BY DEF WorkersAt
<1>4. result_queue' \in Seq(Result)
  BY HeadTailProperties DEF DequeueResult
<1>5. Occurrences(result_queue, id)' \in Nat
  BY <1>4, PositionsFinite
<1>6. /\ Occurrences(task_queue, id) \in Nat /\ Cardinality(WorkersAt(id)) \in Nat
  BY PositionsFinite, WorkersFinite
<1>. QED  BY <1>1, <1>2, <1>3, <1>5, <1>6 DEF InPool

----------------------------------------------------------------------------
(* What a worker does to the pool *)

\* Nothing that InPool counts has changed.
LEMMA InPoolUnchanged ==
  ASSUME UNCHANGED <<task_queue, result_queue, worker_task>>, NEW id
  PROVE  InPool(id)' = InPool(id)
BY DEF InPool, Occurrences, WorkersAt

\* A worker that only goes on to another place, without a task.
LEMMA GoingKeepsTasks ==
  ASSUME worker_state \in [Worker -> WorkerState], ReadersHaveTasks,
         NEW w \in Worker, NEW to \in WorkerState \ {"reading"},
         worker_state[w] # "reading", Goes(w, to), UNCHANGED worker_task
  PROVE  ReadersHaveTasks' /\ worker_state' \in [Worker -> WorkerState]
BY DEF ReadersHaveTasks, Goes

LEMMA TakeTaskKeeps ==
  ASSUME NEW Task, NEW Result, PoolTypeOK(Task, Result), PoolInv,
         None \notin Task, NEW w \in Worker, TakeTask(w)
  PROVE  /\ PoolTypeOK(Task, Result)' /\ PoolInv'
         /\ \A id : InPool(id)' = InPool(id)
<1>. task_queue \in Seq(Task) /\ result_queue \in Seq(Result) /\ task_queue # <<>>
  BY DEF PoolTypeOK, TakeTask
<1>1. Head(task_queue) \in Task /\ task_queue' \in Seq(Task)
  BY HeadTailProperties DEF TakeTask, PopTask
<1>2. worker_state' \in [Worker -> WorkerState]
  BY DEF PoolTypeOK, TakeTask, Goes, WorkerState
<1>3. worker_task' \in [Worker -> Task \cup {None}]
  BY <1>1 DEF PoolTypeOK, TakeTask
<1>4. PoolTypeOK(Task, Result)'
  BY <1>1, <1>2, <1>3 DEF PoolTypeOK, TakeTask
<1>5. worker_task[w] = None
  BY DEF PoolInv, ReadersHaveTasks, TakeTask
<1>6. PoolInv'
  <2>1. ReadersHaveTasks'
    BY <1>1 DEF PoolInv, PoolTypeOK, ReadersHaveTasks, TakeTask, Goes
  <2>2. NotifiersHoldMutexes'
    BY DEF PoolInv, PoolTypeOK, NotifiersHoldMutexes, TakeTask, Goes
  <2>3. DoneAfterExit'
    BY DEF PoolInv, PoolTypeOK, DoneAfterExit, TakeTask, Goes
  <2>. QED  BY <2>1, <2>2, <2>3 DEF PoolInv
<1>7. ASSUME NEW id
      PROVE  InPool(id)' = InPool(id)
  <2>1. Occurrences(task_queue, id) =
          IF Head(task_queue).first = id THEN Occurrences(task_queue, id)' + 1
                                         ELSE Occurrences(task_queue, id)'
    BY OccurrencesTail DEF TakeTask, PopTask
  <2>2. WorkersAt(id)' = IF Head(task_queue).first = id
                         THEN WorkersAt(id) \cup {w} ELSE WorkersAt(id)
    BY <1>1, <1>5 DEF WorkersAt, TakeTask, PoolTypeOK
  <2>3. w \notin WorkersAt(id)
    BY <1>5 DEF WorkersAt
  <2>4. Cardinality(WorkersAt(id)') =
          IF Head(task_queue).first = id THEN Cardinality(WorkersAt(id)) + 1
                                         ELSE Cardinality(WorkersAt(id))
    BY <2>2, <2>3, WorkersFinite, FS_AddElement
  <2>5. Occurrences(result_queue, id)' = Occurrences(result_queue, id)
    BY DEF TakeTask, Occurrences
  <2>6. /\ Occurrences(task_queue, id)' \in Nat /\ Occurrences(result_queue, id) \in Nat
        /\ Cardinality(WorkersAt(id)) \in Nat
    BY <1>1, PositionsFinite, WorkersFinite
  <2>. QED  BY <2>1, <2>4, <2>5, <2>6 DEF InPool
<1>. QED  BY <1>4, <1>6, <1>7

LEMMA QueueResultKeeps ==
  ASSUME NEW Task, NEW Result, PoolTypeOK(Task, Result), PoolInv,
         \A task \in Task : \A buffer \in Buffers(task.second) :
           [first |-> task.first, second |-> buffer] \in Result,
         NEW w \in Worker, QueueResult(w)
  PROVE  /\ PoolTypeOK(Task, Result)' /\ PoolInv'
         /\ \A id : InPool(id)' = InPool(id)
<1>. task_queue \in Seq(Task) /\ result_queue \in Seq(Result)
  BY DEF PoolTypeOK
<1>1. worker_task[w] \in Task /\ worker_task[w] # None
  BY DEF PoolTypeOK, PoolInv, ReadersHaveTasks, QueueResult
<1>2. PICK buffer \in Buffers(worker_task[w].second) :
        result_queue' = Append(result_queue, [first |-> worker_task[w].first,
                                              second |-> buffer])
  BY DEF QueueResult
<1>. DEFINE result == [first |-> worker_task[w].first, second |-> buffer]
<1>3. result \in Result
  BY <1>1, <1>2
<1>4. result_queue' \in Seq(Result)
  BY <1>2, <1>3, AppendProperties
<1>5. PoolTypeOK(Task, Result)'
  <2>1. worker_state' \in [Worker -> WorkerState]
    BY DEF PoolTypeOK, QueueResult, Goes, WorkerState
  <2>2. worker_task' \in [Worker -> Task \cup {None}]
    BY DEF PoolTypeOK, QueueResult
  <2>3. main_waits' \in BOOLEAN /\ result_mutex' \in Worker \cup {Main, None}
    BY DEF QueueResult
  <2>. QED  BY <1>4, <2>1, <2>2, <2>3 DEF PoolTypeOK, QueueResult
<1>6. PoolInv'
  <2>1. ReadersHaveTasks'
    BY DEF PoolInv, PoolTypeOK, ReadersHaveTasks, QueueResult, Goes
  <2>2. NotifiersHoldMutexes'
    BY ThreadAssumption
    DEF PoolInv, PoolTypeOK, NotifiersHoldMutexes, QueueResult, Goes
  <2>3. DoneAfterExit'
    BY DEF PoolInv, PoolTypeOK, DoneAfterExit, QueueResult, Goes
  <2>. QED  BY <2>1, <2>2, <2>3 DEF PoolInv
<1>7. ASSUME NEW id
      PROVE  InPool(id)' = InPool(id)
  <2>1. Occurrences(result_queue, id)' =
          IF worker_task[w].first = id THEN Occurrences(result_queue, id) + 1
                                       ELSE Occurrences(result_queue, id)
    BY <1>2, <1>3, OccurrencesAppend
  <2>2. WorkersAt(id)' = WorkersAt(id) \ {w}
    BY DEF WorkersAt, QueueResult, PoolTypeOK
  <2>3. w \in WorkersAt(id) <=> worker_task[w].first = id
    BY <1>1 DEF WorkersAt
  <2>4. Cardinality(WorkersAt(id)') =
          IF worker_task[w].first = id THEN Cardinality(WorkersAt(id)) - 1
                                       ELSE Cardinality(WorkersAt(id))
    BY <2>2, <2>3, WorkersFinite, FS_RemoveElement
  <2>5. Occurrences(task_queue, id)' = Occurrences(task_queue, id)
    BY DEF QueueResult, Occurrences
  <2>6. /\ Occurrences(task_queue, id) \in Nat /\ Occurrences(result_queue, id) \in Nat
        /\ Cardinality(WorkersAt(id)) \in Nat
    BY PositionsFinite, WorkersFinite
  <2>. QED  BY <2>1, <2>4, <2>5, <2>6 DEF InPool
<1>. QED  BY <1>5, <1>6, <1>7

LEMMA WorkerStepKeeps ==
  ASSUME NEW Task, NEW Result, PoolTypeOK(Task, Result), PoolInv,
         None \notin Task,
         \A task \in Task : \A buffer \in Buffers(task.second) :
           [first |-> task.first, second |-> buffer] \in Result,
         NEW w \in Worker, WorkerStep(w)
  PROVE  /\ PoolTypeOK(Task, Result)' /\ PoolInv'
         /\ \A id : InPool(id)' = InPool(id)
<1>. USE DEF PoolInv
<1>1. CASE TakeTask(w)
  BY <1>1, TakeTaskKeeps
<1>2. CASE FindNoTask(w)
  <2>1. ReadersHaveTasks' /\ worker_state' \in [Worker -> WorkerState]
    <3>1. CASE worker_state[w] = "checking"
      BY <1>2, <3>1, GoingKeepsTasks DEF FindNoTask, PoolTypeOK, WorkerState
    <3>2. CASE worker_state[w] = "woken"
      BY <1>2, <3>2, GoingKeepsTasks DEF FindNoTask, PoolTypeOK, WorkerState
    <3>. QED  BY <1>2, <3>1, <3>2 DEF FindNoTask
  <2>2. PoolTypeOK(Task, Result)'
    BY <1>2, <2>1 DEF PoolTypeOK, FindNoTask
  <2>3. NotifiersHoldMutexes' /\ DoneAfterExit'
    BY <1>2 DEF PoolTypeOK, NotifiersHoldMutexes, DoneAfterExit, FindNoTask, Goes
  <2>. QED  BY <1>2, <2>1, <2>2, <2>3, InPoolUnchanged DEF FindNoTask
<1>3. CASE QueueResult(w)
  BY <1>3, QueueResultKeeps
<1>4. CASE LockSelfPipe(w)
  <2>1. ReadersHaveTasks' /\ worker_state' \in [Worker -> WorkerState]
    BY <1>4, GoingKeepsTasks DEF LockSelfPipe, PoolTypeOK, WorkerState
  <2>2. PoolTypeOK(Task, Result)'
    BY <1>4, <2>1 DEF PoolTypeOK, LockSelfPipe
  <2>3. NotifiersHoldMutexes' /\ DoneAfterExit'
    BY <1>4, ThreadAssumption
    DEF PoolTypeOK, NotifiersHoldMutexes, DoneAfterExit, LockSelfPipe, Goes
  <2>. QED  BY <1>4, <2>1, <2>2, <2>3, InPoolUnchanged DEF LockSelfPipe
<1>5. CASE NotifySelfPipe(w)
  <2>1. ReadersHaveTasks' /\ worker_state' \in [Worker -> WorkerState]
    BY <1>5, GoingKeepsTasks DEF NotifySelfPipe, PoolTypeOK, WorkerState
  <2>2. self_pipe' \in 0 .. PipeCapacity
    BY <1>5, PoolAssumption DEF PoolTypeOK, NotifySelfPipe
  <2>3. PoolTypeOK(Task, Result)'
    BY <1>5, <2>1, <2>2, Zenon DEF PoolTypeOK, NotifySelfPipe
  <2>4. NotifiersHoldMutexes' /\ DoneAfterExit'
    BY <1>5, ThreadAssumption
    DEF PoolTypeOK, NotifiersHoldMutexes, DoneAfterExit, NotifySelfPipe, Goes
  <2>. QED  BY <1>5, <2>1, <2>3, <2>4, InPoolUnchanged DEF NotifySelfPipe
<1>6. CASE CheckExit(w)
  <2>1. ReadersHaveTasks' /\ worker_state' \in [Worker -> WorkerState]
    <3>1. CASE exit_signal
      BY <1>6, <3>1, GoingKeepsTasks DEF CheckExit, PoolTypeOK, WorkerState
    <3>2. CASE ~exit_signal
      BY <1>6, <3>2, GoingKeepsTasks DEF CheckExit, PoolTypeOK, WorkerState
    <3>. QED  BY <3>1, <3>2
  <2>2. PoolTypeOK(Task, Result)'
    BY <1>6, <2>1 DEF PoolTypeOK, CheckExit
  <2>3. NotifiersHoldMutexes' /\ DoneAfterExit'
    BY <1>6 DEF PoolTypeOK, NotifiersHoldMutexes, DoneAfterExit, CheckExit, Goes
  <2>. QED  BY <1>6, <2>1, <2>2, <2>3, InPoolUnchanged DEF CheckExit
<1>7. CASE WakeSpuriously(w)
  <2>1. ReadersHaveTasks' /\ worker_state' \in [Worker -> WorkerState]
    BY <1>7, GoingKeepsTasks DEF WakeSpuriously, PoolTypeOK, WorkerState
  <2>2. PoolTypeOK(Task, Result)'
    BY <1>7, <2>1 DEF PoolTypeOK, WakeSpuriously
  <2>3. NotifiersHoldMutexes' /\ DoneAfterExit'
    BY <1>7 DEF PoolTypeOK, NotifiersHoldMutexes, DoneAfterExit, WakeSpuriously, Goes
  <2>. QED  BY <1>7, <2>1, <2>2, <2>3, InPoolUnchanged DEF WakeSpuriously
<1>. QED  BY <1>1, <1>2, <1>3, <1>4, <1>5, <1>6, <1>7 DEF WorkerStep, WorkerRuns

----------------------------------------------------------------------------
(* No wake-up is lost *)

LEMMA AwakeAfterSignal ==
  ASSUME worker_state \in [Worker -> WorkerState], PoolInv, SignalTaskQueue,
         UNCHANGED exit_signal
  PROVE  NoLostTask'
<1>. SUFFICES ASSUME ~exit_signal
              PROVE  \E w \in Worker : ~Idle(w)'
  BY DEF NoLostTask
<1>1. 1 \in Worker
  BY PoolAssumption DEF Worker
<1>2. worker_state[1] # "done"
  BY <1>1 DEF PoolInv, DoneAfterExit
<1>3. worker_state'[1] \notin {"waiting", "done"}
  BY <1>1, <1>2, SignalKeeps
<1>. QED  BY <1>1, <1>3 DEF Idle

LEMMA WorkerStepLosesNoTask ==
  ASSUME worker_state \in [Worker -> WorkerState], NoLostTask,
         NEW w \in Worker, WorkerStep(w)
  PROVE  NoLostTask'
<1>1. CASE FindNoTask(w)
  BY <1>1 DEF NoLostTask, FindNoTask
<1>2. CASE CheckExit(w) /\ exit_signal
  BY <1>2 DEF NoLostTask, CheckExit
<1>3. CASE ~FindNoTask(w) /\ ~(CheckExit(w) /\ exit_signal)
  <2>1. worker_state'[w] \in WorkerState \ {"waiting", "done"}
    BY <1>3 DEF WorkerStep, WorkerRuns, TakeTask, QueueResult, LockSelfPipe,
                NotifySelfPipe, CheckExit, WakeSpuriously, Goes, WorkerState
  <2>. QED  BY <2>1 DEF NoLostTask, Idle
<1>. QED  BY <1>1, <1>2, <1>3
=============================================================================
