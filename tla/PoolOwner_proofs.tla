-------------------------- MODULE PoolOwner_proofs --------------------------
(***************************************************************************)
(* The pool in the hands of thread_pool_test.cc, for every number of       *)
(* threads and tasks and every capacity of the self-pipe.                  *)
(***************************************************************************)
EXTENDS PoolOwner, ThreadPool_proofs

\* The owner is not woken from wait_for_result before there is a result, which
\* only the owner takes out.
WokenHasResult ==
  main_state = "waiting" /\ ~main_waits => result_queue # <<>>

\* Tasks are numbered as they are queued; each number is somewhere once, and no
\* number is anywhere before its task is queued.
TasksAreNumbered ==
  /\ Len(queued) <= NumTasks
  /\ \A k \in DOMAIN queued : queued[k].first = k
EachTaskOnce ==
  \A id \in Identifier : Places(id) = IF id <= Len(queued) THEN 1 ELSE 0

\* The owner releases the mutexes within the step that takes them.
OwnerHoldsNothing == result_mutex # Main /\ self_pipe_mutex # Main

\* destroy goes on to the next thread only when the one before has ended.
JoinedAreDone ==
  /\ \A w \in Worker : w <= joined => worker_state[w] = "done"
  /\ main_state = "joining" => joined < NumThreads
  /\ main_state = "destroyed" => joined = NumThreads

IInv ==
  /\ TypeOK /\ PoolInv /\ NoLostTask
  /\ WokenHasResult /\ TasksAreNumbered /\ EachTaskOnce
  /\ OwnerHoldsNothing /\ JoinedAreDone

----------------------------------------------------------------------------
(* Lemmas *)

LEMMA ResultsAreTyped ==
  \A task \in Task : \A buffer \in Buffers(task.second) :
    [first |-> task.first, second |-> buffer] \in Result
BY DEF Task, Result, Buffers

LEMMA InitIInv ==
  ASSUME Init
  PROVE  IInv
<1>1. PoolTypeOK(Task, Result) /\ PoolInv /\ \A id : InPool(id) = 0
  BY PoolInitially DEF Init
<1>2. TypeOK
  <2>1. queued \in Seq(Task) /\ taken \in Seq(Result)
    BY EmptySeq DEF Init
  <2>2. joined \in 0 .. NumThreads
    BY PoolAssumption DEF Init
  <2>. QED  BY <1>1, <2>1, <2>2 DEF Init, TypeOK, MainState
<1>3. NoLostTask
  BY DEF Init, PoolInit, NoLostTask
<1>4. WokenHasResult
  BY DEF Init, WokenHasResult
<1>5. TasksAreNumbered
  BY OwnerAssumption DEF Init, TasksAreNumbered
<1>6. EachTaskOnce
  <2>. SUFFICES ASSUME NEW id \in Identifier
                PROVE  Places(id) = 0 /\ ~(id <= Len(queued))
    BY DEF EachTaskOnce
  <2>1. Places(id) = 0
    BY <1>1, OccurrencesEmpty DEF Init, Places
  <2>. QED  BY <2>1 DEF Init, Identifier
<1>7. OwnerHoldsNothing
  BY ThreadAssumption DEF Init, PoolInit, OwnerHoldsNothing
<1>8. JoinedAreDone
  BY DEF Init, JoinedAreDone, Worker
<1>. QED  BY <1>1, <1>2, <1>3, <1>4, <1>5, <1>6, <1>7, <1>8 DEF IInv

\* A step that neither queues a task nor takes a result.
LEMMA PlacesUnchanged ==
  ASSUME \A id : InPool(id)' = InPool(id), EachTaskOnce, TasksAreNumbered,
         UNCHANGED <<queued, taken>>
  PROVE  EachTaskOnce' /\ TasksAreNumbered'
<1>1. EachTaskOnce'
  BY DEF EachTaskOnce, Places, Occurrences
<1>2. TasksAreNumbered'
  BY DEF TasksAreNumbered
<1>. QED  BY <1>1, <1>2

LEMMA WorkerKeeps ==
  ASSUME IInv, NEW w \in Worker, WorkerStep(w), UNCHANGED ownerVars
  PROVE  IInv'
<1>. USE DEF IInv
<1>1. /\ PoolTypeOK(Task, Result)' /\ PoolInv'
      /\ \A id : InPool(id)' = InPool(id)
  BY WorkerStepKeeps, ResultsAreTyped, OwnerAssumption DEF TypeOK
<1>2. TypeOK'
  BY <1>1 DEF TypeOK, ownerVars
<1>3. NoLostTask'
  BY WorkerStepLosesNoTask DEF TypeOK, PoolTypeOK
<1>4. WokenHasResult'
  <2>1. CASE QueueResult(w)
    <3>1. PICK x : result_queue' = Append(result_queue, x)
      BY <2>1 DEF QueueResult
    <3>2. result_queue \in Seq(Result)
      BY DEF TypeOK, PoolTypeOK
    <3>. QED  BY <3>1, <3>2 DEF WokenHasResult
  <2>2. CASE ~QueueResult(w)
    BY <2>2 DEF WokenHasResult, ownerVars, WorkerStep, WorkerRuns, TakeTask,
                FindNoTask, LockSelfPipe, NotifySelfPipe, CheckExit, WakeSpuriously
  <2>. QED  BY <2>1, <2>2
<1>5. EachTaskOnce' /\ TasksAreNumbered'
  BY <1>1, PlacesUnchanged DEF ownerVars
<1>6. OwnerHoldsNothing'
  BY ThreadAssumption
  DEF OwnerHoldsNothing, WorkerStep, WorkerRuns, TakeTask, FindNoTask, QueueResult,
      LockSelfPipe, NotifySelfPipe, CheckExit, WakeSpuriously
<1>7. JoinedAreDone'
  <2>1. \A v \in Worker : worker_state[v] = "done" => worker_state'[v] = "done"
    BY DEF TypeOK, PoolTypeOK, WorkerStep, WorkerRuns, TakeTask, FindNoTask,
           QueueResult, LockSelfPipe, NotifySelfPipe, CheckExit, WakeSpuriously, Goes
  <2>. QED  BY <2>1 DEF JoinedAreDone, ownerVars
<1>. QED  BY <1>1, <1>2, <1>3, <1>4, <1>5, <1>6, <1>7

----------------------------------------------------------------------------
(* The steps of the owner *)

LEMMA SubmitKeeps ==
  ASSUME IInv, Submit
  PROVE  IInv'
<1>. USE DEF IInv
<1>. DEFINE n == Len(queued) + 1
<1>1. PICK path \in Path :
        /\ QueueTask([first |-> n, second |-> path])
        /\ queued' = Append(queued, [first |-> n, second |-> path])
  BY DEF Submit
<1>. DEFINE task == [first |-> n, second |-> path]
<1>2. n \in Identifier /\ Len(queued) \in Nat /\ queued \in Seq(Task)
  BY OwnerAssumption, LenProperties DEF TypeOK, Submit, Identifier
<1>3. task \in Task
  BY <1>2 DEF Task
<1>4. /\ queued' \in Seq(Task) /\ Len(queued') = n
      /\ \A k \in 1 .. Len(queued) : queued'[k] = queued[k]
      /\ queued'[n] = task
      /\ DOMAIN queued = 1 .. Len(queued) /\ DOMAIN queued' = 1 .. n
  BY <1>1, <1>2, <1>3, AppendProperties, LenProperties
<1>5. SignalTaskQueue /\ task_queue' = Append(task_queue, task)
  BY <1>1 DEF QueueTask
<1>6. TypeOK'
  <2>1. task_queue' \in Seq(Task)
    BY <1>3, <1>5, AppendProperties DEF TypeOK, PoolTypeOK
  <2>2. worker_state' \in [Worker -> WorkerState]
    BY <1>5, SignalKeeps DEF TypeOK, PoolTypeOK
  <2>. QED  BY <1>4, <2>1, <2>2 DEF TypeOK, PoolTypeOK, Submit
<1>7. PoolInv' /\ NoLostTask'
  BY <1>5, WakingKeeps, AwakeAfterSignal DEF Submit, TypeOK, PoolTypeOK
<1>8. WokenHasResult'
  BY DEF WokenHasResult, Submit
<1>9. TasksAreNumbered'
  BY <1>2, <1>4 DEF TasksAreNumbered, Identifier
<1>10. EachTaskOnce'
  <2>. SUFFICES ASSUME NEW id \in Identifier
                PROVE  Places(id)' = IF id <= Len(queued') THEN 1 ELSE 0
    BY DEF EachTaskOnce
  <2>1. InPool(id)' = IF n = id THEN InPool(id) + 1 ELSE InPool(id)
    BY <1>1, <1>3, QueueTaskCounts DEF TypeOK, Submit
  <2>2. Occurrences(taken, id)' = Occurrences(taken, id)
    BY DEF Submit, Occurrences
  <2>3. InPool(id) \in Nat /\ Occurrences(taken, id) \in Nat
    BY InPoolType, PositionsFinite DEF TypeOK
  <2>4. Places(id)' = IF n = id THEN Places(id) + 1 ELSE Places(id)
    BY <2>1, <2>2, <2>3 DEF Places
  <2>5. Places(id) = IF id <= Len(queued) THEN 1 ELSE 0
    BY DEF EachTaskOnce
  <2>. QED  BY <1>2, <1>4, <2>4, <2>5 DEF Identifier
<1>11. OwnerHoldsNothing'
  BY DEF OwnerHoldsNothing, Submit
<1>12. JoinedAreDone'
  BY <1>5, SignalKeeps DEF JoinedAreDone, Submit, TypeOK, PoolTypeOK
<1>. QED  BY <1>6, <1>7, <1>8, <1>9, <1>10, <1>11, <1>12

LEMMA TakeResultKeeps ==
  ASSUME IInv, TakeResult
  PROVE  IInv'
<1>. USE DEF IInv
<1>1. result_queue # <<>> /\ result_queue \in Seq(Result) /\ taken \in Seq(Result)
  BY DEF TakeResult, WokenHasResult, TypeOK, PoolTypeOK
<1>2. Head(result_queue) \in Result /\ Tail(result_queue) \in Seq(Result)
  BY <1>1, HeadTailProperties
<1>3. TypeOK'
  <2>1. result_queue' \in Seq(Result)
    BY <1>2 DEF TakeResult, DequeueResult
  <2>2. taken' \in Seq(Result)
    BY <1>1, <1>2, AppendProperties DEF TakeResult
  <2>. QED  BY <2>1, <2>2 DEF TypeOK, PoolTypeOK, MainState, TakeResult
<1>4. PoolInv'
  BY DEF PoolInv, ReadersHaveTasks, NotifiersHoldMutexes, DoneAfterExit, TakeResult
<1>5. NoLostTask'
  BY DEF NoLostTask, Idle, TakeResult
<1>6. WokenHasResult' /\ TasksAreNumbered' /\ OwnerHoldsNothing' /\ JoinedAreDone'
  BY DEF WokenHasResult, TasksAreNumbered, OwnerHoldsNothing, JoinedAreDone, TakeResult
<1>7. EachTaskOnce'
  <2>. SUFFICES ASSUME NEW id \in Identifier
                PROVE  Places(id)' = Places(id)
    BY DEF EachTaskOnce, TakeResult
  <2>1. InPool(id) = IF Head(result_queue).first = id THEN InPool(id)' + 1
                                                      ELSE InPool(id)'
    BY <1>1, DequeueResultCounts DEF TypeOK, TakeResult
  <2>2. Occurrences(taken, id)' =
          IF Head(result_queue).first = id THEN Occurrences(taken, id) + 1
                                           ELSE Occurrences(taken, id)
    BY <1>1, <1>2, OccurrencesAppend DEF TakeResult
  <2>3. InPool(id)' \in Nat
    <3>1. /\ Occurrences(task_queue, id)' \in Nat
          /\ Occurrences(result_queue, id)' \in Nat
      BY <1>3, PositionsFinite DEF TypeOK, PoolTypeOK
    <3>2. Cardinality(WorkersAt(id))' \in Nat
      BY WorkersFinite DEF WorkersAt, TakeResult
    <3>. QED  BY <3>1, <3>2 DEF InPool
  <2>4. Occurrences(taken, id) \in Nat
    BY <1>1, PositionsFinite
  <2>. QED  BY <2>1, <2>2, <2>3, <2>4 DEF Places
<1>. QED  BY <1>3, <1>4, <1>5, <1>6, <1>7

\* WaitForResult and WakeWorkers broadcast on task_cond_var and touch no queue.
LEMMA BroadcastKeeps ==
  ASSUME IInv, SignalTaskQueue,
         UNCHANGED <<task_queue, result_queue, worker_task, result_mutex,
                     self_pipe_mutex, self_pipe, exit_signal, queued, taken, joined>>
  PROVE  /\ PoolInv' /\ NoLostTask' /\ EachTaskOnce' /\ TasksAreNumbered'
         /\ OwnerHoldsNothing'
         /\ worker_state' \in [Worker -> WorkerState]
         /\ \A w \in Worker : w <= joined => worker_state'[w] = "done"
<1>. USE DEF IInv
<1>1. worker_state \in [Worker -> WorkerState]
  BY DEF TypeOK, PoolTypeOK
<1>2. \A id : InPool(id)' = InPool(id)
  BY InPoolUnchanged
<1>3. EachTaskOnce' /\ TasksAreNumbered'
  BY <1>2, PlacesUnchanged
<1>4. PoolInv' /\ NoLostTask'
  BY <1>1, WakingKeeps, AwakeAfterSignal
<1>5. \A w \in Worker : w <= joined => worker_state'[w] = "done"
  BY <1>1, SignalKeeps DEF JoinedAreDone
<1>. QED  BY <1>1, <1>3, <1>4, <1>5, SignalKeeps DEF OwnerHoldsNothing

LEMMA WaitForResultKeeps ==
  ASSUME IInv, WaitForResult
  PROVE  IInv'
<1>1. /\ PoolInv' /\ NoLostTask' /\ EachTaskOnce' /\ TasksAreNumbered'
      /\ OwnerHoldsNothing'
      /\ worker_state' \in [Worker -> WorkerState]
      /\ \A w \in Worker : w <= joined => worker_state'[w] = "done"
  BY BroadcastKeeps DEF WaitForResult
<1>2. TypeOK'
  BY <1>1 DEF IInv, TypeOK, PoolTypeOK, MainState, WaitForResult
<1>3. WokenHasResult' /\ JoinedAreDone'
  BY <1>1 DEF WokenHasResult, JoinedAreDone, WaitForResult
<1>. QED  BY <1>1, <1>2, <1>3 DEF IInv

LEMMA WakeWorkersKeeps ==
  ASSUME IInv, WakeWorkers
  PROVE  IInv'
<1>1. /\ PoolInv' /\ NoLostTask' /\ EachTaskOnce' /\ TasksAreNumbered'
      /\ OwnerHoldsNothing'
      /\ worker_state' \in [Worker -> WorkerState]
      /\ \A w \in Worker : w <= joined => worker_state'[w] = "done"
  BY BroadcastKeeps DEF WakeWorkers
<1>2. TypeOK'
  BY <1>1 DEF IInv, TypeOK, PoolTypeOK, MainState, WakeWorkers
<1>3. joined \in 0 .. NumThreads /\ NumThreads \in Nat
  BY PoolAssumption DEF IInv, TypeOK
<1>4. WokenHasResult' /\ JoinedAreDone'
  BY <1>1, <1>3 DEF WokenHasResult, JoinedAreDone, WakeWorkers
<1>. QED  BY <1>1, <1>2, <1>4 DEF IInv

\* The steps that leave the pool alone but for exit_signal.
LEMMA OwnerAloneKeeps ==
  ASSUME IInv, AllQueued \/ SignalExit \/ Join
  PROVE  IInv'
<1>. USE DEF IInv
<1>1. \A id : InPool(id)' = InPool(id)
  BY InPoolUnchanged DEF AllQueued, SignalExit, Join, poolVars
<1>2. EachTaskOnce' /\ TasksAreNumbered'
  BY <1>1, PlacesUnchanged DEF AllQueued, SignalExit, Join
<1>3. PoolInv'
  BY DEF PoolInv, ReadersHaveTasks, NotifiersHoldMutexes, DoneAfterExit,
         AllQueued, SignalExit, Join, poolVars
<1>4. NoLostTask' /\ OwnerHoldsNothing' /\ WokenHasResult'
  BY DEF NoLostTask, Idle, OwnerHoldsNothing, WokenHasResult,
         AllQueued, SignalExit, Join, poolVars
<1>5. joined \in 0 .. NumThreads /\ NumThreads \in Nat
  BY PoolAssumption DEF TypeOK
<1>6. JoinedAreDone' /\ joined' \in 0 .. NumThreads
  BY <1>5 DEF JoinedAreDone, Worker, AllQueued, SignalExit, Join, poolVars
<1>7. TypeOK'
  BY <1>6 DEF TypeOK, PoolTypeOK, MainState, AllQueued, SignalExit, Join, poolVars
<1>. QED  BY <1>2, <1>3, <1>4, <1>6, <1>7

LEMMA StutterKeeps ==
  ASSUME IInv, UNCHANGED vars
  PROVE  IInv'
<1>. USE DEF IInv, vars, poolVars, ownerVars
<1>1. \A id : InPool(id)' = InPool(id)
  BY InPoolUnchanged
<1>2. EachTaskOnce' /\ TasksAreNumbered'
  BY <1>1, PlacesUnchanged
<1>3. TypeOK'
  BY DEF TypeOK, PoolTypeOK
<1>4. PoolInv' /\ NoLostTask'
  BY DEF PoolInv, ReadersHaveTasks, NotifiersHoldMutexes, DoneAfterExit, NoLostTask, Idle
<1>5. OwnerHoldsNothing' /\ WokenHasResult' /\ JoinedAreDone'
  BY DEF OwnerHoldsNothing, WokenHasResult, JoinedAreDone
<1>. QED  BY <1>2, <1>3, <1>4, <1>5

----------------------------------------------------------------------------
(* Theorems *)

\* IInv is inductive (thread_pool.cc and thread_pool_test.cc).
THEOREM InvariantHolds == Spec => []IInv
<1>1. Init => IInv
  BY InitIInv
<1>2. IInv /\ [Next]_vars => IInv'
  <2>. SUFFICES ASSUME IInv, [Next]_vars
                PROVE  IInv'
    OBVIOUS
  <2>1. CASE MainStep
    BY <2>1, SubmitKeeps, TakeResultKeeps, WaitForResultKeeps, WakeWorkersKeeps,
       OwnerAloneKeeps DEF MainStep
  <2>2. CASE \E w \in Worker : WorkerStep(w) /\ UNCHANGED ownerVars
    BY <2>2, WorkerKeeps
  <2>3. CASE UNCHANGED vars
    BY <2>3, StutterKeeps
  <2>. QED  BY <2>1, <2>2, <2>3 DEF Next
<1>. QED  BY <1>1, <1>2, PTL DEF Spec

\* Every variable of the pool and of its owner keeps its type; in particular the
\* owner never takes a result from an empty queue.
THEOREM TypeCorrect == Spec => []TypeOK
<1>1. IInv => TypeOK
  BY DEF IInv
<1>. QED  BY <1>1, InvariantHolds, PTL

\* Whatever the number of threads and tasks, a task that was queued is in one
\* place: no two workers take it (dequeue_task), none is dropped between the
\* queues (queue_result), and no result is taken twice (dequeue_result).
THEOREM TaskInOnePlaceHolds == Spec => []TaskInOnePlace
<1>1. IInv => TaskInOnePlace
  <2>. SUFFICES ASSUME IInv, NEW k \in DOMAIN queued
                PROVE  Places(queued[k].first) = 1
    BY DEF TaskInOnePlace
  <2>1. /\ k \in 1 .. Len(queued) /\ Len(queued) \in Nat
        /\ Len(queued) <= NumTasks /\ queued[k].first = k
    BY LenProperties DEF IInv, TypeOK, TasksAreNumbered
  <2>2. k \in Identifier
    BY <2>1, OwnerAssumption DEF Identifier
  <2>. QED  BY <2>1, <2>2 DEF IInv, EachTaskOnce
<1>. QED  BY <1>1, InvariantHolds, PTL

\* While a task is queued and the pool is not asked to exit, a worker is awake:
\* the broadcasts of queue_task are enough, with any number of threads.
THEOREM NoLostTaskHolds == Spec => []NoLostTask
<1>1. IInv => NoLostTask
  BY DEF IInv
<1>. QED  BY <1>1, InvariantHolds, PTL

\* When destroy returns, no thread works and no mutex is held.
THEOREM DestroyedIsQuietHolds == Spec => []DestroyedIsQuiet
<1>1. IInv => DestroyedIsQuiet
  <2>. SUFFICES ASSUME IInv, main_state = "destroyed"
                PROVE  /\ \A w \in Worker :
                            worker_state[w] = "done" /\ worker_task[w] = None
                       /\ result_mutex = None /\ self_pipe_mutex = None
    BY DEF DestroyedIsQuiet
  <2>1. \A w \in Worker : worker_state[w] = "done"
    BY PoolAssumption DEF IInv, JoinedAreDone, Worker
  <2>2. \A w \in Worker : worker_task[w] = None
    BY <2>1 DEF IInv, PoolInv, ReadersHaveTasks
  <2>3. \A w \in Worker : result_mutex # w /\ self_pipe_mutex # w
    BY <2>1 DEF IInv, PoolInv, NotifiersHoldMutexes
  <2>. QED  BY <2>1, <2>2, <2>3 DEF IInv, TypeOK, PoolTypeOK, OwnerHoldsNothing
<1>. QED  BY <1>1, InvariantHolds, PTL
=============================================================================
