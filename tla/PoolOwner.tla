------------------------------ MODULE PoolOwner ------------------------------
(***************************************************************************)
(* A thread that uses the pool the way thread_pool_test.cc does: it queues *)
(* tasks, takes as many results and destroys the pool.  NumTasks = 0 is    *)
(* basic_initialization_test, the rest multi_file_test.                    *)
(***************************************************************************)
EXTENDS ThreadPool

CONSTANTS
  NumTasks,     \* how many tasks the owner queues, with identifiers 1, 2, ...
  Path          \* the paths of the test files

VARIABLES
  main_state,   \* where the owner is
  queued,       \* the tasks it has queued, in order
  taken,        \* the results it has taken, in order
  joined        \* how many threads destroy has joined

ownerVars == <<main_state, queued, taken, joined>>
vars == <<poolVars, ownerVars>>

Identifier == 1 .. NumTasks
Task == [first : Identifier, second : Path]
Result == [first : Identifier, second : Path \cup {NULL, Garbage}]

ASSUME OwnerAssumption == NumTasks \in Nat /\ None \notin Task

MainState == {"queueing", "taking", "waiting", "destroying", "signalling",
              "joining", "destroyed"}

TypeOK ==
  /\ PoolTypeOK(Task, Result)
  /\ main_state \in MainState
  /\ queued \in Seq(Task) /\ taken \in Seq(Result)
  /\ joined \in 0 .. NumThreads

Init ==
  /\ PoolInit
  /\ main_state = "queueing"
  /\ queued = <<>> /\ taken = <<>> /\ joined = 0

----------------------------------------------------------------------------
(* Queueing tasks and taking results *)

\* Mutant: one task too many.
SubmitOneMore ==
  /\ main_state = "queueing" /\ Len(queued) <= NumTasks
  /\ \E path \in Path :
       LET task == [first |-> Len(queued) + 1, second |-> path]
       IN  QueueTask(task) /\ queued' = Append(queued, task)
  /\ UNCHANGED <<result_queue, worker_task, result_mutex, self_pipe_mutex,
                 self_pipe, exit_signal, main_waits, main_state, taken, joined>>

Submit ==
  /\ main_state = "queueing" /\ Len(queued) < NumTasks
  /\ \E path \in Path :
       LET task == [first |-> Len(queued) + 1, second |-> path]
       IN  QueueTask(task) /\ queued' = Append(queued, task)
  /\ UNCHANGED <<result_queue, worker_task, result_mutex, self_pipe_mutex,
                 self_pipe, exit_signal, main_waits, main_state, taken, joined>>

AllQueued ==
  /\ main_state = "queueing" /\ Len(queued) = NumTasks
  /\ main_state' = "taking"
  /\ UNCHANGED <<poolVars, queued, taken, joined>>

\* lock_result_mutex, dequeue_result, unlock_result_mutex: has_result, or woken
\* from wait_for_result.
TakeResult ==
  /\ \/ /\ main_state = "taking" /\ Len(taken) < NumTasks
        /\ result_queue # <<>>
     \/ main_state = "waiting" /\ ~main_waits
  /\ result_mutex = None
  /\ DequeueResult
  /\ taken' = Append(taken, Head(result_queue))
  /\ main_state' = "taking"
  /\ UNCHANGED <<task_queue, worker_state, worker_task, result_mutex,
                 self_pipe_mutex, self_pipe, exit_signal, main_waits, queued,
                 joined>>

\* No result: stimulate the threads and wait_for_result, which releases the
\* mutex.
WaitForResult ==
  /\ main_state = "taking" /\ Len(taken) < NumTasks
  /\ result_mutex = None /\ result_queue = <<>>
  /\ SignalTaskQueue
  /\ main_waits' = TRUE
  /\ main_state' = "waiting"
  /\ UNCHANGED <<task_queue, result_queue, worker_task, result_mutex,
                 self_pipe_mutex, self_pipe, exit_signal, queued, taken, joined>>

----------------------------------------------------------------------------
(* destroy *)

SignalExit ==
  /\ main_state = "taking" /\ Len(taken) = NumTasks
  /\ exit_signal' = TRUE
  /\ main_state' = "destroying"
  /\ UNCHANGED <<task_queue, result_queue, worker_state, worker_task,
                 result_mutex, self_pipe_mutex, self_pipe, main_waits, queued,
                 taken, joined>>

\* The broadcast before the join loop and the one after each join.
WakeWorkers ==
  /\ main_state \in {"destroying", "signalling"}
  /\ SignalTaskQueue
  /\ main_state' = IF joined < NumThreads THEN "joining" ELSE "destroyed"
  /\ UNCHANGED <<task_queue, result_queue, worker_task, result_mutex,
                 self_pipe_mutex, self_pipe, exit_signal, main_waits, queued,
                 taken, joined>>

\* Mutant: the threads are detached instead of joined.
JoinNobody ==
  /\ main_state = "joining"
  /\ joined' = joined + 1
  /\ main_state' = "signalling"
  /\ UNCHANGED <<poolVars, queued, taken>>

\* pthread_join of the next thread.
Join ==
  /\ main_state = "joining"
  /\ worker_state[joined + 1] = "done"
  /\ joined' = joined + 1
  /\ main_state' = "signalling"
  /\ UNCHANGED <<poolVars, queued, taken>>

MainStep ==
  Submit \/ AllQueued \/ TakeResult \/ WaitForResult \/ SignalExit
  \/ WakeWorkers \/ Join

Next ==
  \/ MainStep
  \/ \E w \in Worker : WorkerStep(w) /\ UNCHANGED ownerVars

Spec == Init /\ [][Next]_vars

\* Every thread that can run does, sooner or later.  A mutex is taken a bounded
\* number of times, so nobody has to be fair about it; spurious wake-ups need not
\* happen.
FairSpec ==
  /\ Spec
  /\ WF_vars(MainStep)
  /\ \A w \in Worker : WF_vars(WorkerRuns(w) /\ UNCHANGED ownerVars)

----------------------------------------------------------------------------
(* Properties *)

\* How often a task with this identifier is queued, worked on, done or taken.
Places(id) == InPool(id) + Occurrences(taken, id)

\* A task that has been queued is in exactly one place: no two workers take it,
\* none is dropped between the queues, and no result is taken twice.
TaskInOnePlace == \A k \in DOMAIN queued : Places(queued[k].first) = 1

\* The owner is never left waiting for a result: every task it has queued comes
\* back to it.
EveryTaskTaken == <>(Len(taken) = NumTasks)

\* destroy wakes up the waiting threads "to exit", and "to ensure they
\* terminate": it returns.
DestroyReturns == exit_signal ~> main_state = "destroyed"

\* When destroy has returned, nothing of the pool is in use: its mutexes and
\* condition variables can be destroyed.
DestroyedIsQuiet ==
  main_state = "destroyed" =>
    /\ \A w \in Worker : worker_state[w] = "done" /\ worker_task[w] = None
    /\ result_mutex = None /\ self_pipe_mutex = None
=============================================================================
