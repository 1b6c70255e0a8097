----------------------------- MODULE ThreadPool -----------------------------
(***************************************************************************)
(* The thread pool of problemset1/partb (thread_pool.cc): worker threads   *)
(* take tasks from one queue, read a file for each, put the results into   *)
(* another queue and write a byte to the self-pipe.  The thread that owns  *)
(* the pool, here called Main, queues the tasks, takes the results and     *)
(* destroys the pool; what it does when is up to the modules that extend   *)
(* this one.                                                               *)
(*                                                                         *)
(* Nothing blocks while task_queue_mutex or exit_mutex is held, so what is *)
(* done under one of them is a single action and the mutex itself is left  *)
(* out.  A thread that holds result_queue_mutex or self_pipe_mutex can     *)
(* block, so these two are variables.                                      *)
(***************************************************************************)
EXTENDS Integers, Sequences, FiniteSets

CONSTANTS
  NumThreads,      \* the size of the pool
  PipeCapacity,    \* how many bytes the self-pipe holds
  MissingFile,     \* the paths for which there is no file
  Main,            \* the thread that owns the pool
  None,            \* no thread, no task
  NULL,            \* the buffer pointer for a missing file
  Garbage          \* what a buffer holds after its string is destroyed

ASSUME PoolAssumption ==
  NumThreads \in Nat \ {0} /\ PipeCapacity \in Nat \ {0}

Worker == 1 .. NumThreads

ASSUME ThreadAssumption == Main \notin Worker /\ None \notin Worker \cup {Main}

VARIABLES
  task_queue,        \* Seq of [first : identifier, second : path]
  result_queue,      \* Seq of [first : identifier, second : buffer]
  worker_state,      \* [Worker -> WorkerState]
  worker_task,       \* [Worker -> the task it works on or None]
  result_mutex,      \* the thread that holds result_queue_mutex, or None
  self_pipe_mutex,   \* the thread that holds self_pipe_mutex, or None
  self_pipe,         \* the number of bytes in the pipe
  exit_signal,       \* BOOLEAN
  main_waits         \* Main is blocked on result_cond_var

poolVars == <<task_queue, result_queue, worker_state, worker_task, result_mutex,
              self_pipe_mutex, self_pipe, exit_signal, main_waits>>

\* waiting: blocked on task_cond_var; woken: signalled, and about to lock
\* task_queue_mutex again.
WorkerState == {"checking", "waiting", "woken", "reading", "notifying",
                "writing", "leaving", "done"}

PoolTypeOK(Task, Result) ==
  /\ task_queue \in Seq(Task)
  /\ result_queue \in Seq(Result)
  /\ worker_state \in [Worker -> WorkerState]
  /\ worker_task \in [Worker -> Task \cup {None}]
  /\ result_mutex \in Worker \cup {Main, None}
  /\ self_pipe_mutex \in Worker \cup {Main, None}
  /\ self_pipe \in 0 .. PipeCapacity
  /\ exit_signal \in BOOLEAN
  /\ main_waits \in BOOLEAN

PoolInit ==
  /\ task_queue = <<>>
  /\ result_queue = <<>>
  /\ worker_state = [w \in Worker |-> "checking"]
  /\ worker_task = [w \in Worker |-> None]
  /\ result_mutex = None
  /\ self_pipe_mutex = None
  /\ self_pipe = 0
  /\ exit_signal = FALSE
  /\ main_waits = FALSE

----------------------------------------------------------------------------
(* What the owner of the pool calls *)

\* Mutant: the signal wakes nobody.
SignalNobody == UNCHANGED worker_state

\* pthread_cond_broadcast(&task_cond_var), under task_queue_mutex.
SignalTaskQueue ==
  worker_state' = [w \in Worker |-> IF worker_state[w] = "waiting"
                                    THEN "woken" ELSE worker_state[w]]

\* queue_task.
QueueTask(task) ==
  /\ task_queue' = Append(task_queue, task)
  /\ SignalTaskQueue

\* dequeue_result: the caller holds result_queue_mutex and knows of a result.
DequeueResult == result_queue' = Tail(result_queue)

----------------------------------------------------------------------------
(* worker_thread *)

Goes(w, to) == worker_state' = [worker_state EXCEPT ![w] = to]

\* Mutant: the task stays at the front of the queue.
PopNothing == UNCHANGED task_queue

\* dequeue_task.
PopTask == task_queue' = Tail(task_queue)

\* There is a task, at the first look or at the one after a wait.
TakeTask(w) ==
  /\ worker_state[w] \in {"checking", "woken"} /\ task_queue # <<>>
  /\ PopTask
  /\ worker_task' = [worker_task EXCEPT ![w] = Head(task_queue)]
  /\ Goes(w, "reading")
  /\ UNCHANGED <<result_queue, result_mutex, self_pipe_mutex, self_pipe,
                 exit_signal, main_waits>>

\* There is none: wait at the first look, give up at the second one.
FindNoTask(w) ==
  /\ worker_state[w] \in {"checking", "woken"} /\ task_queue = <<>>
  /\ Goes(w, IF worker_state[w] = "checking" THEN "waiting" ELSE "leaving")
  /\ UNCHANGED <<task_queue, worker_task, result_queue, result_mutex,
                 self_pipe_mutex, self_pipe, exit_signal, main_waits>>

\* pthread_cond_wait may return without a signal.
WakeSpuriously(w) ==
  /\ worker_state[w] = "waiting"
  /\ Goes(w, "woken")
  /\ UNCHANGED <<task_queue, worker_task, result_queue, result_mutex,
                 self_pipe_mutex, self_pipe, exit_signal, main_waits>>

\* read_file returns the c_str of a string that is destroyed on return: whoever
\* reads the buffer later may or may not find the file in it.
Buffers(path) == IF path \in MissingFile THEN {NULL} ELSE {path, Garbage}

\* queue_result, up to the call of notify_self_pipe: result_queue_mutex is kept.
QueueResult(w) ==
  /\ worker_state[w] = "reading" /\ result_mutex = None
  /\ result_mutex' = w
  /\ \E buffer \in Buffers(worker_task[w].second) :
       result_queue' = Append(result_queue, [first |-> worker_task[w].first,
                                             second |-> buffer])
  /\ worker_task' = [worker_task EXCEPT ![w] = None]
  /\ main_waits' = FALSE
  /\ Goes(w, "notifying")
  /\ UNCHANGED <<task_queue, self_pipe_mutex, self_pipe, exit_signal>>

\* notify_self_pipe: lock self_pipe_mutex.
LockSelfPipe(w) ==
  /\ worker_state[w] = "notifying" /\ self_pipe_mutex = None
  /\ self_pipe_mutex' = w
  /\ Goes(w, "writing")
  /\ UNCHANGED <<task_queue, worker_task, result_queue, result_mutex, self_pipe,
                 exit_signal, main_waits>>

\* Mutant: queue_result returns without unlocking its mutex.
NotifySelfPipeAndKeep(w) ==
  /\ worker_state[w] = "writing" /\ self_pipe < PipeCapacity
  /\ self_pipe' = self_pipe + 1
  /\ self_pipe_mutex' = None
  /\ Goes(w, "leaving")
  /\ UNCHANGED <<task_queue, worker_task, result_queue, result_mutex, exit_signal,
                 main_waits>>

\* Write a byte, which blocks while the pipe is full; release both mutexes.
NotifySelfPipe(w) ==
  /\ worker_state[w] = "writing" /\ self_pipe < PipeCapacity
  /\ self_pipe' = self_pipe + 1
  /\ self_pipe_mutex' = None
  /\ result_mutex' = None
  /\ Goes(w, "leaving")
  /\ UNCHANGED <<task_queue, worker_task, result_queue, exit_signal, main_waits>>

\* The end of the loop body: look at exit_signal.
CheckExit(w) ==
  /\ worker_state[w] = "leaving"
  /\ Goes(w, IF exit_signal THEN "done" ELSE "checking")
  /\ UNCHANGED <<task_queue, worker_task, result_queue, result_mutex,
                 self_pipe_mutex, self_pipe, exit_signal, main_waits>>

\* What a worker does when it is scheduled.
WorkerRuns(w) ==
  \/ TakeTask(w) \/ FindNoTask(w) \/ QueueResult(w) \/ LockSelfPipe(w)
  \/ NotifySelfPipe(w) \/ CheckExit(w)

WorkerStep(w) == WorkerRuns(w) \/ WakeSpuriously(w)

----------------------------------------------------------------------------
(* Properties of the pool, whoever owns it *)

\* How often a task with this identifier is queued, worked on or done.
Occurrences(queue, id) == Cardinality({k \in DOMAIN queue : queue[k].first = id})
WorkersAt(id) == {w \in Worker : worker_task[w] # None /\ worker_task[w].first = id}
InPool(id) ==
  Occurrences(task_queue, id) + Occurrences(result_queue, id)
  + Cardinality(WorkersAt(id))

Idle(w) == worker_state[w] \in {"waiting", "done"}

\* No wake-up is lost: while a task is queued and the pool is not asked to exit,
\* some worker is awake to take it.
NoLostTask ==
  task_queue # <<>> /\ ~exit_signal => \E w \in Worker : ~Idle(w)
=============================================================================
