----------------------------- MODULE AsyncServer -----------------------------
(***************************************************************************)
(* The event driven web server of problemset1/partb: async_serv owns a     *)
(* thread pool, accepts connections into a table of slots, reads a path up *)
(* to the first newline from each, queues it as a task under the number of *)
(* the connection's file descriptor, and sends the page of the result.     *)
(*                                                                         *)
(* The table starts at index 2, but is searched from index 0; nothing      *)
(* writes ufds[1].fd before that search reads it.                          *)
(***************************************************************************)
EXTENDS ThreadPool, FiniteSetsExt

CONSTANTS
  Client,
  Stream,          \* [Client -> Seq(piece)]: what each client sends
  Newline,         \* the piece that ends a path
  MaxConnections,
  Fd,              \* the descriptors that accept may return
  NoFd,            \* -1
  StaleFd,         \* what ufds[1].fd may hold when async_serv starts
  PipeRead,        \* how many bytes one read takes from the self-pipe
  Faults           \* what each client may do to its connection: "close", "reset"

ASSUME ServerAssumption ==
  /\ MaxConnections \in Nat /\ MaxConnections > 2
  /\ Cardinality(Fd) >= MaxConnections - 2
  /\ NoFd \notin Fd /\ StaleFd \subseteq Fd \cup {NoFd}
  /\ None \notin Client
  /\ \A c \in Client : Stream[c] \in Seq({Stream[c][n] : n \in DOMAIN Stream[c]})
  /\ PipeRead \in Nat \ {0} /\ Faults \in [Client -> SUBSET {"close", "reset"}]

VARIABLES
  main_state,         \* where async_serv is
  todo,               \* the indices of ufds left to handle after this poll
  states,             \* [Slot -> SlotState]
  ufds,               \* [Slot -> the field fd]
  partial_filepaths,  \* [Slot -> Seq(piece)]
  partial_sends,      \* [Slot -> [fd, buffer]]: the rest of the pair is 0
  fds,                \* the process's descriptors: [Fd -> Client or None]
  backlog,            \* the connections accept has not returned yet
  client_state,       \* [Client -> ClientState]
  sent,               \* [Client -> how much of its stream it has sent]
  received,           \* [Client -> how much of that the server has read]
  answer              \* [Client -> the page when the server has closed, or None]

mainVars == <<main_state, todo, states, ufds, partial_filepaths, partial_sends>>
clientVars == <<client_state, sent>>
netVars == <<fds, backlog, received, answer>>
vars == <<poolVars, mainVars, clientVars, netVars>>

Slot == 1 .. MaxConnections - 1
SlotState == {"EMPTY", "INIT", "RECV", "PROC", "SEND"}
ClientState == {"new", "connected", "close", "reset"}
MainState == {"polling", "handling", "notifying", "writing", "collecting", "exited"}

Filepath ==
  {<<>>} \cup UNION {{SubSeq(Stream[c], 1, n) : n \in 0 .. Len(Stream[c])} : c \in Client}
Task == [first : Fd, second : Filepath]

ASSUME TaskAssumption == None \notin Task

Buffer == Filepath \cup {NULL, Garbage}
Result == [first : Fd, second : Buffer]

TypeOK ==
  /\ PoolTypeOK(Task, Result)
  /\ main_state \in MainState /\ todo \subseteq 0 .. MaxConnections
  /\ states \in [Slot -> SlotState] /\ ufds \in [Slot -> Fd \cup {NoFd}]
  /\ partial_filepaths \in [Slot -> Filepath]
  /\ partial_sends \in [Slot -> [fd : Fd \cup {NoFd}, buffer : Buffer]]
  /\ fds \in [Fd -> Client \cup {None}] /\ backlog \in Seq(Client)
  /\ client_state \in [Client -> ClientState]
  /\ sent \in [Client -> Nat] /\ received \in [Client -> Nat]
  /\ \A c \in Client : received[c] <= sent[c] /\ sent[c] <= Len(Stream[c])
  /\ answer \in [Client -> Buffer \cup {None}]

Init ==
  /\ PoolInit
  /\ main_state = "polling" /\ todo = {}
  /\ states = [i \in Slot |-> "EMPTY"]
  /\ \E fd \in StaleFd : ufds = [i \in Slot |-> IF i = 1 THEN fd ELSE NoFd]
  /\ partial_filepaths = [i \in Slot |-> <<>>]
  /\ partial_sends = [i \in Slot |-> [fd |-> NoFd, buffer |-> NULL]]
  /\ fds = [fd \in Fd |-> None] /\ backlog = <<>>
  /\ client_state = [c \in Client |-> "new"]
  /\ sent = [c \in Client |-> 0] /\ received = [c \in Client |-> 0]
  /\ answer = [c \in Client |-> None]

----------------------------------------------------------------------------
(* The clients *)

Gone(c) == client_state[c] \in {"close", "reset"}

Connect(c) ==
  /\ client_state[c] = "new" /\ main_state # "exited"
  /\ client_state' = [client_state EXCEPT ![c] = "connected"]
  /\ backlog' = Append(backlog, c)
  /\ UNCHANGED <<poolVars, mainVars, sent, fds, received, answer>>

SendPiece(c) ==
  /\ client_state[c] = "connected" /\ sent[c] < Len(Stream[c])
  /\ sent' = [sent EXCEPT ![c] = @ + 1]
  /\ UNCHANGED <<poolVars, mainVars, client_state, netVars>>

\* It closes the connection or resets it before there is an answer.
Abort(c) ==
  /\ client_state[c] = "connected" /\ answer[c] = None
  /\ \E fault \in Faults[c] : client_state' = [client_state EXCEPT ![c] = fault]
  /\ UNCHANGED <<poolVars, mainVars, sent, netVars>>

ClientStep(c) == Connect(c) \/ SendPiece(c) \/ Abort(c)

----------------------------------------------------------------------------
(* The event loop.  Between poll and the end of the for loop a slot changes *)
(* its state only at its own turn, except from EMPTY to INIT, which has no  *)
(* handler: so the turns that do anything are known when poll returns.      *)

Available(c) == sent[c] - received[c]

Readable(c) == Available(c) > 0 \/ Gone(c)

Poll ==
  /\ main_state = "polling"
  /\ todo' = (IF backlog # <<>> THEN {0} ELSE {})
             \cup {i \in Slot : states[i] = "RECV" /\ Readable(fds[ufds[i]])}
             \cup {i \in Slot : states[i] = "SEND"}
             \cup (IF self_pipe > 0 THEN {MaxConnections} ELSE {})
  /\ main_state' = "handling"
  /\ UNCHANGED <<poolVars, states, ufds, partial_filepaths, partial_sends,
                 clientVars, netVars>>

\* The next turn of the for loop is that of index i.
Turn(i) == main_state = "handling" /\ i \in todo /\ \A j \in todo : i <= j

FreeSlots == {k \in 2 .. MaxConnections - 1 : states[k] = "EMPTY"}

\* Mutant: the path of the connection that had the slot before is kept.
AcceptKeepsPath ==
  /\ Turn(0) /\ FreeSlots # {}
  /\ LET k == Min(FreeSlots)
     IN  \E fd \in Fd :
           /\ fds[fd] = None
           /\ fds' = [fds EXCEPT ![fd] = Head(backlog)]
           /\ ufds' = [ufds EXCEPT ![k] = fd]
           /\ states' = [states EXCEPT ![k] = "INIT"]
  /\ backlog' = Tail(backlog)
  /\ todo' = todo \ {0}
  /\ UNCHANGED <<poolVars, main_state, partial_filepaths, partial_sends,
                 clientVars, received, answer>>

Accept ==
  /\ Turn(0) /\ FreeSlots # {}
  /\ LET k == Min(FreeSlots)
     IN  /\ \E fd \in Fd :
              /\ fds[fd] = None
              /\ fds' = [fds EXCEPT ![fd] = Head(backlog)]
              /\ ufds' = [ufds EXCEPT ![k] = fd]
         /\ states' = [states EXCEPT ![k] = "INIT"]
         /\ partial_filepaths' = [partial_filepaths EXCEPT ![k] = <<>>]
  /\ backlog' = Tail(backlog)
  /\ todo' = todo \ {0}
  /\ UNCHANGED <<poolVars, main_state, partial_sends, clientVars, received, answer>>

\* "exceed maximum connections": the whole process exits.
AcceptExits ==
  /\ Turn(0) /\ FreeSlots = {}
  /\ main_state' = "exited"
  /\ UNCHANGED <<poolVars, todo, states, ufds, partial_filepaths, partial_sends,
                 clientVars, netVars>>

\* recv fails (-1), or returns 0 at the end of the stream: nothing is done.
ReceiveNothing(i) ==
  /\ Turn(i) /\ i \in Slot /\ states[i] = "RECV"
  /\ LET c == fds[ufds[i]] IN client_state[c] = "reset" \/ Available(c) = 0
  /\ todo' = todo \ {i}
  /\ UNCHANGED <<poolVars, main_state, states, ufds, partial_filepaths,
                 partial_sends, clientVars, netVars>>

\* Mutant: the slot goes on receiving when its task is queued.
StillReceiving(i) == UNCHANGED states

StopReceiving(i) == states' = [states EXCEPT ![i] = "PROC"]

\* Mutant: the loop over msg_buf does not break at the newline.
ExtendPathToTheEnd(i, msg_buf) ==
  LET ends == {p \in DOMAIN msg_buf : msg_buf[p] = Newline}
      path == partial_filepaths[i]
  IN  /\ partial_filepaths' =
           [partial_filepaths EXCEPT ![i] = @ \o SelectSeq(msg_buf, LAMBDA b : b # Newline)]
      /\ \/ ends = {} /\ UNCHANGED <<states, task_queue, worker_state>>
         \/ /\ ends # {}
            /\ StopReceiving(i)
            /\ QueueTask([first |-> ufds[i],
                          second |-> path \o SubSeq(msg_buf, 1, Min(ends) - 1)])

\* What has arrived is added to the path, up to the first newline: a path that is
\* complete is queued, and what follows its newline is dropped.
ExtendPath(i, msg_buf) ==
  LET ends == {p \in DOMAIN msg_buf : msg_buf[p] = Newline}
      path == partial_filepaths[i] \o
        (IF ends = {} THEN msg_buf ELSE SubSeq(msg_buf, 1, Min(ends) - 1))
  IN  /\ partial_filepaths' = [partial_filepaths EXCEPT ![i] = path]
      /\ \/ ends = {} /\ UNCHANGED <<states, task_queue, worker_state>>
         \/ /\ ends # {}
            /\ StopReceiving(i)
            /\ QueueTask([first |-> ufds[i], second |-> path])

\* recv returns any part of the stream that has arrived.
Receive(i) ==
  /\ Turn(i) /\ i \in Slot /\ states[i] = "RECV"
  /\ LET c == fds[ufds[i]]
     IN  /\ client_state[c] # "reset"
         /\ \E numbytes \in 1 .. Available(c) :
              /\ received' = [received EXCEPT ![c] = @ + numbytes]
              /\ ExtendPath(i, SubSeq(Stream[c], received[c] + 1, received[c] + numbytes))
  /\ todo' = todo \ {i}
  /\ UNCHANGED <<result_queue, worker_task, result_mutex, self_pipe_mutex,
                 self_pipe, exit_signal, main_waits, main_state, ufds,
                 partial_sends, clientVars, fds, backlog, answer>>

\* close(fd), and the slot i is free.
CloseSlot(i, fd, page) ==
  /\ answer' = [answer EXCEPT ![fds[fd]] = page]
  /\ fds' = [fds EXCEPT ![fd] = None]
  /\ states' = [states EXCEPT ![i] = "EMPTY"]
  /\ ufds' = [ufds EXCEPT ![i] = NoFd]

\* One send; partial_send.first >= sent_bytes always holds after it, so the
\* connection is closed, however much of the page has been sent.
SendPage(i) ==
  /\ Turn(i) /\ i \in Slot /\ states[i] = "SEND"
  /\ client_state[fds[partial_sends[i].fd]] # "reset"
  /\ CloseSlot(i, partial_sends[i].fd, partial_sends[i].buffer)
  /\ todo' = todo \ {i}
  /\ UNCHANGED <<poolVars, main_state, partial_filepaths, partial_sends,
                 clientVars, backlog, received>>

\* send fails: the loop writes to its own self-pipe, to be woken up again.
SendFails(i) ==
  /\ Turn(i) /\ i \in Slot /\ states[i] = "SEND"
  /\ client_state[fds[partial_sends[i].fd]] = "reset"
  /\ main_state' = "notifying"
  /\ UNCHANGED <<poolVars, todo, states, ufds, partial_filepaths, partial_sends,
                 clientVars, netVars>>

LockPipe ==
  /\ main_state = "notifying" /\ self_pipe_mutex = None
  /\ self_pipe_mutex' = Main
  /\ main_state' = "writing"
  /\ UNCHANGED <<task_queue, result_queue, worker_state, worker_task,
                 result_mutex, self_pipe, exit_signal, main_waits, todo, states,
                 ufds, partial_filepaths, partial_sends, clientVars, netVars>>

WritePipe ==
  /\ main_state = "writing" /\ self_pipe < PipeCapacity
  /\ self_pipe' = self_pipe + 1
  /\ self_pipe_mutex' = None
  /\ todo' = todo \ {Min(todo)}
  /\ main_state' = "handling"
  /\ UNCHANGED <<task_queue, result_queue, worker_state, worker_task,
                 result_mutex, exit_signal, main_waits, states, ufds,
                 partial_filepaths, partial_sends, clientVars, netVars>>

ReadSize == IF self_pipe < PipeRead THEN self_pipe ELSE PipeRead

ReadPipe ==
  /\ Turn(MaxConnections) /\ self_pipe_mutex = None
  /\ self_pipe' = self_pipe - ReadSize
  /\ todo' = todo \ {MaxConnections}
  /\ UNCHANGED <<task_queue, result_queue, worker_state, worker_task, result_mutex,
                 self_pipe_mutex, exit_signal, main_waits, main_state, states, ufds,
                 partial_filepaths, partial_sends, clientVars, netVars>>

----------------------------------------------------------------------------
(* Collecting the results *)

\* Mutant: a new connection never gets to RECV.
KeepInit == states

InitToRecv == [i \in Slot |-> IF states[i] = "INIT" THEN "RECV" ELSE states[i]]

StartCollecting ==
  /\ main_state = "handling" /\ todo = {} /\ result_mutex = None
  /\ states' = InitToRecv
  /\ result_mutex' = Main
  /\ main_state' = "collecting"
  /\ UNCHANGED <<task_queue, result_queue, worker_state, worker_task,
                 self_pipe_mutex, self_pipe, exit_signal, main_waits, todo, ufds,
                 partial_filepaths, partial_sends, clientVars, netVars>>

SlotsOf(fd) == {y \in Slot : ufds[y] = fd}

\* The result is that of the first slot with its descriptor.  There is one: the
\* code asserts it, JobHasItsConnection says so.  The other assertion, that the
\* descriptor is positive, is about numbers that the process never gets from
\* accept: 0 is taken as long as it is not closed.
Collect ==
  /\ main_state = "collecting" /\ result_queue # <<>>
  /\ DequeueResult
  /\ LET result == Head(result_queue)
         state_index == Min(SlotsOf(result.first))
     IN  \/ /\ result.second = NULL
            /\ CloseSlot(state_index, result.first, NULL)
            /\ UNCHANGED partial_sends
         \/ /\ result.second # NULL
            /\ partial_sends' = [partial_sends EXCEPT ![state_index] =
                 [fd |-> result.first, buffer |-> result.second]]
            /\ states' = [states EXCEPT ![state_index] = "SEND"]
            /\ UNCHANGED <<answer, fds, ufds>>
  /\ UNCHANGED <<task_queue, worker_state, worker_task, result_mutex,
                 self_pipe_mutex, self_pipe, exit_signal, main_waits, main_state,
                 todo, partial_filepaths, clientVars, backlog, received>>

StopCollecting ==
  /\ main_state = "collecting" /\ result_queue = <<>>
  /\ result_mutex' = None
  /\ main_state' = "polling"
  /\ UNCHANGED <<task_queue, result_queue, worker_state, worker_task,
                 self_pipe_mutex, self_pipe, exit_signal, main_waits, todo, states,
                 ufds, partial_filepaths, partial_sends, clientVars, netVars>>

MainStep ==
  \/ Poll \/ Accept \/ AcceptExits \/ LockPipe \/ WritePipe \/ ReadPipe
  \/ StartCollecting \/ Collect \/ StopCollecting
  \/ \E i \in Slot : ReceiveNothing(i) \/ Receive(i) \/ SendPage(i) \/ SendFails(i)

\* exit ends the workers with the process.
PoolStep(w) ==
  /\ main_state # "exited"
  /\ WorkerStep(w)
  /\ UNCHANGED <<mainVars, clientVars, netVars>>

Next ==
  \/ MainStep
  \/ \E w \in Worker : PoolStep(w)
  \/ \E c \in Client : ClientStep(c)

Spec == Init /\ [][Next]_vars

\* Threads run.  The loop takes result_queue_mutex in every round, but a worker
\* that waits for it is let in while the loop sleeps in poll.
FairSpec ==
  /\ Spec
  /\ WF_vars(MainStep)
  /\ \A w \in Worker :
       SF_vars(main_state # "exited" /\ WorkerRuns(w)
               /\ UNCHANGED <<mainVars, clientVars, netVars>>)

----------------------------------------------------------------------------
(* Properties *)

\* While the pool works for a descriptor, the descriptor is open, it is that of
\* a slot which waits for the result, and nothing else is under way for it: so a
\* number that the system hands out again never gets the result of the
\* connection that had it before, and the assertion that the slot is found
\* holds.
JobHasItsConnection ==
  \A fd \in Fd :
    InPool(fd) > 0 =>
      /\ InPool(fd) = 1
      /\ fds[fd] # None
      /\ \E i \in SlotsOf(fd) : states[i] = "PROC"

Path(c) ==
  SubSeq(Stream[c], 1, Min({p \in DOMAIN Stream[c] : Stream[c][p] = Newline}) - 1)

\* A client gets the page it asked for, whoever had its slot and its descriptor
\* before and in whatever pieces its request arrived; or what is left in the
\* buffer, which is destroyed too early.
RightPage ==
  \A c \in Client : answer[c] # None => answer[c] \in Buffers(Path(c))

Complete(c) ==
  /\ client_state[c] = "connected"
  /\ \E p \in 1 .. sent[c] : Stream[c][p] = Newline

\* Whoever has sent its request and waits gets an answer, or a closed connection
\* for a missing file, unless the clients are too many and the server exits, and
\* as long as fewer of them reset than bytes are read in a round (else the loop
\* may block on its own pipe: NonBlocking).
Served ==
  \A c \in Client :
    Complete(c) ~> answer[c] # None \/ Gone(c) \/ main_state = "exited"

\* async_serv is "serving web pages in non-blocking mode" (server.cc:117): the
\* loop comes back to poll again and again.  It need not: the loop is the only
\* reader of the pipe that it writes to when a send fails, and that write blocks.
NonBlocking == []<>(main_state \in {"polling", "exited"})
=============================================================================
