------------------------- MODULE AsyncServer_proofs -------------------------
(***************************************************************************)
(* The event driven server, for every number of threads, slots, clients    *)
(* and descriptors, every stream of requests, and whatever ufds[1] holds   *)
(* when the loop starts.                                                   *)
(*                                                                         *)
(* A slot is live from the acceptance of a connection until its task is    *)
(* queued, and again from the collection of the result until the page is   *)
(* sent.  In between the slot's descriptor has a job in the pool, and the  *)
(* result goes to the first slot with this descriptor, which may be        *)
(* another one: slot 1 with its uninitialised ufds[1], or a slot that an   *)
(* earlier detour of this kind has left in PROC.  Such a slot is never     *)
(* live, and this is why every result still finds its connection.          *)
(***************************************************************************)
EXTENDS AsyncServer, ThreadPool_proofs

Live(i) == states[i] \in {"INIT", "RECV", "SEND"}

\* A live slot has an open descriptor of its own, for which the pool does not
\* work.
LiveSlots ==
  /\ \A i, j \in Slot : Live(i) /\ Live(j) /\ ufds[i] = ufds[j] => i = j
  /\ \A i \in Slot : Live(i) => ufds[i] \in Fd
  /\ \A i \in Slot, fd \in Fd :
       Live(i) /\ ufds[i] = fd => fds[fd] # None /\ InPool(fd) = 0
  /\ \A i \in Slot : states[i] = "SEND" => partial_sends[i].fd = ufds[i]

\* A client has at most one connection, in the backlog or under a descriptor, and
\* nothing of it is read before it is accepted.
OneConnection ==
  /\ \A fd, gd \in Fd : fds[fd] # None /\ fds[fd] = fds[gd] => fd = gd
  /\ \A k, l \in DOMAIN backlog : backlog[k] = backlog[l] => k = l
  /\ \A k \in DOMAIN backlog :
       /\ \A fd \in Fd : fds[fd] # backlog[k]
       /\ received[backlog[k]] = 0
  /\ \A c \in Client : client_state[c] = "new" =>
       /\ sent[c] = 0
       /\ \A k \in DOMAIN backlog : backlog[k] # c
       /\ \A fd \in Fd : fds[fd] # c

\* What has been read of a request that is not complete is all in the slot.
PathIsPrefix ==
  \A i \in Slot : states[i] \in {"INIT", "RECV"} =>
    LET c == fds[ufds[i]]
    IN  /\ partial_filepaths[i] = SubSeq(Stream[c], 1, received[c])
        /\ \A n \in 1 .. received[c] : Stream[c][n] # Newline

\* Every task is for the path its client asked for, every result is its page.
RightTasks ==
  /\ \A k \in DOMAIN task_queue :
       task_queue[k].second = Path(fds[task_queue[k].first])
  /\ \A w \in Worker : worker_task[w] # None =>
       worker_task[w].second = Path(fds[worker_task[w].first])
RightResults ==
  \A k \in DOMAIN result_queue :
    result_queue[k].second \in Buffers(Path(fds[result_queue[k].first]))
RightSends ==
  \A i \in Slot : states[i] = "SEND" =>
    partial_sends[i].buffer \in Buffers(Path(fds[ufds[i]]))

\* The turn of the listening socket comes only when a connection waits.
AcceptFinds == 0 \in todo => backlog # <<>>

\* The loop holds a mutex only where it has taken it.
MainHoldsMutexes ==
  /\ result_mutex = Main <=> main_state = "collecting"
  /\ self_pipe_mutex = Main <=> main_state = "writing"

IInv ==
  /\ TypeOK /\ PoolInv /\ NoLostTask /\ ~exit_signal
  /\ AcceptFinds /\ MainHoldsMutexes
  /\ LiveSlots /\ JobHasItsConnection
  /\ OneConnection /\ PathIsPrefix
  /\ RightTasks /\ RightResults /\ RightSends /\ RightPage

----------------------------------------------------------------------------
(* Least elements and paths *)

LEMMA MinIsLeast ==
  ASSUME NEW S \in SUBSET Nat, S # {}
  PROVE  Min(S) \in S /\ \A m \in S : Min(S) <= m
<1>1. PICK n \in S : \A m \in S : ~(<<m, n>> \in OpToRel(<, Nat))
  BY NatLessThanWellFounded, WFMin
<1>2. ASSUME NEW m \in S
      PROVE  n <= m
  <2>. SUFFICES ASSUME m < n
                PROVE  FALSE
    OBVIOUS
  <2>1. <<m, n>> \in {ss \in Nat \X Nat : ss[1] < ss[2]}
    OBVIOUS
  <2>2. <<m, n>> \in OpToRel(<, Nat)
    BY <2>1 DEF OpToRel
  <2>. QED  BY <1>1, <2>2
<1>. QED  BY <1>2 DEF Min

LEMMA SlotIsNat == Slot \in SUBSET Nat /\ MaxConnections \in Nat
BY ServerAssumption DEF Slot

LEMMA StreamIsSeq ==
  ASSUME NEW c \in Client
  PROVE  \E S : Stream[c] \in Seq(S)
BY ServerAssumption

LEMMA StreamLength ==
  ASSUME NEW c \in Client
  PROVE  Len(Stream[c]) \in Nat /\ DOMAIN Stream[c] = 1 .. Len(Stream[c])
BY StreamIsSeq, LenProperties

LEMMA PrefixIsFilepath ==
  ASSUME NEW c \in Client, NEW n \in 0 .. Len(Stream[c])
  PROVE  SubSeq(Stream[c], 1, n) \in Filepath
BY DEF Filepath

\* One recv more, of n pieces after the r that have been read.
IsNextPiece(c, r, n, msg_buf) ==
  /\ DOMAIN msg_buf = 1 .. n
  /\ \A k \in 1 .. n : msg_buf[k] = Stream[c][r + k]
  /\ SubSeq(Stream[c], 1, r) \o msg_buf = SubSeq(Stream[c], 1, r + n)

LEMMA ReadMore ==
  ASSUME NEW c \in Client, NEW r \in Nat, NEW n \in Nat \ {0}, r + n <= Len(Stream[c]),
         NEW msg_buf, msg_buf = SubSeq(Stream[c], r + 1, r + n)
  PROVE  IsNextPiece(c, r, n, msg_buf)
<1>1. PICK S : Stream[c] \in Seq(S)
  BY StreamIsSeq
<1>2. Len(Stream[c]) \in Nat /\ \A k \in 1 .. Len(Stream[c]) : Stream[c][k] \in S
  BY <1>1, LenProperties, ElementOfSeq
<1>3. \A k \in r + 1 .. r + n : Stream[c][k] \in S
  BY <1>2
<1>4. /\ msg_buf \in Seq(S) /\ Len(msg_buf) = n
      /\ \A k \in 1 .. n : msg_buf[k] = Stream[c][r + k]
  <2>1. /\ SubSeq(Stream[c], r + 1, r + n) \in Seq(S)
        /\ Len(SubSeq(Stream[c], r + 1, r + n)) =
             IF r + 1 <= r + n THEN r + n - (r + 1) + 1 ELSE 0
        /\ \A k \in 1 .. r + n - (r + 1) + 1 :
             SubSeq(Stream[c], r + 1, r + n)[k] = Stream[c][r + 1 + k - 1]
    BY <1>3, SubSeqProperties
  <2>2. Len(msg_buf) = n
    BY <2>1
  <2>3. ASSUME NEW k \in 1 .. n
        PROVE  msg_buf[k] = Stream[c][r + k]
    <3>1. k \in 1 .. r + n - (r + 1) + 1 /\ r + 1 + k - 1 = r + k
      OBVIOUS
    <3>. QED  BY <2>1, <3>1
  <2>. QED  BY <2>1, <2>2, <2>3
<1>5. DOMAIN msg_buf = 1 .. n
  BY <1>4, LenProperties
<1>6. SubSeq(Stream[c], 1, r) \o SubSeq(Stream[c], r + 1, r + n)
        = SubSeq(Stream[c], 1, r + n)
  <2>1. 1 \in 1 .. Len(Stream[c]) + 1 /\ r \in 1 - 1 .. Len(Stream[c])
        /\ r + n \in r .. Len(Stream[c])
    BY <1>2
  <2>. QED  BY <1>1, <2>1, ConcatAdjacentSubSeq
<1>. QED  BY <1>4, <1>5, <1>6, Zenon DEF IsNextPiece

LEMMA PiecesJoin ==
  ASSUME NEW c \in Client, NEW r \in Nat, NEW n \in Nat \ {0}, r + n <= Len(Stream[c])
  PROVE  SubSeq(Stream[c], 1, r) \o SubSeq(Stream[c], r + 1, r + n)
           = SubSeq(Stream[c], 1, r + n)
<1>1. PICK piece : piece = SubSeq(Stream[c], r + 1, r + n)
  OBVIOUS
<1>2. IsNextPiece(c, r, n, piece)
  BY <1>1, ReadMore
<1>. QED  BY <1>1, <1>2, Zenon DEF IsNextPiece

\* The recv that brings the first newline completes the path.
CompletesPath(c, r, n, msg_buf, e) ==
  /\ c \in Client /\ r \in Nat /\ n \in Nat \ {0} /\ r + n <= Len(Stream[c])
  /\ msg_buf = SubSeq(Stream[c], r + 1, r + n)
  /\ \A k \in 1 .. r : Stream[c][k] # Newline
  /\ e \in 1 .. n /\ msg_buf[e] = Newline
  /\ \A k \in 1 .. e - 1 : msg_buf[k] # Newline

LEMMA PathComplete ==
  ASSUME NEW c, NEW r, NEW n, NEW msg_buf, NEW e,
         CompletesPath(c, r, n, msg_buf, e)
  PROVE  /\ SubSeq(Stream[c], 1, r) \o SubSeq(msg_buf, 1, e - 1) = Path(c)
         /\ Path(c) \in Filepath
<1>. /\ c \in Client /\ r \in Nat /\ n \in Nat \ {0} /\ r + n <= Len(Stream[c])
     /\ msg_buf = SubSeq(Stream[c], r + 1, r + n)
     /\ \A k \in 1 .. r : Stream[c][k] # Newline
     /\ e \in 1 .. n /\ msg_buf[e] = Newline
     /\ \A k \in 1 .. e - 1 : msg_buf[k] # Newline
  BY DEF CompletesPath
<1>. DEFINE all == {p \in DOMAIN Stream[c] : Stream[c][p] = Newline}
<1>1. /\ DOMAIN msg_buf = 1 .. n
      /\ \A k \in 1 .. n : msg_buf[k] = Stream[c][r + k]
  <2>1. IsNextPiece(c, r, n, msg_buf)
    BY ReadMore
  <2>. QED  BY <2>1, Zenon DEF IsNextPiece
<1>2. Len(Stream[c]) \in Nat /\ DOMAIN Stream[c] = 1 .. Len(Stream[c])
  BY StreamLength
<1>5. r + e \in all
  BY <1>1, <1>2
<1>6. ASSUME NEW p \in all
      PROVE  r + e <= p
  <2>1. p \in 1 .. Len(Stream[c]) /\ Stream[c][p] = Newline /\ p > r
    BY <1>2
  <2>. SUFFICES ASSUME p < r + e
                PROVE  FALSE
    BY <2>1
  <2>2. p - r \in 1 .. n /\ p - r \in 1 .. e - 1 /\ r + (p - r) = p
    BY <2>1
  <2>. QED  BY <1>1, <2>1, <2>2
<1>7. Path(c) = SubSeq(Stream[c], 1, Min(all) - 1)
  BY Zenon DEF Path
<1>8. Path(c) = SubSeq(Stream[c], 1, r + (e - 1))
  <2>1. all \in SUBSET Nat /\ \A p \in all : r + e <= p
    BY <1>2, <1>6
  <2>. HIDE DEF all
  <2>2. Min(all) \in all /\ Min(all) <= r + e
    BY <1>5, <2>1, MinIsLeast
  <2>3. Min(all) = r + e
    <3>1. Min(all) \in Nat /\ Min(all) <= r + e /\ r + e <= Min(all)
      BY <2>1, <2>2
    <3>. QED  BY <3>1
  <2>4. Min(all) - 1 = r + (e - 1)
    BY <2>3
  <2>. QED  BY <1>7, <2>4
<1>9. Path(c) \in Filepath
  BY <1>2, <1>8, PrefixIsFilepath
<1>10. SubSeq(Stream[c], 1, r) \o SubSeq(msg_buf, 1, e - 1) = Path(c)
  <2>1. PICK S : Stream[c] \in Seq(S)
    BY StreamIsSeq
  <2>2. CASE e = 1
    <3>1. SubSeq(msg_buf, 1, e - 1) = <<>>
      BY <2>2, SubSeqEmpty
    <3>2. \A k \in 1 .. r : Stream[c][k] \in S
      BY <1>2, <2>1, ElementOfSeq
    <3>3. SubSeq(Stream[c], 1, r) \in Seq(S)
      BY <3>2, SubSeqProperties
    <3>4. r + (e - 1) = r
      BY <2>2
    <3>. QED  BY <1>8, <3>1, <3>3, <3>4, ConcatEmptySeq
  <2>3. CASE e > 1
    <3>1. SubSeq(msg_buf, 1, e - 1) = SubSeq(Stream[c], r + 1, r + (e - 1))
      <4>1. /\ r + 1 \in 1 .. Len(Stream[c]) /\ r + n \in 1 .. Len(Stream[c])
            /\ 1 \in 1 .. (r + n) - (r + 1) + 1
            /\ e - 1 \in 1 .. (r + n) - (r + 1) + 1
        BY <1>2, <2>3
      <4>2. SubSeq(SubSeq(Stream[c], r + 1, r + n), 1, e - 1)
              = SubSeq(Stream[c], (r + 1) + 1 - 1, (r + 1) + (e - 1) - 1)
        BY <2>1, <4>1, SubSeqOfSubSeq
      <4>3. (r + 1) + 1 - 1 = r + 1 /\ (r + 1) + (e - 1) - 1 = r + (e - 1)
        OBVIOUS
      <4>. QED  BY <4>2, <4>3
    <3>2. e - 1 \in Nat \ {0} /\ r + (e - 1) <= Len(Stream[c])
      BY <1>2, <2>3
    <3>3. SubSeq(Stream[c], 1, r) \o SubSeq(Stream[c], r + 1, r + (e - 1))
            = SubSeq(Stream[c], 1, r + (e - 1))
      BY <3>2, PiecesJoin, Zenon
    <3>. QED  BY <1>8, <3>1, <3>3, Zenon
  <2>4. e = 1 \/ e > 1
    BY <1>2
  <2>. QED  BY <2>2, <2>3, <2>4, Zenon
<1>. QED  BY <1>9, <1>10

----------------------------------------------------------------------------
(* The first state, and what a step keeps that leaves the variables alone *)

LEMMA ResultsAreTyped ==
  \A task \in Task : \A buffer \in Buffers(task.second) :
    [first |-> task.first, second |-> buffer] \in Result
BY DEF Task, Result, Buffer, Buffers

LEMMA InitIInv ==
  ASSUME Init
  PROVE  IInv
<1>1. PoolTypeOK(Task, Result) /\ PoolInv /\ \A id : InPool(id) = 0
  BY PoolInitially DEF Init
<1>2. TypeOK
  <2>1. main_state \in MainState /\ todo \subseteq 0 .. MaxConnections
    BY DEF Init, MainState
  <2>2. states \in [Slot -> SlotState]
    BY DEF Init, SlotState
  <2>3. ufds \in [Slot -> Fd \cup {NoFd}]
    BY ServerAssumption DEF Init
  <2>4. partial_filepaths \in [Slot -> Filepath]
    BY DEF Init, Filepath
  <2>5. partial_sends \in [Slot -> [fd : Fd \cup {NoFd}, buffer : Buffer]]
    BY DEF Init, Buffer
  <2>6. fds \in [Fd -> Client \cup {None}] /\ backlog \in Seq(Client)
    BY EmptySeq DEF Init
  <2>7. client_state \in [Client -> ClientState]
    BY DEF Init, ClientState
  <2>8. /\ sent \in [Client -> Nat] /\ received \in [Client -> Nat]
        /\ \A c \in Client : received[c] <= sent[c] /\ sent[c] <= Len(Stream[c])
    BY StreamLength DEF Init
  <2>9. answer \in [Client -> Buffer \cup {None}]
    BY DEF Init
  <2>. QED  BY <1>1, <2>1, <2>2, <2>3, <2>4, <2>5, <2>6, <2>7, <2>8, <2>9 DEF TypeOK
<1>3. NoLostTask /\ ~exit_signal
  BY DEF Init, PoolInit, NoLostTask
<1>4. AcceptFinds /\ MainHoldsMutexes
  BY ThreadAssumption DEF Init, PoolInit, AcceptFinds, MainHoldsMutexes
<1>5. \A i \in Slot : states[i] = "EMPTY"
  BY DEF Init
<1>6. LiveSlots /\ PathIsPrefix /\ RightSends
  BY <1>5 DEF LiveSlots, Live, PathIsPrefix, RightSends
<1>7. JobHasItsConnection
  BY <1>1 DEF JobHasItsConnection
<1>8. OneConnection
  BY ServerAssumption DEF Init, OneConnection
<1>9. RightTasks /\ RightResults /\ RightPage
  BY DEF Init, PoolInit, RightTasks, RightResults, RightPage
<1>. QED  BY <1>1, <1>2, <1>3, <1>4, <1>6, <1>7, <1>8, <1>9 DEF IInv

LEMMA SlotsUnchanged ==
  ASSUME LiveSlots, JobHasItsConnection, \A id : InPool(id)' = InPool(id),
         UNCHANGED <<states, ufds, fds, partial_sends>>
  PROVE  LiveSlots' /\ JobHasItsConnection'
<1>1. LiveSlots'
  BY DEF LiveSlots, Live
<1>2. JobHasItsConnection'
  BY DEF JobHasItsConnection, SlotsOf
<1>. QED  BY <1>1, <1>2

LEMMA ConnectionsUnchanged ==
  ASSUME OneConnection, UNCHANGED <<fds, backlog, received, clientVars>>
  PROVE  OneConnection'
BY DEF OneConnection, clientVars

LEMMA PathsUnchanged ==
  ASSUME PathIsPrefix, UNCHANGED <<states, ufds, fds, partial_filepaths, received>>
  PROVE  PathIsPrefix'
BY DEF PathIsPrefix

LEMMA TasksUnchanged ==
  ASSUME RightTasks, UNCHANGED <<task_queue, worker_task, fds>>
  PROVE  RightTasks'
BY DEF RightTasks

LEMMA ResultsUnchanged ==
  ASSUME RightResults, UNCHANGED <<result_queue, fds>>
  PROVE  RightResults'
BY DEF RightResults

LEMMA SendsUnchanged ==
  ASSUME RightSends, UNCHANGED <<states, ufds, partial_sends, fds>>
  PROVE  RightSends'
BY DEF RightSends

LEMMA PagesUnchanged ==
  ASSUME RightPage, UNCHANGED answer
  PROVE  RightPage'
BY DEF RightPage

\* What is known of a descriptor without a job.
NoJobs ==
  \A fd \in Fd : InPool(fd) = 0 =>
    /\ \A k \in DOMAIN task_queue : task_queue[k].first # fd
    /\ \A k \in DOMAIN result_queue : result_queue[k].first # fd
    /\ \A w \in Worker : worker_task[w] # None => worker_task[w].first # fd

LEMMA UncountedIsAbsent == TypeOK => NoJobs
<1>. SUFFICES ASSUME TypeOK
              PROVE  NoJobs
  OBVIOUS
<1>1. PoolTypeOK(Task, Result)
  BY DEF TypeOK
<1>. QED  BY <1>1, InPoolPositive DEF NoJobs

\* The descriptor that a step opens or closes has no job.
LEMMA OtherJobsKeep ==
  ASSUME TypeOK, NEW fd \in Fd, InPool(fd) = 0, NEW c,
         fds' = [fds EXCEPT ![fd] = c], RightTasks, RightResults,
         UNCHANGED <<task_queue, worker_task, result_queue>>
  PROVE  RightTasks' /\ RightResults'
<1>1. \A x : x # fd => fds'[x] = fds[x]
  BY DEF TypeOK
<1>2. RightTasks'
  BY <1>1, UncountedIsAbsent DEF NoJobs, RightTasks
<1>3. RightResults'
  BY <1>1, UncountedIsAbsent DEF NoJobs, RightResults
<1>. QED  BY <1>2, <1>3

----------------------------------------------------------------------------
(* Steps that touch no slot and no connection *)

QuietVars == <<task_queue, result_queue, worker_task, states, ufds,
               partial_filepaths, partial_sends, clientVars, netVars>>

LEMMA QuietKeeps ==
  ASSUME IInv, UNCHANGED QuietVars
  PROVE  /\ LiveSlots' /\ JobHasItsConnection'
         /\ OneConnection' /\ PathIsPrefix'
         /\ RightTasks' /\ RightResults' /\ RightSends' /\ RightPage'
<1>. USE DEF IInv, QuietVars, netVars, clientVars
<1>1. LiveSlots' /\ JobHasItsConnection'
  BY InPoolUnchanged, SlotsUnchanged
<1>. QED  BY <1>1, ConnectionsUnchanged, PathsUnchanged, TasksUnchanged,
          ResultsUnchanged, SendsUnchanged, PagesUnchanged

\* Poll, and the turns that come to nothing.
LEMMA IdleTurnKeeps ==
  ASSUME IInv,
         \/ Poll \/ AcceptExits
         \/ \E i \in Slot : ReceiveNothing(i) \/ SendFails(i)
  PROVE  IInv'
<1>. USE DEF IInv
<1>1. UNCHANGED QuietVars /\ UNCHANGED poolVars
  BY DEF QuietVars, netVars, poolVars, Poll, AcceptExits, ReceiveNothing, SendFails
<1>2. todo' \subseteq 0 .. MaxConnections /\ main_state' \in MainState
  <2>1. CASE Poll
    BY <2>1, SlotIsNat DEF Poll, MainState, Slot
  <2>2. CASE ~Poll
    BY <2>2 DEF AcceptExits, ReceiveNothing, SendFails, TypeOK, MainState
  <2>. QED  BY <2>1, <2>2
<1>3. TypeOK'
  BY <1>1, <1>2 DEF TypeOK, PoolTypeOK, QuietVars, poolVars, netVars, clientVars
<1>4. PoolInv' /\ NoLostTask' /\ ~exit_signal'
  BY <1>1 DEF poolVars, PoolInv, ReadersHaveTasks, NotifiersHoldMutexes, DoneAfterExit,
              NoLostTask, Idle
<1>5. AcceptFinds'
  <2>1. CASE Poll
    BY <2>1, SlotIsNat, ServerAssumption DEF AcceptFinds, Poll, Slot, netVars
  <2>2. CASE ~Poll
    BY <2>2 DEF AcceptFinds, AcceptExits, ReceiveNothing, SendFails, netVars
  <2>. QED  BY <2>1, <2>2
<1>6. MainHoldsMutexes'
  BY DEF MainHoldsMutexes, Poll, AcceptExits, ReceiveNothing, SendFails, Turn, poolVars
<1>. QED  BY <1>1, <1>3, <1>4, <1>5, <1>6, QuietKeeps

\* The self-pipe, and the end of the collection.
LEMMA PipeStepKeeps ==
  ASSUME IInv, LockPipe \/ WritePipe \/ ReadPipe \/ StopCollecting
  PROVE  IInv'
<1>. USE DEF IInv
<1>1. UNCHANGED QuietVars
  BY DEF QuietVars, netVars, LockPipe, WritePipe, ReadPipe, StopCollecting
<1>2. self_pipe' \in 0 .. PipeCapacity
  <2>1. self_pipe \in 0 .. PipeCapacity /\ PipeCapacity \in Nat /\ PipeRead \in Nat
    BY PoolAssumption, ServerAssumption DEF TypeOK, PoolTypeOK
  <2>2. CASE ReadPipe
    BY <2>1, <2>2 DEF ReadPipe, ReadSize
  <2>3. CASE ~ReadPipe
    BY <2>1, <2>3 DEF LockPipe, WritePipe, StopCollecting
  <2>. QED  BY <2>2, <2>3
<1>3. /\ todo' \subseteq 0 .. MaxConnections /\ main_state' \in MainState
      /\ self_pipe_mutex' \in Worker \cup {Main, None}
      /\ result_mutex' \in Worker \cup {Main, None}
  BY DEF TypeOK, PoolTypeOK, MainState, LockPipe, WritePipe, ReadPipe, StopCollecting
<1>4. UNCHANGED <<worker_state, exit_signal, main_waits>>
  BY DEF LockPipe, WritePipe, ReadPipe, StopCollecting
<1>5. TypeOK'
  BY <1>1, <1>2, <1>3, <1>4 DEF TypeOK, PoolTypeOK, QuietVars, netVars, clientVars
<1>6. PoolInv'
  <2>1. ReadersHaveTasks' /\ DoneAfterExit'
    BY <1>1, <1>4 DEF PoolInv, ReadersHaveTasks, DoneAfterExit, QuietVars
  <2>2. NotifiersHoldMutexes'
    BY <1>4, ThreadAssumption
    DEF PoolInv, NotifiersHoldMutexes, MainHoldsMutexes,
        LockPipe, WritePipe, ReadPipe, StopCollecting
  <2>. QED  BY <2>1, <2>2 DEF PoolInv
<1>7. NoLostTask' /\ ~exit_signal'
  BY <1>1, <1>4 DEF NoLostTask, Idle, QuietVars
<1>8. AcceptFinds'
  BY DEF AcceptFinds, netVars, LockPipe, WritePipe, ReadPipe, StopCollecting
<1>9. MainHoldsMutexes'
  BY ThreadAssumption
  DEF MainHoldsMutexes, Turn, LockPipe, WritePipe, ReadPipe, StopCollecting
<1>. QED  BY <1>1, <1>5, <1>6, <1>7, <1>8, <1>9, QuietKeeps

\* The loop takes result_queue_mutex, and new connections may be read from.
LEMMA StartCollectingKeeps ==
  ASSUME IInv, StartCollecting
  PROVE  IInv'
<1>. USE DEF IInv, StartCollecting
<1>1. /\ states' \in [Slot -> SlotState]
      /\ \A i \in Slot :
           /\ states'[i] \in {"INIT", "RECV"} <=> states[i] \in {"INIT", "RECV"}
           /\ \A st \in {"EMPTY", "PROC", "SEND"} :
                states'[i] = st <=> states[i] = st
  BY DEF TypeOK, InitToRecv, SlotState
<1>3. \A id : InPool(id)' = InPool(id)
  BY InPoolUnchanged
<1>4. LiveSlots'
  BY <1>1, <1>3 DEF LiveSlots, Live, netVars
<1>5. JobHasItsConnection'
  BY <1>1, <1>3 DEF JobHasItsConnection, SlotsOf, netVars
<1>6. PathIsPrefix' /\ RightSends'
  BY <1>1 DEF PathIsPrefix, RightSends, netVars
<1>7. OneConnection' /\ RightTasks' /\ RightResults' /\ RightPage'
  BY ConnectionsUnchanged, TasksUnchanged, ResultsUnchanged, PagesUnchanged
  DEF netVars
<1>8. TypeOK'
  BY <1>1 DEF TypeOK, PoolTypeOK, MainState, netVars, clientVars
<1>9. PoolInv' /\ NoLostTask' /\ ~exit_signal'
  BY ThreadAssumption
  DEF PoolInv, ReadersHaveTasks, NotifiersHoldMutexes, DoneAfterExit, NoLostTask, Idle
<1>10. AcceptFinds' /\ MainHoldsMutexes'
  BY DEF AcceptFinds, MainHoldsMutexes, netVars
<1>. QED  BY <1>4, <1>5, <1>6, <1>7, <1>8, <1>9, <1>10

----------------------------------------------------------------------------
(* The clients and the workers *)

LEMMA ClientKeeps ==
  ASSUME IInv, NEW c \in Client, ClientStep(c)
  PROVE  IInv'
<1>. USE DEF IInv
<1>1. /\ UNCHANGED <<poolVars, mainVars>> /\ UNCHANGED <<fds, received, answer>>
      /\ client_state' \in [Client -> ClientState]
      /\ \A d \in Client : client_state'[d] = "new" => client_state[d] = "new"
  <2>1. CASE Connect(c)
    BY <2>1 DEF Connect, TypeOK, ClientState
  <2>2. CASE SendPiece(c)
    BY <2>2 DEF SendPiece, netVars, TypeOK
  <2>3. CASE Abort(c)
    <3>1. PICK fault \in Faults[c] : client_state' = [client_state EXCEPT ![c] = fault]
      BY <2>3 DEF Abort
    <3>2. fault \in {"close", "reset"}
      BY <3>1, ServerAssumption
    <3>. QED  BY <2>3, <3>1, <3>2 DEF Abort, netVars, TypeOK, ClientState
  <2>. QED  BY <2>1, <2>2, <2>3 DEF ClientStep
<1>2. ASSUME Connect(c)
      PROVE  TypeOK' /\ OneConnection' /\ AcceptFinds'
  <2>1. /\ backlog \in Seq(Client) /\ backlog' = Append(backlog, c)
        /\ UNCHANGED sent /\ client_state[c] = "new" /\ client_state'[c] # "new"
    BY <1>2 DEF Connect, TypeOK
  <2>2. /\ backlog' \in Seq(Client) /\ backlog' # <<>>
        /\ DOMAIN backlog = 1 .. Len(backlog) /\ Len(backlog) \in Nat
        /\ DOMAIN backlog' = 1 .. Len(backlog) + 1
        /\ \A k \in 1 .. Len(backlog) : backlog'[k] = backlog[k]
        /\ backlog'[Len(backlog) + 1] = c
    BY <2>1, AppendProperties, LenProperties
  <2>3. TypeOK'
    BY <1>1, <2>1, <2>2 DEF TypeOK, PoolTypeOK, poolVars, mainVars
  <2>4. received[c] = 0
    BY <2>1 DEF OneConnection, TypeOK
  <2>5. OneConnection'
    <3>1. \A fd, gd \in Fd : fds'[fd] # None /\ fds'[fd] = fds'[gd] => fd = gd
      BY <1>1 DEF OneConnection
    <3>2. \A k, l \in DOMAIN backlog' : backlog'[k] = backlog'[l] => k = l
      BY <2>1, <2>2 DEF OneConnection
    <3>3. \A k \in DOMAIN backlog' :
            /\ \A fd \in Fd : fds'[fd] # backlog'[k]
            /\ received'[backlog'[k]] = 0
      BY <1>1, <2>1, <2>2, <2>4 DEF OneConnection
    <3>4. \A d \in Client : client_state'[d] = "new" =>
            /\ sent'[d] = 0
            /\ \A k \in DOMAIN backlog' : backlog'[k] # d
            /\ \A fd \in Fd : fds'[fd] # d
      BY <1>1, <2>1, <2>2 DEF OneConnection
    <3>. QED  BY <3>1, <3>2, <3>3, <3>4 DEF OneConnection
  <2>6. AcceptFinds'
    BY <2>2 DEF AcceptFinds
  <2>. QED  BY <2>3, <2>5, <2>6
<1>3. ASSUME ~Connect(c)
      PROVE  TypeOK' /\ OneConnection' /\ AcceptFinds'
  <2>1. UNCHANGED backlog
    BY <1>3 DEF ClientStep, SendPiece, Abort, netVars
  <2>2. /\ sent' \in [Client -> Nat]
        /\ \A d \in Client : received[d] <= sent'[d] /\ sent'[d] <= Len(Stream[d])
        /\ \A d \in Client : client_state[d] = "new" => sent'[d] = sent[d]
    <3>1. CASE SendPiece(c)
      BY <3>1, StreamLength DEF SendPiece, TypeOK
    <3>2. CASE Abort(c)
      BY <3>2 DEF Abort, TypeOK
    <3>. QED  BY <1>3, <3>1, <3>2 DEF ClientStep
  <2>3. TypeOK'
    BY <1>1, <2>1, <2>2 DEF TypeOK, PoolTypeOK, poolVars, mainVars
  <2>4. OneConnection'
    BY <1>1, <2>1, <2>2 DEF OneConnection
  <2>5. AcceptFinds'
    BY <1>1, <2>1 DEF AcceptFinds, mainVars
  <2>. QED  BY <2>3, <2>4, <2>5
<1>4. /\ LiveSlots' /\ JobHasItsConnection' /\ PathIsPrefix'
      /\ RightTasks' /\ RightResults' /\ RightSends' /\ RightPage'
  <2>1. LiveSlots' /\ JobHasItsConnection'
    BY <1>1, InPoolUnchanged, SlotsUnchanged DEF poolVars, mainVars
  <2>. QED  BY <1>1, <2>1, PathsUnchanged, TasksUnchanged, ResultsUnchanged,
            SendsUnchanged, PagesUnchanged DEF poolVars, mainVars
<1>5. PoolInv' /\ NoLostTask' /\ ~exit_signal' /\ MainHoldsMutexes'
  BY <1>1 DEF poolVars, mainVars, PoolInv, ReadersHaveTasks, NotifiersHoldMutexes,
              DoneAfterExit, NoLostTask, Idle, MainHoldsMutexes
<1>6. TypeOK' /\ OneConnection' /\ AcceptFinds'
  BY <1>2, <1>3
<1>. QED  BY <1>4, <1>5, <1>6

\* What a worker moves on stays the right one.
LEMMA WorkerKeepsRight ==
  ASSUME IInv, NEW w \in Worker, WorkerStep(w), UNCHANGED fds
  PROVE  RightTasks' /\ RightResults'
<1>. USE DEF IInv
<1>. PoolTypeOK(Task, Result)
  BY DEF TypeOK
<1>. task_queue \in Seq(Task) /\ result_queue \in Seq(Result)
  BY DEF PoolTypeOK
<1>1. CASE TakeTask(w)
  <2>1. /\ task_queue # <<>> /\ task_queue' = Tail(task_queue)
        /\ worker_task' = [worker_task EXCEPT ![w] = Head(task_queue)]
        /\ UNCHANGED result_queue
    BY <1>1 DEF TakeTask, PopTask
  <2>2. /\ Len(task_queue) \in Nat \ {0}
        /\ DOMAIN task_queue = 1 .. Len(task_queue)
        /\ Head(task_queue) = task_queue[1]
        /\ DOMAIN task_queue' = 1 .. Len(task_queue) - 1
        /\ \A k \in 1 .. Len(task_queue) - 1 : task_queue'[k] = task_queue[k + 1]
    BY <2>1, EmptySeq, LenProperties, HeadTailProperties
  <2>3. RightTasks'
    <3>1. ASSUME NEW k \in DOMAIN task_queue'
          PROVE  task_queue'[k].second = Path(fds[task_queue'[k].first])
      BY <2>2 DEF RightTasks
    <3>2. ASSUME NEW v \in Worker, worker_task'[v] # None
          PROVE  worker_task'[v].second = Path(fds[worker_task'[v].first])
      BY <2>1, <2>2, <3>2 DEF RightTasks, PoolTypeOK
    <3>. QED  BY <3>1, <3>2 DEF RightTasks
  <2>. QED  BY <2>1, <2>3, ResultsUnchanged
<1>2. CASE QueueResult(w)
  <2>1. worker_task[w] \in Task /\ worker_task[w] # None
    BY <1>2 DEF PoolTypeOK, PoolInv, ReadersHaveTasks, QueueResult
  <2>2. PICK buffer \in Buffers(worker_task[w].second) :
          result_queue' = Append(result_queue, [first |-> worker_task[w].first,
                                                second |-> buffer])
    BY <1>2 DEF QueueResult
  <2>. DEFINE result == [first |-> worker_task[w].first, second |-> buffer]
  <2>3. result \in Result
    BY <2>1, ResultsAreTyped
  <2>4. /\ DOMAIN result_queue = 1 .. Len(result_queue) /\ Len(result_queue) \in Nat
        /\ DOMAIN result_queue' = 1 .. Len(result_queue) + 1
        /\ \A k \in 1 .. Len(result_queue) : result_queue'[k] = result_queue[k]
        /\ result_queue'[Len(result_queue) + 1] = result
    BY <2>2, <2>3, AppendProperties, LenProperties
  <2>5. result.second \in Buffers(Path(fds[result.first]))
    BY <2>1, <2>2 DEF RightTasks
  <2>6. RightResults'
    BY <2>4, <2>5 DEF RightResults
  <2>7. RightTasks'
    BY <1>2 DEF RightTasks, QueueResult, PoolTypeOK
  <2>. QED  BY <2>6, <2>7
<1>3. CASE ~TakeTask(w) /\ ~QueueResult(w)
  <2>1. UNCHANGED <<task_queue, worker_task, result_queue>>
    BY <1>3 DEF WorkerStep, WorkerRuns, FindNoTask, LockSelfPipe, NotifySelfPipe,
                CheckExit, WakeSpuriously
  <2>. QED  BY <2>1, TasksUnchanged, ResultsUnchanged
<1>. QED  BY <1>1, <1>2, <1>3

LEMMA WorkerKeeps ==
  ASSUME IInv, NEW w \in Worker, PoolStep(w)
  PROVE  IInv'
<1>. USE DEF IInv
<1>1. WorkerStep(w) /\ UNCHANGED <<mainVars, clientVars, netVars>>
  BY DEF PoolStep
<1>2. /\ PoolTypeOK(Task, Result)' /\ PoolInv'
      /\ \A id : InPool(id)' = InPool(id)
  BY <1>1, WorkerStepKeeps, ResultsAreTyped, TaskAssumption DEF TypeOK
<1>3. TypeOK'
  BY <1>1, <1>2 DEF TypeOK, mainVars, clientVars, netVars
<1>4. NoLostTask'
  BY <1>1, WorkerStepLosesNoTask DEF TypeOK, PoolTypeOK
<1>5. ~exit_signal' /\ MainHoldsMutexes'
  BY <1>1, ThreadAssumption
  DEF MainHoldsMutexes, PoolInv, NotifiersHoldMutexes, mainVars, WorkerStep, WorkerRuns,
      TakeTask, FindNoTask, QueueResult, LockSelfPipe, NotifySelfPipe, CheckExit,
      WakeSpuriously
<1>6. LiveSlots' /\ JobHasItsConnection'
  BY <1>1, <1>2, SlotsUnchanged DEF mainVars, netVars
<1>7. RightTasks' /\ RightResults'
  BY <1>1, WorkerKeepsRight DEF netVars
<1>8. OneConnection' /\ PathIsPrefix' /\ RightSends' /\ RightPage' /\ AcceptFinds'
  BY <1>1, ConnectionsUnchanged, PathsUnchanged, SendsUnchanged, PagesUnchanged
  DEF mainVars, clientVars, netVars, AcceptFinds
<1>. QED  BY <1>2, <1>3, <1>4, <1>5, <1>6, <1>7, <1>8

----------------------------------------------------------------------------
(* Opening and closing a connection *)

LEMMA AcceptKeeps ==
  ASSUME IInv, Accept
  PROVE  IInv'
<1>. USE DEF IInv
<1>. DEFINE k == Min(FreeSlots)
            c == Head(backlog)
<1>1. k \in Slot /\ states[k] = "EMPTY"
  <2>1. FreeSlots \in SUBSET Nat /\ FreeSlots # {}
    BY SlotIsNat DEF FreeSlots, Accept
  <2>2. k \in FreeSlots
    BY <2>1, MinIsLeast
  <2>. QED  BY <2>2, SlotIsNat DEF FreeSlots, Slot
<1>2. PICK fd \in Fd : /\ fds[fd] = None
                       /\ fds' = [fds EXCEPT ![fd] = c]
                       /\ ufds' = [ufds EXCEPT ![k] = fd]
  BY DEF Accept
<1>3. /\ states' = [states EXCEPT ![k] = "INIT"]
      /\ partial_filepaths' = [partial_filepaths EXCEPT ![k] = <<>>]
      /\ backlog' = Tail(backlog)
      /\ todo' = todo \ {0}
      /\ UNCHANGED <<poolVars, main_state, partial_sends, clientVars, received, answer>>
  BY DEF Accept
<1>4. backlog # <<>> /\ backlog \in Seq(Client)
  BY DEF Accept, Turn, AcceptFinds, TypeOK
<1>5. /\ c \in Client /\ c = backlog[1] /\ 1 \in DOMAIN backlog
      /\ backlog' \in Seq(Client)
      /\ \A j \in DOMAIN backlog' :
           j + 1 \in DOMAIN backlog /\ j + 1 # 1 /\ backlog'[j] = backlog[j + 1]
  <2>1. /\ Len(backlog) \in Nat \ {0} /\ DOMAIN backlog = 1 .. Len(backlog)
        /\ Tail(backlog) \in Seq(Client) /\ Len(Tail(backlog)) = Len(backlog) - 1
        /\ DOMAIN Tail(backlog) = 1 .. Len(Tail(backlog))
        /\ \A j \in 1 .. Len(Tail(backlog)) : Tail(backlog)[j] = backlog[j + 1]
    BY <1>4, EmptySeq, LenProperties, HeadTailProperties
  <2>2. Head(backlog) \in Client /\ Head(backlog) = backlog[1]
    BY <1>4, HeadTailProperties
  <2>. QED  BY <1>3, <2>1, <2>2
<1>. HIDE DEF k, c
<1>6. /\ InPool(fd) = 0
      /\ \A i \in Slot : Live(i) => ufds[i] # fd
  <2>1. InPool(fd) \in Nat
    BY InPoolType DEF TypeOK
  <2>. QED  BY <1>2, <2>1 DEF JobHasItsConnection, LiveSlots
<1>7. \A id : InPool(id)' = InPool(id)
  BY <1>3, InPoolUnchanged DEF poolVars
<1>8. /\ states'[k] = "INIT" /\ ufds'[k] = fd /\ partial_filepaths'[k] = <<>>
      /\ fds'[fd] = c
      /\ \A x \in Fd : x # fd => fds'[x] = fds[x]
      /\ \A i \in Slot : i # k => /\ states'[i] = states[i] /\ ufds'[i] = ufds[i]
                                  /\ partial_filepaths'[i] = partial_filepaths[i]
  BY <1>1, <1>2, <1>3 DEF TypeOK
<1>9. c # None
  BY <1>5, ServerAssumption
<1>10. LiveSlots'
  <2>1. \A i \in Slot : Live(i)' <=> i = k \/ Live(i)
    BY <1>1, <1>8 DEF Live
  <2>2. \A i, j \in Slot : Live(i)' /\ Live(j)' /\ ufds'[i] = ufds'[j] => i = j
    BY <1>6, <1>8, <2>1 DEF LiveSlots
  <2>3. \A i \in Slot : Live(i)' => ufds'[i] \in Fd
    BY <1>8, <2>1 DEF LiveSlots
  <2>4. \A i \in Slot, x \in Fd :
          Live(i)' /\ ufds'[i] = x => fds'[x] # None /\ InPool(x)' = 0
    <3>1. TAKE i \in Slot, x \in Fd
    <3>2. CASE i = k
      BY <1>6, <1>7, <1>8, <1>9, <3>2
    <3>3. CASE i # k
      BY <1>6, <1>7, <1>8, <2>1, <3>3 DEF LiveSlots
    <3>. QED  BY <3>2, <3>3
  <2>5. \A i \in Slot : states'[i] = "SEND" => partial_sends'[i].fd = ufds'[i]
    BY <1>1, <1>3, <1>8 DEF LiveSlots
  <2>. QED  BY <2>2, <2>3, <2>4, <2>5 DEF LiveSlots
<1>11. JobHasItsConnection'
  <2>. SUFFICES ASSUME NEW x \in Fd, InPool(x)' > 0
                PROVE  /\ InPool(x)' = 1 /\ fds'[x] # None
                       /\ \E i \in SlotsOf(x)' : states'[i] = "PROC"
    BY DEF JobHasItsConnection
  <2>1. InPool(x) > 0 /\ x # fd
    BY <1>6, <1>7
  <2>2. PICK i \in Slot : ufds[i] = x /\ states[i] = "PROC"
    BY <2>1 DEF JobHasItsConnection, SlotsOf
  <2>3. i # k
    BY <1>1, <2>2
  <2>4. ufds'[i] = x /\ states'[i] = "PROC"
    BY <1>8, <2>2, <2>3
  <2>. QED  BY <1>7, <1>8, <2>1, <2>4 DEF JobHasItsConnection, SlotsOf
<1>12. OneConnection'
  <2>1. \A x, y \in Fd : fds'[x] # None /\ fds'[x] = fds'[y] => x = y
    BY <1>5, <1>8 DEF OneConnection
  <2>2. \A i, j \in DOMAIN backlog' : backlog'[i] = backlog'[j] => i = j
    <3>1. TAKE i, j \in DOMAIN backlog'
    <3>2. backlog'[i] = backlog'[j] => i + 1 = j + 1
      BY <1>5 DEF OneConnection
    <3>3. i \in Nat /\ j \in Nat
      BY <1>5, LenProperties
    <3>. QED  BY <3>2, <3>3
  <2>3. \A j \in DOMAIN backlog' :
          /\ \A x \in Fd : fds'[x] # backlog'[j]
          /\ received'[backlog'[j]] = 0
    BY <1>3, <1>5, <1>8 DEF OneConnection
  <2>4. \A d \in Client : client_state'[d] = "new" =>
          /\ sent'[d] = 0
          /\ \A j \in DOMAIN backlog' : backlog'[j] # d
          /\ \A x \in Fd : fds'[x] # d
    BY <1>3, <1>5, <1>8 DEF OneConnection, clientVars
  <2>. QED  BY <2>1, <2>2, <2>3, <2>4 DEF OneConnection
<1>13. PathIsPrefix'
  <2>. SUFFICES ASSUME NEW i \in Slot, states'[i] \in {"INIT", "RECV"}
                PROVE  /\ partial_filepaths'[i] =
                            SubSeq(Stream[fds'[ufds'[i]]], 1, received'[fds'[ufds'[i]]])
                       /\ \A n \in 1 .. received'[fds'[ufds'[i]]] :
                            Stream[fds'[ufds'[i]]][n] # Newline
    BY DEF PathIsPrefix
  <2>1. CASE i = k
    <3>1. fds'[ufds'[i]] = c /\ received'[c] = 0
      BY <1>3, <1>5, <1>8, <2>1 DEF OneConnection
    <3>2. SubSeq(Stream[c], 1, 0) = <<>>
      BY SubSeqEmpty
    <3>3. partial_filepaths'[i] = <<>> /\ 1 .. 0 = {}
      BY <1>8, <2>1
    <3>. QED  BY <3>1, <3>2, <3>3
  <2>2. CASE i # k
    <3>1. Live(i) /\ states[i] \in {"INIT", "RECV"}
      BY <1>8, <2>2 DEF Live
    <3>2. fds'[ufds'[i]] = fds[ufds[i]] /\ partial_filepaths'[i] = partial_filepaths[i]
      BY <1>6, <1>8, <2>2, <3>1 DEF LiveSlots
    <3>. QED  BY <1>3, <3>1, <3>2 DEF PathIsPrefix
  <2>. QED  BY <2>1, <2>2
<1>14. RightTasks' /\ RightResults'
  BY <1>2, <1>3, <1>6, OtherJobsKeep DEF poolVars
<1>15. RightSends'
  <2>. SUFFICES ASSUME NEW i \in Slot, states'[i] = "SEND"
                PROVE  partial_sends'[i].buffer \in Buffers(Path(fds'[ufds'[i]]))
    BY DEF RightSends
  <2>1. i # k /\ states[i] = "SEND" /\ Live(i)
    BY <1>8 DEF Live
  <2>2. fds'[ufds'[i]] = fds[ufds[i]]
    BY <1>6, <1>8, <2>1 DEF LiveSlots
  <2>. QED  BY <1>3, <2>1, <2>2 DEF RightSends
<1>16. RightPage'
  BY <1>3, PagesUnchanged
<1>17. TypeOK'
  <2>1. states' \in [Slot -> SlotState] /\ ufds' \in [Slot -> Fd \cup {NoFd}]
    BY <1>2, <1>3 DEF TypeOK, SlotState
  <2>2. partial_filepaths' \in [Slot -> Filepath]
    BY <1>3 DEF TypeOK, Filepath
  <2>3. fds' \in [Fd -> Client \cup {None}]
    BY <1>2, <1>5 DEF TypeOK
  <2>4. todo' \subseteq 0 .. MaxConnections
    BY <1>3 DEF TypeOK
  <2>. QED  BY <1>3, <1>5, <2>1, <2>2, <2>3, <2>4
            DEF TypeOK, PoolTypeOK, poolVars, clientVars
<1>18. PoolInv' /\ NoLostTask' /\ ~exit_signal' /\ MainHoldsMutexes' /\ AcceptFinds'
  BY <1>3 DEF poolVars, PoolInv, ReadersHaveTasks, NotifiersHoldMutexes,
              DoneAfterExit, NoLostTask, Idle, MainHoldsMutexes, AcceptFinds
<1>. QED  BY <1>10, <1>11, <1>12, <1>13, <1>14, <1>15, <1>16, <1>17, <1>18

\* A connection is closed that has no job any more: that of the slot whose page
\* has been sent, or of the one whose result says that there is no file.
LEMMA CloseKeeps ==
  ASSUME IInv, NEW i \in Slot, NEW fd \in Fd, NEW page \in Buffer,
         ufds[i] = fd, fds[fd] # None, page \in Buffers(Path(fds[fd])),
         \A j \in Slot : Live(j) /\ ufds[j] = fd => j = i,
         CloseSlot(i, fd, page),
         \A x \in Fd : InPool(x)' = IF x = fd THEN 0 ELSE InPool(x),
         UNCHANGED <<partial_filepaths, partial_sends, clientVars, backlog, received>>
  PROVE  /\ LiveSlots' /\ JobHasItsConnection'
         /\ OneConnection' /\ PathIsPrefix' /\ RightSends' /\ RightPage'
         /\ states' \in [Slot -> SlotState] /\ ufds' \in [Slot -> Fd \cup {NoFd}]
         /\ fds' \in [Fd -> Client \cup {None}]
         /\ answer' \in [Client -> Buffer \cup {None}]
<1>. USE DEF IInv
<1>. PICK c : c = fds[fd]
  OBVIOUS
<1>1. /\ answer' = [answer EXCEPT ![c] = page]
      /\ fds' = [fds EXCEPT ![fd] = None]
      /\ states' = [states EXCEPT ![i] = "EMPTY"]
      /\ ufds' = [ufds EXCEPT ![i] = NoFd]
      /\ c \in Client
  BY DEF CloseSlot, TypeOK
<1>2. /\ states' \in [Slot -> SlotState] /\ ufds' \in [Slot -> Fd \cup {NoFd}]
      /\ fds' \in [Fd -> Client \cup {None}]
      /\ answer' \in [Client -> Buffer \cup {None}]
  BY <1>1 DEF TypeOK, SlotState
<1>3. /\ states'[i] = "EMPTY" /\ ufds'[i] = NoFd /\ fds'[fd] = None
      /\ \A x \in Fd : x # fd => fds'[x] = fds[x]
      /\ \A j \in Slot : j # i => states'[j] = states[j] /\ ufds'[j] = ufds[j]
  BY <1>1 DEF TypeOK
<1>4. \A j \in Slot : Live(j)' => j # i /\ Live(j) /\ ufds'[j] = ufds[j]
                                  /\ ufds[j] \in Fd \ {fd} /\ fds'[ufds[j]] = fds[ufds[j]]
  BY <1>3 DEF Live, LiveSlots
<1>5. LiveSlots'
  <2>1. \A j, k \in Slot : Live(j)' /\ Live(k)' /\ ufds'[j] = ufds'[k] => j = k
    BY <1>4 DEF LiveSlots
  <2>2. \A j \in Slot : Live(j)' => ufds'[j] \in Fd
    BY <1>4
  <2>3. \A j \in Slot, x \in Fd :
          Live(j)' /\ ufds'[j] = x => fds'[x] # None /\ InPool(x)' = 0
    BY <1>4 DEF LiveSlots
  <2>4. \A j \in Slot : states'[j] = "SEND" => partial_sends'[j].fd = ufds'[j]
    BY <1>3 DEF LiveSlots
  <2>. QED  BY <2>1, <2>2, <2>3, <2>4 DEF LiveSlots
<1>6. OneConnection'
  <2>1. \A k \in DOMAIN backlog : backlog[k] # None
    BY ServerAssumption, ElementOfSeq, LenProperties DEF TypeOK
  <2>2. \A x \in Fd : fds'[x] = None \/ fds'[x] = fds[x]
    BY <1>3
  <2>. QED  BY <2>1, <2>2, ServerAssumption DEF OneConnection, clientVars
<1>7. PathIsPrefix'
  <2>. SUFFICES ASSUME NEW j \in Slot, states'[j] \in {"INIT", "RECV"}
                PROVE  /\ partial_filepaths'[j] =
                            SubSeq(Stream[fds'[ufds'[j]]], 1, received'[fds'[ufds'[j]]])
                       /\ \A n \in 1 .. received'[fds'[ufds'[j]]] :
                            Stream[fds'[ufds'[j]]][n] # Newline
    BY DEF PathIsPrefix
  <2>1. Live(j)'
    BY DEF Live
  <2>2. states[j] \in {"INIT", "RECV"} /\ fds'[ufds'[j]] = fds[ufds[j]]
    BY <1>3, <1>4, <2>1
  <2>. QED  BY <2>2 DEF PathIsPrefix
<1>8. RightSends'
  <2>. SUFFICES ASSUME NEW j \in Slot, states'[j] = "SEND"
                PROVE  partial_sends'[j].buffer \in Buffers(Path(fds'[ufds'[j]]))
    BY DEF RightSends
  <2>1. Live(j)'
    BY DEF Live
  <2>2. states[j] = "SEND" /\ fds'[ufds'[j]] = fds[ufds[j]]
    BY <1>3, <1>4, <2>1
  <2>. QED  BY <2>2 DEF RightSends
<1>9. RightPage'
  BY <1>1 DEF RightPage, TypeOK
<1>10. JobHasItsConnection'
  <2>. SUFFICES ASSUME NEW x \in Fd, InPool(x)' > 0
                PROVE  /\ InPool(x)' = 1 /\ fds'[x] # None
                       /\ \E j \in SlotsOf(x)' : states'[j] = "PROC"
    BY DEF JobHasItsConnection
  <2>1. x # fd /\ InPool(x)' = InPool(x)
    OBVIOUS
  <2>2. PICK j \in Slot : ufds[j] = x /\ states[j] = "PROC"
    BY <2>1 DEF JobHasItsConnection, SlotsOf
  <2>3. ufds'[j] = x /\ states'[j] = "PROC"
    BY <1>3, <2>1, <2>2
  <2>. QED  BY <1>3, <2>1, <2>3 DEF JobHasItsConnection, SlotsOf
<1>. QED  BY <1>2, <1>5, <1>6, <1>7, <1>8, <1>9, <1>10

LEMMA SendPageKeeps ==
  ASSUME IInv, NEW i \in Slot, SendPage(i)
  PROVE  IInv'
<1>. USE DEF IInv
<1>. PICK page : page = partial_sends[i].buffer
  OBVIOUS
<1>1. PICK fd \in Fd : fd = ufds[i] /\ fd = partial_sends[i].fd
  BY DEF SendPage, LiveSlots, Live
<1>2. /\ states[i] = "SEND"
      /\ CloseSlot(i, fd, page)
      /\ todo' = todo \ {i}
      /\ UNCHANGED <<poolVars, main_state, partial_filepaths, partial_sends,
                     clientVars, backlog, received>>
  BY <1>1 DEF SendPage
<1>3. /\ fds[fd] # None /\ InPool(fd) = 0
      /\ \A j \in Slot : Live(j) /\ ufds[j] = fd => j = i
  BY <1>1, <1>2 DEF LiveSlots, Live
<1>4. page \in Buffer /\ page \in Buffers(Path(fds[fd]))
  BY <1>1, <1>2 DEF TypeOK, RightSends
<1>5. \A x : InPool(x)' = InPool(x)
  BY <1>2, InPoolUnchanged DEF poolVars
<1>6. /\ LiveSlots' /\ JobHasItsConnection'
      /\ OneConnection' /\ PathIsPrefix' /\ RightSends' /\ RightPage'
      /\ states' \in [Slot -> SlotState] /\ ufds' \in [Slot -> Fd \cup {NoFd}]
      /\ fds' \in [Fd -> Client \cup {None}]
      /\ answer' \in [Client -> Buffer \cup {None}]
  <2>1. \A x \in Fd : InPool(x)' = IF x = fd THEN 0 ELSE InPool(x)
    BY <1>3, <1>5
  <2>. QED  BY <1>1, <1>2, <1>3, <1>4, <2>1, CloseKeeps, ZenonT(60)
<1>7. RightTasks' /\ RightResults'
  BY <1>2, <1>3, OtherJobsKeep DEF poolVars, CloseSlot
<1>8. TypeOK'
  <2>1. todo' \subseteq 0 .. MaxConnections
    BY <1>2 DEF TypeOK
  <2>. QED  BY <1>2, <1>6, <2>1 DEF TypeOK, PoolTypeOK, poolVars, clientVars
<1>9. PoolInv' /\ NoLostTask' /\ ~exit_signal' /\ MainHoldsMutexes' /\ AcceptFinds'
  BY <1>2 DEF poolVars, PoolInv, ReadersHaveTasks, NotifiersHoldMutexes,
              DoneAfterExit, NoLostTask, Idle, MainHoldsMutexes, AcceptFinds
<1>. QED  BY <1>6, <1>7, <1>8, <1>9

----------------------------------------------------------------------------
(* Collecting a result *)

LEMMA CollectKeeps ==
  ASSUME IInv, Collect
  PROVE  IInv'
<1>. USE DEF IInv
<1>. DEFINE result == Head(result_queue)
<1>1. PICK fd, i : fd = result.first /\ i = Min(SlotsOf(fd))
  OBVIOUS
<1>2. /\ result_queue # <<>> /\ result_queue' = Tail(result_queue)
      /\ \/ /\ result.second = NULL
            /\ CloseSlot(i, fd, NULL)
            /\ UNCHANGED partial_sends
         \/ /\ result.second # NULL
            /\ partial_sends' = [partial_sends EXCEPT ![i] =
                 [fd |-> fd, buffer |-> result.second]]
            /\ states' = [states EXCEPT ![i] = "SEND"]
            /\ UNCHANGED <<answer, fds, ufds>>
      /\ UNCHANGED <<task_queue, worker_state, worker_task, result_mutex,
                     self_pipe_mutex, self_pipe, exit_signal, main_waits, main_state,
                     todo, partial_filepaths, clientVars, backlog, received>>
  BY <1>1 DEF Collect, DequeueResult
<1>3. /\ result_queue \in Seq(Result) /\ PoolTypeOK(Task, Result)
  BY DEF TypeOK, PoolTypeOK
<1>4. /\ 1 \in DOMAIN result_queue /\ result = result_queue[1] /\ result \in Result
      /\ result_queue' \in Seq(Result)
      /\ \A k \in DOMAIN result_queue' :
           k + 1 \in DOMAIN result_queue /\ result_queue'[k] = result_queue[k + 1]
  <2>1. /\ Len(result_queue) \in Nat \ {0} /\ DOMAIN result_queue = 1 .. Len(result_queue)
        /\ Tail(result_queue) \in Seq(Result)
        /\ Len(Tail(result_queue)) = Len(result_queue) - 1
        /\ DOMAIN Tail(result_queue) = 1 .. Len(Tail(result_queue))
        /\ \A k \in 1 .. Len(Tail(result_queue)) :
             Tail(result_queue)[k] = result_queue[k + 1]
    BY <1>2, <1>3, EmptySeq, LenProperties, HeadTailProperties
  <2>2. result \in Result /\ result = result_queue[1]
    BY <1>2, <1>3, HeadTailProperties
  <2>. QED  BY <1>2, <2>1, <2>2
<1>. HIDE DEF result
<1>5. /\ fd \in Fd /\ result.second \in Buffer
      /\ result.second \in Buffers(Path(fds[fd]))
  BY <1>1, <1>4 DEF Result, RightResults
<1>6. InPool(fd) = 1 /\ fds[fd] # None /\ SlotsOf(fd) # {}
  <2>1. InPool(fd) > 0
    BY <1>1, <1>3, <1>4, InPoolPositive
  <2>. QED  BY <1>5, <2>1 DEF JobHasItsConnection
<1>7. i \in Slot /\ ufds[i] = fd
  <2>1. SlotsOf(fd) \in SUBSET Nat
    BY SlotIsNat DEF SlotsOf
  <2>2. i \in SlotsOf(fd)
    BY <1>1, <1>6, <2>1, MinIsLeast
  <2>. QED  BY <2>2 DEF SlotsOf
<1>8. \A j \in Slot : Live(j) => ufds[j] # fd
  BY <1>5, <1>6 DEF LiveSlots
<1>9. \A x \in Fd : InPool(x)' = IF x = fd THEN 0 ELSE InPool(x)
  <2>. SUFFICES ASSUME NEW x \in Fd
                PROVE  InPool(x)' = IF x = fd THEN 0 ELSE InPool(x)
    OBVIOUS
  <2>1. /\ InPool(x)' \in Nat
        /\ InPool(x) = IF Head(result_queue).first = x THEN InPool(x)' + 1
                                                       ELSE InPool(x)'
    BY <1>2, <1>3, DequeueResultCounts DEF DequeueResult
  <2>2. fd = Head(result_queue).first
    BY <1>1 DEF result
  <2>. QED  BY <1>6, <2>1, <2>2
<1>10. ASSUME result.second = NULL
       PROVE  /\ LiveSlots' /\ JobHasItsConnection'
              /\ OneConnection' /\ PathIsPrefix' /\ RightSends' /\ RightPage'
              /\ states' \in [Slot -> SlotState] /\ ufds' \in [Slot -> Fd \cup {NoFd}]
              /\ fds' \in [Fd -> Client \cup {None}]
              /\ answer' \in [Client -> Buffer \cup {None}]
              /\ partial_sends' \in [Slot -> [fd : Fd \cup {NoFd}, buffer : Buffer]]
  <2>1. CloseSlot(i, fd, NULL) /\ UNCHANGED partial_sends
    BY <1>2, <1>10
  <2>2. NULL \in Buffer /\ NULL \in Buffers(Path(fds[fd]))
    BY <1>5, <1>10
  <2>3. \A j \in Slot : Live(j) /\ ufds[j] = fd => j = i
    BY <1>8
  <2>4. partial_sends' \in [Slot -> [fd : Fd \cup {NoFd}, buffer : Buffer]]
    BY <2>1 DEF TypeOK
  <2>. QED  BY <1>2, <1>5, <1>6, <1>7, <1>9, <2>1, <2>2, <2>3, <2>4, CloseKeeps
<1>11. ASSUME result.second # NULL
       PROVE  /\ LiveSlots' /\ JobHasItsConnection'
              /\ OneConnection' /\ PathIsPrefix' /\ RightSends' /\ RightPage'
              /\ states' \in [Slot -> SlotState] /\ ufds' \in [Slot -> Fd \cup {NoFd}]
              /\ fds' \in [Fd -> Client \cup {None}]
              /\ answer' \in [Client -> Buffer \cup {None}]
              /\ partial_sends' \in [Slot -> [fd : Fd \cup {NoFd}, buffer : Buffer]]
  <2>1. /\ partial_sends' = [partial_sends EXCEPT ![i] =
             [fd |-> fd, buffer |-> result.second]]
        /\ states' = [states EXCEPT ![i] = "SEND"]
        /\ UNCHANGED <<answer, fds, ufds>>
    BY <1>2, <1>11
  <2>2. /\ states' \in [Slot -> SlotState]
        /\ partial_sends' \in [Slot -> [fd : Fd \cup {NoFd}, buffer : Buffer]]
    BY <1>5, <2>1 DEF TypeOK, SlotState
  <2>3. /\ states'[i] = "SEND"
        /\ partial_sends'[i].fd = fd /\ partial_sends'[i].buffer = result.second
        /\ \A j \in Slot : j # i => /\ states'[j] = states[j]
                                    /\ partial_sends'[j] = partial_sends[j]
    BY <1>7, <2>1 DEF TypeOK
  <2>4. \A j \in Slot : Live(j)' => j = i \/ Live(j)
    BY <2>3 DEF Live
  <2>5. LiveSlots'
    <3>1. \A j, k \in Slot : Live(j)' /\ Live(k)' /\ ufds'[j] = ufds'[k] => j = k
      BY <1>7, <1>8, <2>1, <2>4 DEF LiveSlots
    <3>2. \A j \in Slot : Live(j)' => ufds'[j] \in Fd
      BY <1>5, <1>7, <2>1, <2>4 DEF LiveSlots
    <3>3. \A j \in Slot, x \in Fd :
            Live(j)' /\ ufds'[j] = x => fds'[x] # None /\ InPool(x)' = 0
      <4>1. TAKE j \in Slot, x \in Fd
      <4>2. CASE x = fd
        BY <1>6, <1>9, <2>1, <4>2
      <4>3. CASE x # fd
        <5>1. HAVE Live(j)' /\ ufds'[j] = x
        <5>2. Live(j) /\ ufds[j] = x
          BY <1>7, <2>1, <2>4, <4>3, <5>1
        <5>3. fds[x] # None /\ InPool(x) = 0
          BY <5>2 DEF LiveSlots
        <5>. QED  BY <1>9, <2>1, <4>3, <5>3
      <4>. QED  BY <4>2, <4>3
    <3>4. \A j \in Slot : states'[j] = "SEND" => partial_sends'[j].fd = ufds'[j]
      BY <1>7, <2>1, <2>3 DEF LiveSlots
    <3>. QED  BY <3>1, <3>2, <3>3, <3>4 DEF LiveSlots
  <2>6. JobHasItsConnection'
    <3>. SUFFICES ASSUME NEW x \in Fd, InPool(x)' > 0
                  PROVE  /\ InPool(x)' = 1 /\ fds'[x] # None
                         /\ \E j \in SlotsOf(x)' : states'[j] = "PROC"
      BY DEF JobHasItsConnection
    <3>1. x # fd /\ InPool(x)' = InPool(x)
      BY <1>9
    <3>2. PICK j \in Slot : ufds[j] = x /\ states[j] = "PROC"
      BY <3>1 DEF JobHasItsConnection, SlotsOf
    <3>3. ufds'[j] = x /\ states'[j] = "PROC"
      BY <1>7, <2>1, <2>3, <3>1, <3>2
    <3>. QED  BY <2>1, <3>1, <3>3 DEF JobHasItsConnection, SlotsOf
  <2>7. OneConnection' /\ RightPage'
    BY <1>2, <2>1, ConnectionsUnchanged, PagesUnchanged
  <2>8. PathIsPrefix'
    <3>1. \A j \in Slot : states'[j] \in {"INIT", "RECV"} => states[j] = states'[j]
      BY <2>3
    <3>. QED  BY <1>2, <2>1, <3>1 DEF PathIsPrefix
  <2>9. RightSends'
    BY <1>5, <1>7, <2>1, <2>3 DEF RightSends
  <2>10. ufds' \in [Slot -> Fd \cup {NoFd}] /\ fds' \in [Fd -> Client \cup {None}]
         /\ answer' \in [Client -> Buffer \cup {None}]
    BY <2>1 DEF TypeOK
  <2>. QED  BY <2>2, <2>5, <2>6, <2>7, <2>8, <2>9, <2>10
<1>12. TypeOK'
  BY <1>2, <1>4, <1>10, <1>11 DEF TypeOK, PoolTypeOK, clientVars
<1>13. RightTasks' /\ RightResults'
  <2>1. NoJobs'
    BY <1>12, UncountedIsAbsent, PTL
  <2>2. \A x \in Fd : x # fd => fds'[x] = fds[x]
    BY <1>2 DEF TypeOK, CloseSlot
  <2>3. InPool(fd)' = 0
    BY <1>5, <1>9
  <2>4. PoolTypeOK(Task, Result)'
    BY <1>12 DEF TypeOK
  <2>5. RightTasks'
    <3>1. ASSUME NEW k \in DOMAIN task_queue'
          PROVE  task_queue'[k].second = Path(fds'[task_queue'[k].first])
      <4>1. task_queue'[k].first \in Fd
        <5>1. task_queue \in Seq(Task) /\ k \in 1 .. Len(task_queue)
          BY <1>2, <1>3, LenProperties DEF PoolTypeOK
        <5>2. task_queue[k] \in Task
          BY <5>1, ElementOfSeq
        <5>. QED  BY <1>2, <5>2 DEF Task
      <4>2. task_queue'[k].first # fd
        BY <1>5, <2>1, <2>3 DEF NoJobs
      <4>. QED  BY <1>2, <2>2, <4>1, <4>2 DEF RightTasks
    <3>2. ASSUME NEW w \in Worker, worker_task'[w] # None
          PROVE  worker_task'[w].second = Path(fds'[worker_task'[w].first])
      <4>1. worker_task'[w].first \in Fd
        BY <2>4, <3>2 DEF PoolTypeOK, Task
      <4>2. worker_task'[w].first # fd
        BY <1>5, <2>1, <2>3, <3>2 DEF NoJobs
      <4>. QED  BY <1>2, <2>2, <3>2, <4>1, <4>2 DEF RightTasks
    <3>. QED  BY <3>1, <3>2 DEF RightTasks
  <2>6. RightResults'
    <3>. SUFFICES ASSUME NEW k \in DOMAIN result_queue'
                  PROVE  result_queue'[k].second
                           \in Buffers(Path(fds'[result_queue'[k].first]))
      BY DEF RightResults
    <3>1. result_queue'[k].first \in Fd
      <4>1. k + 1 \in 1 .. Len(result_queue)
        BY <1>3, <1>4, LenProperties
      <4>2. result_queue[k + 1] \in Result
        BY <1>3, <4>1, ElementOfSeq
      <4>. QED  BY <1>4, <4>2 DEF Result
    <3>2. result_queue'[k].first # fd
      BY <1>5, <2>1, <2>3 DEF NoJobs
    <3>. QED  BY <1>4, <2>2, <3>1, <3>2 DEF RightResults
  <2>. QED  BY <2>5, <2>6
<1>14. PoolInv' /\ NoLostTask' /\ ~exit_signal' /\ MainHoldsMutexes' /\ AcceptFinds'
  BY <1>2 DEF PoolInv, ReadersHaveTasks, NotifiersHoldMutexes,
              DoneAfterExit, NoLostTask, Idle, MainHoldsMutexes, AcceptFinds
<1>. QED  BY <1>10, <1>11, <1>12, <1>13, <1>14

----------------------------------------------------------------------------
(* Reading from a connection *)

\* The set of the positions of the newlines in what has been read.
Ends(msg_buf) == {p \in DOMAIN msg_buf : msg_buf[p] = Newline}

\* The slot of no other connection has to do with the client.
LEMMA OtherSlots ==
  ASSUME IInv, NEW i \in Slot, states[i] = "RECV"
  PROVE  /\ ufds[i] \in Fd /\ fds[ufds[i]] \in Client /\ InPool(ufds[i]) = 0
         /\ \A j \in Slot : Live(j) /\ j # i => fds[ufds[j]] # fds[ufds[i]]
         /\ \A k \in DOMAIN backlog : backlog[k] # fds[ufds[i]]
<1>. USE DEF IInv
<1>1. Live(i)
  BY DEF Live
<1>2. PICK fd \in Fd : fd = ufds[i]
  BY <1>1 DEF LiveSlots
<1>3. fds[fd] \in Client /\ InPool(fd) = 0 /\ fds[fd] # None
  BY <1>1, <1>2 DEF LiveSlots, TypeOK
<1>4. ASSUME NEW j \in Slot, Live(j), j # i
      PROVE  fds[ufds[j]] # fds[fd]
  BY <1>1, <1>2, <1>3, <1>4 DEF LiveSlots, OneConnection
<1>5. \A k \in DOMAIN backlog : backlog[k] # fds[fd]
  BY DEF OneConnection
<1>. QED  BY <1>2, <1>3, <1>4, <1>5

LEMMA ReceiveKeeps ==
  ASSUME IInv, NEW i \in Slot, Receive(i)
  PROVE  IInv'
<1>. USE DEF IInv
<1>1. PICK fd, c, r, n :
        /\ fd = ufds[i] /\ c = fds[fd] /\ r = received[c]
        /\ n \in 1 .. sent[c] - r
        /\ received' = [received EXCEPT ![c] = @ + n]
        /\ ExtendPath(i, SubSeq(Stream[c], r + 1, r + n))
  <2>1. PICK n \in 1 .. Available(fds[ufds[i]]) :
          /\ received' = [received EXCEPT ![fds[ufds[i]]] = @ + n]
          /\ ExtendPath(i, SubSeq(Stream[fds[ufds[i]]], received[fds[ufds[i]]] + 1,
                                  received[fds[ufds[i]]] + n))
    BY DEF Receive
  <2>. QED  BY <2>1 DEF Available
<1>2. /\ states[i] = "RECV" /\ todo' = todo \ {i}
      /\ UNCHANGED <<result_queue, worker_task, result_mutex, self_pipe_mutex,
                     self_pipe, exit_signal, main_waits, main_state, ufds,
                     partial_sends, clientVars, fds, backlog, answer>>
  BY DEF Receive
<1>3. PICK msg_buf, path :
        /\ msg_buf = SubSeq(Stream[c], r + 1, r + n)
        /\ path = partial_filepaths[i] \o
             (IF Ends(msg_buf) = {} THEN msg_buf
                                    ELSE SubSeq(msg_buf, 1, Min(Ends(msg_buf)) - 1))
        /\ partial_filepaths' = [partial_filepaths EXCEPT ![i] = path]
        /\ \/ Ends(msg_buf) = {} /\ UNCHANGED <<states, task_queue, worker_state>>
           \/ /\ Ends(msg_buf) # {}
              /\ StopReceiving(i)
              /\ QueueTask([first |-> fd, second |-> path])
  BY <1>1, Zenon DEF ExtendPath, Ends
<1>4. /\ fd \in Fd /\ c \in Client /\ InPool(fd) = 0
      /\ \A j \in Slot : Live(j) /\ j # i => fds[ufds[j]] # c
      /\ \A k \in DOMAIN backlog : backlog[k] # c
  BY <1>1, <1>2, OtherSlots
<1>5. /\ r \in Nat /\ n \in Nat \ {0} /\ r + n <= sent[c] /\ r + n <= Len(Stream[c])
      /\ sent[c] \in Nat
  BY <1>1, <1>4, StreamLength DEF TypeOK
<1>6. /\ received'[c] = r + n /\ r + n # 0
      /\ \A d \in Client : d # c => received'[d] = received[d]
      /\ received' \in [Client -> Nat]
      /\ \A d \in Client : received'[d] <= sent[d]
  BY <1>1, <1>4, <1>5 DEF TypeOK
<1>7. /\ partial_filepaths[i] = SubSeq(Stream[c], 1, r)
      /\ \A k \in 1 .. r : Stream[c][k] # Newline
  BY <1>1, <1>2 DEF PathIsPrefix
<1>8. /\ DOMAIN msg_buf = 1 .. n
      /\ \A k \in 1 .. n : msg_buf[k] = Stream[c][r + k]
      /\ SubSeq(Stream[c], 1, r) \o msg_buf = SubSeq(Stream[c], 1, r + n)
  <2>1. msg_buf = SubSeq(Stream[c], r + 1, r + n) /\ c \in Client
    BY <1>3, <1>4
  <2>2. IsNextPiece(c, r, n, msg_buf)
    BY <1>5, <2>1, ReadMore
  <2>. QED  BY <2>2, Zenon DEF IsNextPiece
<1>9. OneConnection'
  <2>1. \A k \in DOMAIN backlog : backlog[k] \in Client \ {c}
    BY <1>4, ElementOfSeq, LenProperties DEF TypeOK
  <2>2. \A k \in DOMAIN backlog : received'[backlog[k]] = received[backlog[k]]
    BY <1>6, <2>1
  <2>. QED  BY <1>2, <2>2 DEF OneConnection, clientVars
<1>10. RightResults' /\ RightPage'
  BY <1>2, ResultsUnchanged, PagesUnchanged
<1>11. /\ partial_filepaths'[i] = path
       /\ \A j \in Slot : j # i => partial_filepaths'[j] = partial_filepaths[j]
  BY <1>3 DEF TypeOK
<1>12. ASSUME NEW j \in Slot, j # i, states[j] \in {"INIT", "RECV"}
       PROVE  /\ partial_filepaths'[j] =
                   SubSeq(Stream[fds'[ufds'[j]]], 1, received'[fds'[ufds'[j]]])
              /\ \A k \in 1 .. received'[fds'[ufds'[j]]] :
                   Stream[fds'[ufds'[j]]][k] # Newline
  <2>1. Live(j) /\ fds[ufds[j]] # c
    BY <1>4, <1>12 DEF Live
  <2>2. fds[ufds[j]] \in Client
    BY <2>1 DEF LiveSlots, TypeOK
  <2>3. fds'[ufds'[j]] = fds[ufds[j]] /\ received'[fds[ufds[j]]] = received[fds[ufds[j]]]
    BY <1>2, <1>6, <2>1, <2>2
  <2>. QED  BY <1>11, <1>12, <2>3 DEF PathIsPrefix
<1>13. todo' \subseteq 0 .. MaxConnections /\ AcceptFinds' /\ ~exit_signal' /\ MainHoldsMutexes'
  BY <1>2 DEF TypeOK, AcceptFinds, MainHoldsMutexes
<1>14. CASE Ends(msg_buf) = {}
  <2>1. UNCHANGED <<states, task_queue, worker_state>>
    BY <1>3, <1>14
  <2>2. path = SubSeq(Stream[c], 1, r + n)
    BY <1>3, <1>7, <1>8, <1>14
  <2>3. \A k \in 1 .. r + n : Stream[c][k] # Newline
    <3>1. TAKE k \in 1 .. r + n
    <3>2. CASE k <= r
      BY <1>7, <3>2
    <3>3. CASE k > r
      <4>1. k - r \in 1 .. n /\ r + (k - r) = k
        BY <1>5, <3>3
      <4>2. msg_buf[k - r] # Newline
        BY <1>8, <1>14, <4>1 DEF Ends
      <4>. QED  BY <1>8, <4>1, <4>2
    <3>. QED  BY <1>5, <3>2, <3>3
  <2>4. PathIsPrefix'
    <3>1. ASSUME NEW j \in Slot, states'[j] \in {"INIT", "RECV"}
          PROVE  /\ partial_filepaths'[j] =
                      SubSeq(Stream[fds'[ufds'[j]]], 1, received'[fds'[ufds'[j]]])
                 /\ \A k \in 1 .. received'[fds'[ufds'[j]]] :
                      Stream[fds'[ufds'[j]]][k] # Newline
      <4>1. CASE j = i
        <5>1. fds'[ufds'[j]] = c /\ received'[c] = r + n
          BY <1>1, <1>2, <1>6, <4>1
        <5>2. partial_filepaths'[j] = path
          BY <1>11, <4>1
        <5>. QED  BY <2>2, <2>3, <5>1, <5>2
      <4>2. CASE j # i
        BY <1>12, <2>1, <3>1, <4>2
      <4>. QED  BY <4>1, <4>2
    <3>. QED  BY <3>1 DEF PathIsPrefix
  <2>5. path \in Filepath
    BY <1>4, <1>5, <2>2, PrefixIsFilepath, StreamLength
  <2>6. TypeOK'
    <3>1. partial_filepaths' \in [Slot -> Filepath]
      BY <1>3, <2>5 DEF TypeOK
    <3>. QED  BY <1>2, <1>6, <1>13, <2>1, <3>1 DEF TypeOK, PoolTypeOK, clientVars
  <2>7. LiveSlots' /\ JobHasItsConnection' /\ RightTasks' /\ RightSends'
    BY <1>2, <2>1, InPoolUnchanged, SlotsUnchanged, TasksUnchanged, SendsUnchanged
  <2>8. PoolInv' /\ NoLostTask'
    BY <1>2, <2>1 DEF PoolInv, ReadersHaveTasks, NotifiersHoldMutexes,
                      DoneAfterExit, NoLostTask, Idle
  <2>. QED  BY <1>9, <1>10, <1>13, <2>4, <2>6, <2>7, <2>8
<1>15. CASE Ends(msg_buf) # {}
  <2>1. /\ states' = [states EXCEPT ![i] = "PROC"]
        /\ QueueTask([first |-> fd, second |-> path])
        /\ path = partial_filepaths[i] \o SubSeq(msg_buf, 1, Min(Ends(msg_buf)) - 1)
    BY <1>3, <1>15 DEF StopReceiving
  <2>2. path = Path(c) /\ Path(c) \in Filepath
    <3>1. Ends(msg_buf) \in SUBSET Nat
      BY <1>8 DEF Ends
    <3>2. PICK e : e = Min(Ends(msg_buf))
      OBVIOUS
    <3>3. e \in Ends(msg_buf) /\ \A k \in Ends(msg_buf) : e <= k
      BY <1>15, <3>1, <3>2, MinIsLeast
    <3>4. e \in 1 .. n /\ msg_buf[e] = Newline
      BY <1>8, <3>3 DEF Ends
    <3>5. \A k \in 1 .. e - 1 : msg_buf[k] # Newline
      <4>1. TAKE k \in 1 .. e - 1
      <4>2. k \in 1 .. n /\ ~(e <= k)
        BY <1>5, <3>4
      <4>. QED  BY <1>8, <3>3, <4>2 DEF Ends
    <3>6. SubSeq(Stream[c], 1, r) \o SubSeq(msg_buf, 1, e - 1) = Path(c)
          /\ Path(c) \in Filepath
      <4>1. msg_buf = SubSeq(Stream[c], r + 1, r + n) /\ c \in Client
        BY <1>3, <1>4
      <4>2. \A k \in 1 .. r : Stream[c][k] # Newline
        BY <1>7
      <4>3. r \in Nat /\ n \in Nat \ {0} /\ r + n <= Len(Stream[c])
        BY <1>5
      <4>4. CompletesPath(c, r, n, msg_buf, e)
        BY <3>4, <3>5, <4>1, <4>2, <4>3, Zenon DEF CompletesPath
      <4>. QED  BY <4>4, PathComplete, Zenon
    <3>. QED  BY <1>7, <2>1, <3>2, <3>6
  <2>3. PICK task \in Task : task.first = fd /\ task.second = Path(c)
                             /\ task = [first |-> fd, second |-> path]
    BY <1>4, <2>2 DEF Task
  <2>4. task_queue' = Append(task_queue, task) /\ SignalTaskQueue /\ QueueTask(task)
    BY <2>1, <2>3 DEF QueueTask
  <2>5. /\ states'[i] = "PROC"
        /\ \A j \in Slot : j # i => states'[j] = states[j]
        /\ states' \in [Slot -> SlotState]
    BY <2>1 DEF TypeOK, SlotState
  <2>6. PoolTypeOK(Task, Result) /\ task_queue \in Seq(Task)
        /\ worker_state \in [Worker -> WorkerState]
    BY DEF TypeOK, PoolTypeOK
  <2>7. \A x \in Fd : InPool(x)' = IF x = fd THEN 1 ELSE InPool(x)
    <3>1. TAKE x \in Fd
    <3>2. InPool(x)' = IF task.first = x THEN InPool(x) + 1 ELSE InPool(x)
      BY <1>2, <2>4, <2>6, QueueTaskCounts
    <3>. QED  BY <1>4, <2>3, <3>2
  <2>8. TypeOK'
    <3>1. partial_filepaths' \in [Slot -> Filepath]
      BY <1>3, <2>2 DEF TypeOK
    <3>2. task_queue' \in Seq(Task)
      BY <2>4, <2>6, AppendProperties
    <3>3. worker_state' \in [Worker -> WorkerState]
      BY <2>4, <2>6, SignalKeeps
    <3>. QED  BY <1>2, <1>6, <1>13, <2>5, <3>1, <3>2, <3>3 DEF TypeOK, PoolTypeOK, clientVars
  <2>9. PoolInv' /\ NoLostTask'
    BY <1>2, <2>4, <2>6, WakingKeeps, AwakeAfterSignal
  <2>10. \A j \in Slot : Live(j)' => j # i /\ Live(j) /\ ufds[j] \in Fd \ {fd}
    <3>1. TAKE j \in Slot
    <3>2. HAVE Live(j)'
    <3>3. j # i /\ Live(j)
      BY <2>5, <3>2 DEF Live
    <3>4. Live(i)
      BY <1>2 DEF Live
    <3>. QED  BY <1>1, <3>3, <3>4 DEF LiveSlots
  <2>11. LiveSlots'
    <3>1. \A j, k \in Slot : Live(j)' /\ Live(k)' /\ ufds'[j] = ufds'[k] => j = k
      BY <1>2, <2>10 DEF LiveSlots
    <3>2. \A j \in Slot : Live(j)' => ufds'[j] \in Fd
      BY <1>2, <2>10
    <3>3. \A j \in Slot, x \in Fd :
            Live(j)' /\ ufds'[j] = x => fds'[x] # None /\ InPool(x)' = 0
      BY <1>2, <2>7, <2>10 DEF LiveSlots
    <3>4. \A j \in Slot : states'[j] = "SEND" => partial_sends'[j].fd = ufds'[j]
      BY <1>2, <2>5 DEF LiveSlots
    <3>. QED  BY <3>1, <3>2, <3>3, <3>4 DEF LiveSlots
  <2>12. JobHasItsConnection'
    <3>. SUFFICES ASSUME NEW x \in Fd, InPool(x)' > 0
                  PROVE  /\ InPool(x)' = 1 /\ fds'[x] # None
                         /\ \E j \in SlotsOf(x)' : states'[j] = "PROC"
      BY DEF JobHasItsConnection
    <3>1. CASE x = fd
      <4>1. fds'[x] # None
        BY <1>1, <1>2, <1>4, <3>1, ServerAssumption
      <4>. QED  BY <1>1, <1>2, <2>5, <2>7, <3>1, <4>1 DEF SlotsOf
    <3>2. CASE x # fd
      <4>1. InPool(x)' = InPool(x)
        BY <2>7, <3>2
      <4>2. PICK j \in Slot : ufds[j] = x /\ states[j] = "PROC"
        BY <4>1 DEF JobHasItsConnection, SlotsOf
      <4>3. ufds'[j] = x /\ states'[j] = "PROC"
        BY <1>2, <2>5, <4>2
      <4>. QED  BY <1>2, <4>1, <4>3 DEF JobHasItsConnection, SlotsOf
    <3>. QED  BY <3>1, <3>2
  <2>13. PathIsPrefix'
    <3>1. \A j \in Slot : states'[j] \in {"INIT", "RECV"} => j # i /\ states'[j] = states[j]
      BY <2>5
    <3>. QED  BY <1>12, <3>1 DEF PathIsPrefix
  <2>14. RightTasks'
    <3>1. /\ DOMAIN task_queue = 1 .. Len(task_queue) /\ Len(task_queue) \in Nat
          /\ DOMAIN task_queue' = 1 .. Len(task_queue) + 1
          /\ \A k \in 1 .. Len(task_queue) : task_queue'[k] = task_queue[k]
          /\ task_queue'[Len(task_queue) + 1] = task
      BY <2>4, <2>6, AppendProperties, LenProperties
    <3>2. ASSUME NEW k \in DOMAIN task_queue'
          PROVE  task_queue'[k].second = Path(fds'[task_queue'[k].first])
      <4>1. CASE k = Len(task_queue) + 1
        BY <1>1, <1>2, <2>3, <3>1, <4>1
      <4>2. CASE k # Len(task_queue) + 1
        <5>1. k \in DOMAIN task_queue /\ task_queue'[k] = task_queue[k]
          BY <3>1, <4>2
        <5>. QED  BY <1>2, <5>1 DEF RightTasks
      <4>. QED  BY <4>1, <4>2
    <3>3. \A w \in Worker : worker_task'[w] # None =>
            worker_task'[w].second = Path(fds'[worker_task'[w].first])
      BY <1>2 DEF RightTasks
    <3>. QED  BY <3>2, <3>3 DEF RightTasks
  <2>15. RightSends'
    <3>1. \A j \in Slot : states'[j] = "SEND" => states[j] = "SEND"
      BY <2>5
    <3>. QED  BY <1>2, <3>1 DEF RightSends
  <2>. QED  BY <1>9, <1>10, <1>13, <2>8, <2>9, <2>11, <2>12, <2>13, <2>14, <2>15
<1>. QED  BY <1>14, <1>15

----------------------------------------------------------------------------
(* The theorems *)

LEMMA StutterKeeps ==
  ASSUME IInv, UNCHANGED vars
  PROVE  IInv'
<1>. USE DEF IInv
<1>1. UNCHANGED QuietVars /\ UNCHANGED <<poolVars, main_state, todo>>
  BY DEF vars, QuietVars, poolVars, mainVars, clientVars, netVars
<1>2. TypeOK'
  BY <1>1 DEF TypeOK, PoolTypeOK, QuietVars, poolVars, netVars, clientVars
<1>3. PoolInv' /\ NoLostTask' /\ ~exit_signal' /\ MainHoldsMutexes'
  BY <1>1 DEF poolVars, PoolInv, ReadersHaveTasks, NotifiersHoldMutexes, DoneAfterExit,
              NoLostTask, Idle, MainHoldsMutexes
<1>4. AcceptFinds'
  BY <1>1 DEF AcceptFinds, QuietVars, netVars
<1>. QED  BY <1>1, <1>2, <1>3, <1>4, QuietKeeps

LEMMA NextKeeps ==
  ASSUME IInv, [Next]_vars
  PROVE  IInv'
<1>1. CASE MainStep
  <2>1. CASE \/ Poll \/ AcceptExits
             \/ \E i \in Slot : ReceiveNothing(i) \/ SendFails(i)
    BY <2>1, IdleTurnKeeps
  <2>2. CASE LockPipe \/ WritePipe \/ ReadPipe \/ StopCollecting
    BY <2>2, PipeStepKeeps
  <2>3. CASE Accept
    BY <2>3, AcceptKeeps
  <2>4. CASE StartCollecting
    BY <2>4, StartCollectingKeeps
  <2>5. CASE Collect
    BY <2>5, CollectKeeps
  <2>6. CASE \E i \in Slot : Receive(i)
    BY <2>6, ReceiveKeeps
  <2>7. CASE \E i \in Slot : SendPage(i)
    BY <2>7, SendPageKeeps
  <2>. QED  BY <1>1, <2>1, <2>2, <2>3, <2>4, <2>5, <2>6, <2>7 DEF MainStep
<1>2. CASE \E w \in Worker : PoolStep(w)
  BY <1>2, WorkerKeeps
<1>3. CASE \E c \in Client : ClientStep(c)
  BY <1>3, ClientKeeps
<1>4. CASE UNCHANGED vars
  BY <1>4, StutterKeeps
<1>. QED  BY <1>1, <1>2, <1>3, <1>4 DEF Next

\* The inductive invariant holds in every state of the server.
THEOREM InvariantHolds == Spec => []IInv
<1>1. Init => IInv
  BY InitIInv
<1>2. IInv /\ [Next]_vars => IInv'
  BY NextKeeps
<1>. QED  BY <1>1, <1>2, PTL DEF Spec

\* The variables of the server keep their types; in particular it never reads
\* more from a connection than its client has sent.
THEOREM TypeCorrect == Spec => []TypeOK
<1>1. IInv => TypeOK
  BY DEF IInv
<1>. QED  BY <1>1, InvariantHolds, PTL

\* async_serv finds a slot with the descriptor of every result it collects, and
\* this descriptor is still that of the connection which asked for it: no client
\* gets the result of an earlier one with the same descriptor.
THEOREM JobHasItsConnectionHolds == Spec => []JobHasItsConnection
<1>1. IInv => JobHasItsConnection
  BY DEF IInv
<1>. QED  BY <1>1, InvariantHolds, PTL

\* A client gets the page of the path that it has sent, in however many pieces
\* recv returned the path, or what is left in a buffer destroyed too early.
THEOREM RightPageHolds == Spec => []RightPage
<1>1. IInv => RightPage
  BY DEF IInv
<1>. QED  BY <1>1, InvariantHolds, PTL

\* While a task of the server is queued, a worker is awake to take it.
THEOREM ServerLosesNoTask == Spec => []NoLostTask
<1>1. IInv => NoLostTask
  BY DEF IInv
<1>. QED  BY <1>1, InvariantHolds, PTL
=============================================================================
