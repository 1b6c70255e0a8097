# A verification of CSE550 in TLA+

The repository holds the course work of CSE 550: a lock service replicated
with Paxos (`problemset2`), a shell and an event driven web server
(`problemset1`), a citation-graph job for Spark (`problemset3`) and trace
analysis scripts (`project`). This directory models the parts of it that are
concurrent or distributed, checks the models with TLC on small instances, and
proves the most important properties with TLAPS for all instances.

## 1. Inventory

| Component | Source | State | Operations | Status |
|---|---|---|---|---|
| Messages and routing | `problemset2/src/message.py`, `server.py:129-222` | TCP connections, one proposer and one acceptor `Queue` per server | route by type, drop, duplicate | `Network` |
| Acceptor | `server.py:689-858` | `accept_history`, `msg_history` | PREPARE, ACCEPT, duplicates | `Acceptor` |
| Proposer, learner, lock set | `server.py:260-684` | `state`, `proposer_num`, `instance`, `learnt_*`, `instance_resolutions`, `lock_set` | client command, PREPARE, ACCEPT, timeouts, execution | `Proposer` |
| Listener, start-up, shutdown | `server.py:87-258`, `305-353`, `696-729`, EXIT branches | processes, connection lists | accept, connect, break, EXIT | `ServerFailures`, `Sessions`, in part |
| Client | `problemset2/src/client.py` | connection, position in its command file | send a command, wait for its CLIENT_ACK, give up | `Sessions`; in the group the client is the constant `Script` |
| Log checker | `problemset2/src/lock_file.py` | - | validate server logs, alone and against the clients' files | `LogChecker`; generators not modelled |
| Tests of problemset2 | `*_test.py`, `loopback_server.py` | - | - | read as claims about the server |
| Thread pool | `problemset1/partb/thread_pool.cc` | two queues, four mutexes, two condition variables, exit flag | queue a task, work, collect, destroy | `ThreadPool`, `PoolOwner` |
| Event loop | `problemset1/partb/server.cc`, `client.cc` | `ufds`, `states`, partial paths and sends, self-pipe | accept, receive, queue, collect, send | `AsyncServer` |
| Shell | `problemset1/parta` | pipes, children | parse a line, fork and pipe, wait | `Shell` |
| Lowest common ancestor | `problemset3/src` | RDDs | BFS from the seeds, join, reduce | `Lca`, `LcaImproved` |
| Trace analysis | `project/src` | counters over CSV files | parse, accumulate | not modelled |

How the parts of the lock service interact. A client connects to one server and
sends one command at a time. The proposer process of that server drives the
command through Paxos instances: it sends PREPARE and ACCEPT to the acceptor
processes of the *other* servers over TCP. A `connection_process` per
connection reads a message, perhaps drops or duplicates it, and puts it into
the queue of the destination's proposer or acceptor. Acceptors answer to the
proposer's server the same way. Each proposer learns an instance by driving it
itself; there is no learner message, so every server that wants to issue a
command first walks through all the instances decided before. `lock_set` is each
proposer's private copy of the lock state.

How the parts of the web server interact. One thread runs `async_serv`: it polls
the sockets and the read end of the self-pipe, and queues a task for each
complete request. Four workers wait on a condition variable for tasks, read a
file, queue a result and write a byte to the self-pipe. The loop takes the
results under `result_queue_mutex` and finds the slot of each by the number of
its descriptor. There the hard parts are the wake-ups of condition variables,
slots and descriptors that are used again while jobs are under way, a pipe that
both sides can find full, and clients that leave at any moment.

The shell forks a child for each command of a line, all of which inherit every
end of every pipe and close what they do not use; the hard part is that one end
too many keeps a reader waiting for ever, and one wait too few leaves a child to
the next line. The citation job is a loop of joins over the graph; its improved
version forgets all rows but those of the last round, and must not lose a path.

What is hard in the lock service:

* interleavings of N proposers and N acceptors, with queues filled by other
  processes;
* the one second timeout against late answers, and answers of earlier rounds,
  which PROPOSING counts whatever their proposal number;
* loss and duplication, deliberate (`drop_rate`, `dup_rate`) and by failures;
* the protocol is not textbook Paxos: an acceptor answers the first PREPARE of
  an instance usefully, and every later one of an instance without an accepted
  value with a message that makes the asking proposer give up its round;
* assertions in the proposer's main loop, which end the process;
* a waiting client's LOCK competes for the instance in which the lock could be
  released;
* connections are opened once, at the start, and a send that fails removes one
  from the list that is being gone through, or ends an acceptor;
* sessions with clients end by an end of file, half a second of silence, or an
  EXIT that several states of the proposer drop.

What makes each component correct: the acceptor never changes a value it has
accepted; the proposers agree on every instance, acknowledge only what a
majority has accepted, and execute a legal sequence of commands; two clients
never hold one lock; an answered request is answered once; and a request is
eventually answered. The full list of hazards, each at its line with the
properties aimed at it, is in `PROJECT.json`.

## 2. The lock service: modules

| Module | Models |
|---|---|
| `Network` | messages of `message.py`, the path from `sendall` to `Queue.get`, loss and duplication |
| `Acceptor` EXTENDS `Network` | `initialize_acceptor`, one action per branch |
| `Proposer` EXTENDS `Network` | `initialize_proposer`, one action per branch of its state machine |
| `PaxosGroup` EXTENDS both | N servers, the specification, fairness, the properties |
| `LockLog` | the abstract specification: one log of legal lock commands |
| `LogChecker` EXTENDS `PaxosGroup` | the two checks of `lock_file.py`, on the logs the proposers write |
| `PaxosInvariants` EXTENDS `PaxosGroup` | why the group agrees and why a CLIENT_ACK is true: `IInv`, `AckInv` |
| `LockInvariants` EXTENDS `PaxosInvariants` | why the replicas of the lock set agree: `LogInv`, `LegalInv` |
| `LockLog_proofs` | the theorems about the group, its log and the log files |
| `MCPaxosGroup` | small instances: who asks what at which server |
| `ServerFailures`, `ServerFailures_proofs` | connections, late, failed and lost servers, for one proposer without competition |
| `Sessions`, `MCSessions`, `Sessions_proofs` | the clients, their connections, and EXIT |

State. The variables have the names of the code's variables, as functions of
the server. Differences: `learnt` is the pair (`learnt_command`,
`learnt_client`); `pre_nacks` is a set of messages, because the code only uses
its maximum and whether it is empty; a message is its own signature, so
`msg_history` is a set of messages; `client_acks` is what the code sends to the
client socket; `"DEAD"` is the state of a proposer that an uncaught assertion
has ended.

Actions. The code between two blocking calls (`Queue.get`, `recv`) runs without
looking at anything another process writes, so it is one action. Sending is the
last thing READY and ACCEPT do before the next `get`. The actions of the
proposer are one per way through the body of its two receive loops:
`ProposingTimesOut`, `ProposingRejects` (the assertion inside the `try`),
`ProposingSkips` (duplicates, other instances, other types), `ProposingCounts`,
`ProposingLearns` (the response that completes the majority, with what follows:
learning from the NACKs and the check for a held lock); and the same for
ACCEPTING, where `AcceptingResolves` is the whole of lines 628-666: count, raise
the number, acknowledge, record, execute, move on.

Abstractions, all of them but `Prompt` supersets of what the code does:

* The three stages of a message (TCP, `connection_process`, `Queue`) are one
  unordered set per destination. Messages of one connection cannot overtake
  each other in the code, so the model has more interleavings.
* A duplicated message stays in the set when it is taken. The code delivers it
  twice, the model any number of times.
* `Dropping` and `Duplicating` are the servers whose `drop_rate` and `dup_rate`
  are positive: a message taken by such a server may be lost, or stay. An
  assertion that ends a proposer is `"DEAD"`.
* There is no action of a process being killed, since `Spec` states no fairness: a
  process that takes no more steps is one that has been killed. If it is killed
  inside a step, the messages it has not sent are messages that are never taken, and
  what it had not yet assigned is read by nobody else. Under `Prompt` this holds
  for a proposer only, as an acceptor that answers no more keeps the rounds of the
  others from timing out. So a failure of a whole server is in `contend` (`Prompt`
  FALSE) and in the theorems, which hold for both values of `Prompt`, but not in
  `handover`. A group of five with competing proposers, in which such a failure
  leaves a majority, is out of TLC's reach.
* `Prompt = TRUE` assumes that no answer is later than the one second timeout:
  a round times out only when nothing sent by or to that proposer is under way.
  `Prompt = FALSE` lets a round time out at any moment.
* The clients of a server are the sequence of requests `Script[s]`; the server
  serves one connection, and on it one command, at a time.
* `max(pre_nacks)` orders NACKs of one number by their addresses; the model
  takes any of them.

Bounds. `MaxInstance` and `MaxProposal` are guards of `SendPrepare` only: a
proposer that has reached one of them stays in READY. Everything up to there is
explored.

`LogChecker` defines the log of a server as what `logfile.write` has written and
runs `validate_lock_file` and `validate_client_file` on it as operators; an
assertion of the checker that would fail makes the operator FALSE. The files are
sequences of records, and the lines of a client's file are its `Script`.

`ServerFailures` is a second, coarser model of the same two processes. It keeps
what `PaxosGroup` leaves out: the list of connections and its order, sends that
raise, the acceptor's `remove` on a dictionary, servers that are not there when
the proposer connects. The list is a set: it is filled in the order of the
servers' numbers and only ever shortened, so `Precedes`, the number before, is
the place before in the list. It leaves out what matters only with competition:
proposal numbers, values, the duplicate history (nothing is duplicated). Answers
of one kind are alike, so `proposer_queue` counts them, from `MaxAlike` on
without telling how many more there are. `Asking` are acceptors that hold a
request of a failed server (so there are none where no server fails): their answer
ends them. A round times out when
nothing is under way, as under `Prompt`.

`Sessions` looks at the proposer from its clients: what Paxos makes of a command
is the step `Resolve`, which never comes for the clients in `Hopeless` (a lock
nobody releases). `slow` says that an answer may take longer than the 30 seconds
of the client's socket. In `"accepting"` the server waits for a client to call; when
that times out it is `"polling"`, and looks into its queue for an EXIT, whoever
calls in the meantime. A connection is two flags: a command in it, an
acknowledgement in it. `RecvTimesOut` may come whenever the server waits for a
command, the client being late by half a second; nothing makes it come.

## 2b. The web server: modules

| Module | Models |
|---|---|
| `ThreadPool` | the worker threads, both queues, the self-pipe's write end |
| `PoolOwner` EXTENDS `ThreadPool` | a thread that uses and destroys the pool as the tests do |
| `AsyncServer` EXTENDS `ThreadPool` | the event loop, the sockets and the clients |
| `ThreadPool_proofs`, `PoolOwner_proofs`, `AsyncServer_proofs` | what the workers do to a task, whoever owns the pool; the theorems of its two owners |
| `MCAsyncServer` | the small instance: what each client sends and does |

`worker_state` is the place of a worker between two blocking calls. Nothing
blocks under `task_queue_mutex` and `exit_mutex`, so a critical section of
these is one action; `queue_result` keeps `result_queue_mutex` while it waits
for `self_pipe_mutex` and for room in the pipe, so these two are variables. A
worker that looks at the queue and finds nothing releases the mutex by waiting,
so this is one action, too. Condition variables may wake up spuriously (workers
only, see section 7). What `read_file` returns is a pointer into a destroyed
string, so the buffer holds the file or `Garbage`.

In `AsyncServer`, `todo` is what the for loop has left to do after `poll`: the
indices that are ready, and the slots in SEND. A slot changes its state only at its
own turn (or from EMPTY to INIT, which has no handler), so a turn that does nothing
is left out. `accept` may return any unused descriptor, since the workers open files
at the same time. A path is a sequence of pieces, and `recv` takes any part of what
has arrived; `ExtendPath` is what follows a `recv` that brought something.
Descriptors of clients are positive, as `accept` returns them while 0, 1 and 2 are
open, so the assertion `result.first > 0` (339) holds. The first component of
`partial_sends` is always 0: the code changes a copy. `destroy` is never reached by
`async_serv`. `AcceptExits` is the exit of the process when no slot is free.

## 2c. The shell and the citation graph: modules

| Module | Models |
|---|---|
| `Shell`, `MCShell`, `Shell_proofs` | the command loop, `fork_and_pipe_commands`, `child_process` and the children's programs |
| `Lca` | `lca.py`: rounds, the reduction, and the definition of a lowest common ancestor |
| `LcaImproved` EXTENDS `Lca`, `MCLcaImproved` | `lca_improved.py`, shown to implement `Lca` |
| `Lca_proofs` | the theorems about both |

In `Shell` a program is one of six kinds, for what it reads and writes; a pipe
holds an amount. Which ends are open is computed from the state of the
processes: the parent and every child that is not yet set up hold all of them
(`HeldByAll`), a running child the ones it has kept. The first command has no
standard input, since `child_process` closes it.

In `Lca` an RDD is the set of its rows. `papers` is a function: the file of papers gives
each paper one year. With two lines for one paper the join would have a row for each
pair of years, and the assertion `y1 == y2` (`lca.py:81`) would fail; the model
leaves such files, and the assertion, out. `Walk`, `Lengths`, `Common` and `Cost`
are the reference: paths in the graph, and the order of distance, year and
number. The initial states range over all the files an instance allows.

## 3. Plan

Done in this order, most important behaviour first:

1. `Network`, `Acceptor`, `Proposer`, `PaxosGroup`: agreement, what a CLIENT_ACK
   means, the lock service, stuck instances. *(done)*
2. `LockLog` and the refinement. *(done)*
3. The inductive invariant and its proof. *(done)*
4. `ThreadPool`, `PoolOwner`, `AsyncServer`. *(done)*
5. `ServerFailures`: connection lists, removal while iterating, servers that are
   late or fail; `Sessions`: clients and EXIT. *(done)*
6. `LogChecker`, `Lca`, `LcaImproved`, `Shell`. *(done)*

7. Proofs of the lock service: `AckedIsChosen`, `StuckForever`,
   `DeathIsReplicated`, `NoProposerDies`, `MutualExclusion`, the refinement of
   `LockLog`. *(done)*
8. Proofs of the web server and of the sessions: `TaskInOnePlace`, `NoLostTask`,
   `DestroyedIsQuiet`, `JobHasItsConnection`, `RightPage`, `OneUntold`, and the
   type invariants. *(done)*

9. Proofs of `ServerFailures` (its type invariant, `OneMissPerRemoval`) and of the
   shell (its type invariant, `PromptIsQuiet`, `OutputIntact`). *(done)*
10. Proofs of the log checker (`LogsValidate`, `ClientFilesValidate`) from `LogInv`.
    *(done)*
11. Proofs of the citation job (`ShortestDistances`, `LowestAncestors`, the refinement
    of `Lca` by `LcaImproved`). *(done)*

Left: the framing of messages and the blocked acknowledgement byte (section 7), and
liveness, which is only model-checked.

## 4. Runs

| Run | Instance | Question |
|---|---|---|
| `contend` | 3 servers, an UNLOCK of a free resource against a LOCK, 2 instances, numbers to 3, late answers, one server that loses messages, one that gets them twice | Do the replicas agree, does a majority stand behind an acknowledgement, does an acceptor stay with its value, is a stuck instance stuck for good, what does a failing assertion do to the group? |
| `handover` | one client locks and unlocks, another waits; 3 instances, numbers to 9 | Mutual exclusion, no failing assertion, valid log files, refinement of `LockLog`, `LegalInv` over a log of three instances |
| `never_stuck` | 3 servers, 3 clients, 2 resources, 2 instances, numbers to 5 | finding: an instance can become undecidable |
| `failures` | 7 servers, 2 of them late, failing or with broken connections, an acceptor that ends with one of them, 1 request, fairness | Do failures cost a round no more than two answers each, and is the client answered as long as enough servers run? |
| `outnumbered` | 5 servers, 2 of them late or failing, fairness | finding: a majority that runs is not enough |
| `sessions` | 3 clients, with 2, 1 and 1 commands, the last for a lock that never comes; 3 messages in the queue, fairness | Is nothing decided twice or untold, does every client leave and get its turn, does EXIT stop an idle proposer? |
| `pool` | 3 workers, 3 tasks, found and missing files, fairness | Is every task in one place, is no wake-up lost, does the owner get every result, does destroy wait for all? |
| `pool_destroy` | 2 workers, 1 task, fairness | finding: destroy may never return |
| `serve` | 3 clients, one silent, one that may close or reset, bytes after a newline, 2 slots and descriptors, 1 worker, a descriptor in `ufds[1]`, fairness | Does each result find a slot, each client get its own page, and is every client served whose request has arrived? |
| `serve_blocked` | 2 clients that may reset, 1 byte read in a round, room for 5 in the pipe, fairness | finding: the loop can block on its own pipe |
| `shell` | 13 lines of up to 4 commands, 3 units in pipes of 2, fairness | Does the prompt return, with nothing left running and all output out? |
| `lca` | 4 papers, 2 seeds, all 4096 graphs without a citation of itself, 3 lists of papers | Shortest distances, lowest ancestors, and does the improved program implement the plain one? |

Why the bounds suffice for the lock service. In a group of three a proposer never
sends to its own acceptor, so both other servers must answer, and two proposers
share exactly one acceptor: every conflict of two proposers is a conflict there. Two
instances are needed for messages of an earlier instance to be late; three for lock,
unlock and the second lock of the handover. A proposer's numbers are
`id, id + 3, id + 6, ...`, so 3 lets one proposer repeat its round while the other one's is under
way, and 9 is what it takes for the waiter to lose, learn, feign failures and win.
In `handover`, the state in which both requests of server 0 and the request of
server 1 are answered is reachable. In `contend` the two proposers meet in the first
instance; that the second is then begun with answers of the first under way is where
late messages come in. What a NACK does in an instance that others have decided is
in `handover`, and for every instance in the theorems. Numbers stop where no new
behaviour appears but the same rounds again; the theorems cover all of them. In
`contend` loss and duplication each have one server, so that both meet in every
majority.

In `failures` a majority of seven needs four answers of six others, so that the
margin is lost only with several failures; `MaxBehind` keeps the queue of an
acceptor to a request of the round before and one of this. A group of five in
`outnumbered` is the one of `test_multi_server_failure`. In `sessions` three
messages are an EXIT between two answers of acceptors. Two of the clients
compete for the one session, and the third one keeps it.

Every property of a passing run has a mutant in `PROJECT.json`: a definition
of the model, changed the way a plausible bug would change the code. The
changed definitions stand before the definitions they replace, marked *Mutant*.

Bounds of the web server. Three workers are the least for which one can take a task,
one be signalled in vain and one sleep. Two slots and as many descriptors are the
least for which two jobs are under way; with three clients a slot and a descriptor
are used again, or the third client finds no slot. `PipeCapacity` stands for the
65536 bytes of a pipe and `PipeRead` for the 5 bytes of a read. In `serve` the pipe
never fills: a round accepts one client, so results come no faster than they are
read, and only sends that fail write a byte again in every round, of which there is
at most one here. That is `serve_blocked`: two slots whose sends fail against one
byte read stand for six slots against five, the least with which the code's pipe
fills. Each round adds one byte, and five rounds are needed, so the pipe fills by
what the loop writes and not by the results. In the code the pool's tests write to
standard output in place of a pipe, so `PipeCapacity` is no limit in `pool`.

Bounds of the other two. Lines of four commands have pipes at both ends of a
child that are neither its first nor its last; an output of 3 does not fit
into a pipe of 2, so writers wait. Four papers give two seeds with up to two more
papers between and above them, shortest paths of every length up to three, and
cycles; the lists of papers have ties of years, and a paper that is missing.

Deadlock is checked in no run: in all of them the system may stop or rest. The
pool is destroyed, the web server exits, the user leaves the shell, the proposer
stops, or in the lock service the clients have run out of requests or a bound is
reached. Where the system must not stop, a liveness property says so.

Fairness. `PaxosGroup` has none: it is for safety. With competition or loss the
service may stop for good, as `never_stuck` shows, so the liveness of the lock service
is stated where the code promises it: for a proposer without competition, in
`ServerFailures` (`AnsweredWithMargin`, of which a group without failures is a case),
and for clients, in `Sessions`.

`FairSpec` of `PoolOwner` is weak fairness of each thread: every mutex is taken a
bounded number of times. In `FairSpec` of `AsyncServer` (`serve`, `serve_blocked`)
the loop takes `result_queue_mutex` in every round, for ever, so the workers need
strong fairness: the loop sleeps in `poll` with the mutex free whenever nothing is
ready, and a waiting worker is let in then. Spurious wake-ups and clients are not
fair.

`Spec` of `ServerFailures`, `Sessions` and `Shell` is weak fairness of each
process, as the operating system schedules it. Failures, EXIT messages, time-outs
of a silent client and users at the prompt are not fair: nothing makes them come.
`ImprovedSpec` of `LcaImproved` is weak fairness of the program's only thread.

## 5. Findings

* **An instance can become undecidable** (`server.py:491`, `785-797`). The
  second PREPARE_ACK of an acceptor for an instance has `client_id` None, and
  the proposer's assertion turns it into a failed round. Three proposers that
  each get one first answer leave the instance undecided for ever, whatever
  numbers they use later. The design document says that the procedure is
  repeated with higher numbers "until a value is eventually chosen" and that a
  livelock is negligible. `StuckForever`, proved for groups of every size, says that
  there is no way out.
* **A majority of running servers is not enough** (`server.py:341`, `486`, `593`).
  A proposer has no connection to its own acceptor, and wants answers from more
  than half of the whole group: in a group of five, from three of the four
  others. The design document (line 422) says that a majority of operating
  members suffices, of a test with five servers and two failures.
* **destroy can hang** (`thread_pool.cc:232`, `259-262`, `313-336`): a worker
  looks at `exit_signal` before destroy sets it and waits after the broadcast.
  The broadcasts meant to repair that come after a join of that very worker.
* **The event loop can block on its own pipe** (`server.cc:286-292`). When `send`
  fails, the slot stays in SEND and the loop writes a byte to the self-pipe, in every
  round, while a round reads at most five (`server.cc:183-187`). The write end is in
  blocking mode (`server.cc:164` is about the read end only). With six clients that
  have reset their connections the pipe fills, and the loop waits for room that only
  its own read could make; it keeps `self_pipe_mutex`, so the workers wait too. The
  comment (`server.cc:117`) says "serving web pages in non-blocking mode".

Seen while modelling, and not the subject of a run:

* Waiting for a lock can block its release (`server.py:549-564`). The check for a
  held lock comes after the proposer has collected its PREPARE_ACKs, which uses
  up the instance; the proposer that wants to unlock never gets a majority there.
  The design document (line 263) says that the feigned failure lets others
  release the lock. It is one way into the stuck instance of `never_stuck`.
* In a group of five a single broken connection makes `send_to_acceptors` pass over
  a running server, which leaves two answers of the three that are needed, until
  the next round; by then the first answers of the instance are used up.
* An acceptor that cannot answer ends (`server.py:702`), so the failure of one
  server can end every acceptor that has a request of it in its queue.
* EXIT is dropped by a proposer in PROPOSING or ACCEPTING: the tests send it with an
  instance of None, so it is passed over as a message of another instance (507; at
  608-611 also by the assertion, as Python 2 takes None for lower than any number).
  The branches at 520-525 and 622-624 are never reached, although the design document
  (line 161) has EXIT stop a proposer.
* The server closes the connection of a client that is silent for half a second
  (`server.py:396`, `430-432`), although the design document (line 269) lets a
  client keep its connection. A client that times out leaves its command in the
  connection, and the server may still decide it: a lock its owner does not know
  of (`OneUntold` allows one).
* `client.py` does not import `time`: the retry of `receive_message` (72) is a
  NameError, which ends the client. With the import it would try for ever on a
  connection that is reset.
* `make_lock_file` may lock a resource it holds (`lock_file.py`), and
  `make_deadlock_file` never adds to the `lock_set` its loop counts, so it ends with
  an IndexError.
* At the end of file the shell makes a string of NULL one statement before its
  test for NULL (`parta/main.cc:34-41`).
* A client of the web server that closes before its newline keeps its slot for ever
  (`server.cc:242-270`), and the client that finds no slot free ends the process,
  even if the clients come one after the other.
* Any client can release a lock (`server.py:324-335`), although the design
  document says no other client may.
* NACKs are counted, not acceptors (`server.py:505-519`): two NACKs of one
  acceptor, from two rounds, make a majority. Agreement survives this, because
  all values of an instance are copies of one; it is even what lets a third
  server of a group of three catch up with an instance its own acceptor and one
  other have decided.
* `basic_file_test` waits for a result without looking whether it is there
  already (`thread_pool_test.cc:102-103`), and can wait for ever.
* The buffer of a result points into a destroyed string (`thread_pool.cc:289`).
* A page is cut to the size of a pointer (`server.cc:284`, `296`).
* `ufds[1]` is uninitialised (`server.cc:140-162`, `344`). In `serve` it holds a
  descriptor that clients get, and each still gets its own page; a slot can be lost
  that way. The theorems are for whatever it holds.

### The known issues of the design document

The design document reports two issues of the lock service (lines 445-467). What the
model says of them:

* **Message dropping** (lines 433, 447-453): `test_message_drops` "fails with
  non-deterministic results", for "race condition patterns which we were not able to
  debug". In the model loss never costs safety: the theorems about agreement,
  acknowledgements and the lock log hold for every set `Dropping`. It costs progress.
  An acceptor has one usable answer per instance, and a round needs a majority of them
  at once; the answers after the first have `client_id` None, which the assertion at 491
  turns into a failed round. In a group of three, when the PREPARE or the PREPARE_ACK of
  one acceptor is lost, the round times out with the other acceptor's answer spent, and
  no later round of that proposer can succeed. Unless another proposer still finds two
  unused answers, the instance is undecidable, and `StuckForever` says that nobody
  gets it out. A client of the test then waits for ever, or not, as the dice fall.
* **Assertion failures in `failure_test`** (lines 462-467): "Once in a while, the lock
  sequence resolution that is generated is invalid and a proposer process will throw an
  assertion failure." `NoProposerDies` and `LogsValidate` say the opposite of the model,
  and `NoProposerDiesHolds` and `LogsValidateHolds` prove it for every size of the group,
  late, lost and repeated messages, and processes that stop anywhere, for clients that
  behave; those of `failure_test` (`make_simple_file`, one server each) do. The model does
  not reproduce the report, and is no evidence against it. It says that the order of
  messages and the end of processes are not enough to cause it, so the cause is to be
  looked for in what the model leaves out:
  - processes and files of an earlier test. `tearDown` fails (`dumps` is not
    defined, and `test_multi_server_failure` fails before it at `self.server`), the
    connection processes of a killed server are left behind, as the document says
    itself (lines 455-460), and every test uses the same ports and the same log files,
    opened with "w+";
  - a log file that `terminate()` cuts off inside a line, since it is buffered;
    `LogChecker` has whole lines;
  - `terminate()` while a process is inside an operation of a multiprocessing queue,
    which is known to corrupt it;
  - an earlier state of the code than the one here.

  The framing by `recv(1000)` (`server.py:157`, `426`) is left out as well, but merged
  messages are lost messages, and a message that is split ends its connection; the
  theorems cover both.

## 6. Proofs

| Module | Theorems |
|---|---|
| `LockLog_proofs` | `TypeCorrect`; `InvariantHolds`, `AgreementHolds`, `NoFutureMessageHolds`, `AcceptedStableHolds`; `AckInvHolds`, `AckedIsChosenHolds`, `StuckForeverHolds`; `LogInvHolds`, `DeathIsReplicatedHolds`, `LegalExecutionsImplement`; for clients that behave `LegalInvHolds`, `NoProposerDiesHolds`, `ImplementsLockLogHolds`, `MutualExclusionHolds`, `LogsValidateHolds`, `ClientFilesValidateHolds` |
| `ServerFailures_proofs` | `InvariantHolds`, `TypeCorrect`, `OneMissPerRemovalHolds` |
| `PoolOwner_proofs` | `InvariantHolds`, `TypeCorrect`, `TaskInOnePlaceHolds`, `NoLostTaskHolds`, `DestroyedIsQuietHolds` |
| `AsyncServer_proofs` | `InvariantHolds`, `TypeCorrect`, `JobHasItsConnectionHolds`, `RightPageHolds`, `ServerLosesNoTask` |
| `Sessions_proofs` | `InvariantHolds`, `TypeCorrect`, `OneUntoldHolds` |
| `Shell_proofs` | `InvariantHolds`, `TypeCorrect`, `PromptIsQuietHolds`, `OutputIntactHolds` |
| `Lca_proofs` | `InvariantHolds`, `ImplementsLcaHolds`, `ShortestDistancesHolds`, `LowestAncestorsHolds` |

Each rests on an inductive invariant that TLC checked before it was proved:
`IInv`, `AckInv`, `LogInv` and `LegalInv` are conjunctions of one another, and
the run `handover` checks the last; those of the pool, the web server, the
sessions, the failing servers and the shell were checked on the instances of
`pool`, `serve`, `sessions`, `failures` and `shell`, that of
the citation job on all graphs of three papers, with walks of at most four edges.

Every safety and action property that a passing run checks is also a theorem.
Where one is about a recursive function, a fold of the community modules or a path
of any length, the prover has no induction to offer. The argument is then by a
least counterexample: a set of natural numbers that is not empty has a least
element (`LeastNatural`, from the well-foundedness of the order). That a recursive
definition has a solution is shown by giving one, and that it has no other by the
least place, or the smallest set, at which two solutions would differ.

### Agreement

The proofs assume only the named assumptions on the constants: `N` a positive
natural number, bounds natural numbers, `None` outside the data. In particular
they hold for every `Script`, with and without loss, duplication and prompt
answers. The facts about cardinalities (two majorities intersect) come from
`FiniteSetTheorems`.

Agreement does not hold for the usual reason (proposal numbers
order the ballots), for PROPOSING ignores the numbers of the answers and an
acceptor's history is overwritten. It holds because the answers of acceptors
are *grants*: an acceptor without a history for the instance sends a
PREPARE_ACK with the default `client_id`, once, since it then has a history
(`GrantsAreUnique`); every later PREPARE_ACK is rejected by the proposer. So a
majority of grants goes to at most one proposer, the owner of the instance.
A proposer that leaves PROPOSING without NACKs has counted grants only
(`CountsAreGrants`, which needs the duplicate history), so it is the owner;
with NACKs it proposes a value that is already in the instance. Hence one value
circulates per instance, brought in by the owner (`OneValue`,
`OwnerBringsValue`). `NothingAhead` says that nothing of an instance exists
before its proposer has begun it; it makes the grants counted for an instance
those of this attempt, and gives `NoFutureMessage`. `AcceptedStable` follows,
although an ACCEPT overwrites the history: it can only bring the same value.

### Acknowledgements, and the way out of a stuck instance

A majority of counted ACCEPT_ACKs has to be a majority of acceptors that *now*
hold the value. `AckInv` adds to `IInv` that every answer that carries a request
is true when it arrives, however late (`AnswersAreTrue`: its sender still holds
that value, since one value circulates), and that the ACCEPT_ACKs counted are
from different acceptors (`CountsAreVotes`, by the duplicate history and the
number of the ACCEPT).

`StuckForever` is an action property. For each proposer, `Chances` adds the
acceptors without a history, the usable PREPARE_ACKs on their way and those
counted. A grant moves one from the first to the second, a count moves one from
the second to the third, everything else only takes away, so the sum never
grows. In a stuck instance no acceptor has a value, hence by `AnswersAreTrue` no
NACK is on its way either, and the sum below a majority means that no proposer
leaves PROPOSING with a value. That the messages on their way are finitely many
comes from `GrantsAreUnique`: they are as many as their senders.

### One lock service

The replicas agree on each instance, but the lock set is a matter of all
instances before. `LogInv` says that a server has resolved a prefix
(`ResolvedInOrder`), that its lock set is what the last resolution of each
resource left (`HeldIsExecuted`, with `HeldBefore` defined by quantifiers over
instances, where the code has a loop), that the command that ended a proposer
was the only illegal one (`ExecutedLegally`), and that each request in an
instance was asked by a server which served it there and has been acknowledged
there, if at all (`OnlyAsked`, `AcksInOrder`), so none is decided twice.
`DeathIsReplicated` follows: two servers at one instance have the same lock set
and the same command, so the assertion fails for both.

The refinement of `LockLog` is proved in two steps. `LegalExecutionsImplement`
needs no assumption on the clients: whenever no assertion fails in an execution,
this execution is one of `LockLog`, every step being a decision, an execution, an
answer or a stutter. `ImplementsLockLogHolds` discharges `[]NoProposerDies` for clients
that behave.

`ClientsBehave` is the one hypothesis on `Script`: a client talks to one server,
and an UNLOCK of a client comes after a LOCK of the same resource by the same
client, with no other such UNLOCK in between. It is what the command files of
the tests are like, what `make_lock_file` is meant to write, and without it
`NoProposerDies` is false, as the run `contend` shows, in which a proposer dies
of an UNLOCK nobody was entitled to. The hypothesis is not empty: TLC evaluates
it for the clients of `handover` (`HandoverBehaves` in `MCPaxosGroup`), in a run
in which two clients take turns with a lock. `LegalInv` adds to `LogInv` that every
value in an instance is legal there (`ValuesAreLegal`): a LOCK is brought in
only by a proposer that has executed all instances before and found the resource
free, and an UNLOCK comes from the client of the last LOCK. `MutualExclusion` is
then about what the clients have been *told*: of two acknowledged LOCKs in the
log an acknowledged UNLOCK stands between, which its client has asked for.

### The log files

A log file is what the server has executed (`LogIs`), so `validate_lock_file` finds
in `LockSet`, its recursion over the lines, what `LogInv` calls `HeldBefore`, which is
defined by quantifiers (`LockSetIsHeld`); each line is then legal since `LegalInv` says
that each resolution was. `validate_client_file` adds up occurrences of a command over
the files of the clients and compares with a log. `EveryRequestIsLogged` makes the two
numbers equal by counting: when every request is answered, the lines of a log and
the requests of the scripts correspond one to one, by `OnlyAsked` and `AcksInOrder`,
and each log is the beginning of every log that is as long or longer (`LogsAgree`).
`LogsValidate` is about each log by itself; that one replica's log differs from another's
is for `ClientFilesValidate` to find. Both take the files as whole lines, see the known
issues in section 5.
`SumOfParts` says that the fold over the files is the size of the union of the
requests they ask, in whatever order it goes.

### Failing servers

`OneMissPerRemoval` is about the loop of `send_to_acceptors`, which removes from the
list it goes through. `Attempted` is a recursion along the list: a connection is
passed over when the one before it was tried and raised. `AttemptedIs` shows that
this is so for the function that TLA+ chooses. Each running server that is passed
over is charged to the connection before it, which was tried and removed; no two
are charged to the same, so an injection bounds their number. Besides the type, the
invariant says what may be in the queue of an acceptor (`QueuesExpected`: requests of
the proposer, and of others only where `Asking` says so), and that a round that
waits for answers is not won yet (`InRound`). The theorems are for every size of the
group, every set of late and faulty servers, and any number of requests.

### The pool and the web server

`ThreadPool_proofs` holds what both owners need. `PoolInv` says which worker has a
task and which holds which mutex. The sum `InPool(id)` counts an identifier in the task
queue, in the hands of workers and in the result queue; lemmas on `Occurrences` in a
sequence and on `WorkersAt` say that a worker's steps keep it. `NoLostTask` is its own
invariant: a task in the queue means a worker that is awake, or a signal under
way, since a worker that sleeps again has seen the queue empty.

For the pool's test (`PoolOwner`) tasks are numbered (`TasksAreNumbered`), and each
number is in one place (`EachTaskOnce`, which is `TaskInOnePlace`); the wait of
the owner is answered (`WokenHasResult`), and `destroy` is over only when all
threads have been joined, in their order (`JoinedAreDone`). The theorems are for
every number of threads and tasks and every capacity of the pipe.

For the web server the identifiers are descriptors, which the system uses again.
A slot is *live* in INIT, RECV and SEND. `LiveSlots`: live slots have different
descriptors, which are open and have no job in the pool. A result goes to the
first slot with its descriptor, which need not be the slot that queued the task:
`ufds[1]` is uninitialised, and each detour of this kind leaves a slot in PROC
for ever. Such slots are never live, and this is why the page still goes to its
client. `JobHasItsConnection`: a descriptor that has a job is open, it has one
job, and some slot waits for it. `OneConnection` and `PathIsPrefix` tie the slot to
what its client has sent; `RightTasks`, `RightResults` and `RightSends` carry the path
from the request to the page, so that `RightPage` follows. The theorems are for every
number of threads, slots, descriptors and clients, every stream of requests in any
pieces, and every content of `ufds[1]`. `ServerAssumption` asks for more than two
slots and as many descriptors as there are slots for clients, and
`TaskAssumption` that `None` is not a task.

### Sessions

`OneUntold` holds because a command is in one place: in the connection, or with the
proposer (`TakenOnce`), always the next one of a client that waits or has given
up (`UnderWay`); an answer is on its way only to a client that waits for it
(`AnswerAwaited`). `Told` strengthens the property to all clients: one that
has not given up knows of everything decided for it but for the answer under
way. The proof is for every number of clients and commands, and any length of
the queue.

### The shell

`PromptIsQuiet` needs that each `wait` collects a child: `WaitsCollect` counts the
waits against the children that are collected, and `InOrder` says that none is
before the last fork. For `OutputIntact` the model keeps no record of what has
passed where, so `Conserved` says that there is one: for every command an amount it has
written, such that what came out of one command is in the pipe, in the hands of
the next, or has been written on by it. Each step of a child changes that record at
one place. `EndsInOrder` adds that a filter ends only behind everything before it, so
that at the prompt all pipes are empty and the record says that the terminal has
what the first command wrote. The theorems are for all lines, all amounts and every
capacity of a pipe.

### The citation graph

After `bfs_round - 1` rounds the distances are those of the pairs that so many
citations suffice for (`After`; `Within` and `Shortest` are defined by walks of any
length), and `last_step` has exactly the ends of walks of that length (`LastStepIs`).
`RoundIs` shows one round for both programs: whichever rows are extended, if the
shortest ones of the last round are among them and all are walks, the reduction leaves
the shortest distances of one more round. This is `ImplementsLca`: by `Nearer`, a pair
that is new comes from one that was new a round before. The rows that
lca_improved.py has forgotten could only give distances that are longer.

`ShortestDistances` asks for two facts more. `NothingNew`: a round that leaves the count
as it was (the pairs only grow, so it leaves the pairs) was the last one needed, by
the least distance that would be missing; a graph with cycles makes no difference.
`ShortestIsShort`: a shortest path visits no vertex twice, so the paths that
`Lengths` looks at, no longer than the number of vertices, are enough. For
`LowestAncestors`, `CompareIs` and `NoLaterOrder` show that `compare_accestors` takes the
earlier of two rows in a total order, and `FoldIsFirst` that reducing in any
order leaves the first of all. The theorems are for every finite graph, every list
of papers and every number of seeds. `LcaAssumption` asks for finitely many
vertices, which are numbers, and years that are numbers.

### Only model-checked

* Liveness under fairness (`AnsweredWithMargin`, `EveryClientLeaves`,
  `EveryClientServed`, `ExitStopsIdle`, `EveryTaskTaken`, `Served`, `PromptReturns`,
  `Terminates`) is beyond the prover. `Terminates` is the one that also bounds the
  model: `MaxRound` is a guard of `ImprovedRound`, which the run `lca` never
  reaches.
* The findings are counterexamples of the runs `never_stuck`, `outnumbered`,
  `pool_destroy` and `serve_blocked`.

## 7. Not modelled

* Of the lock service: pickling and the `recv(1000)` framing, the byte
  `connection_process` sends back and nobody reads, the listening process, EXIT and
  the shutdown of connections in the acceptor (844-858), print statements. Failures,
  sessions and competition are three models, not one: together they are out of TLC's
  reach.
* `lock_file.py`'s generators: random numbers into a file, without state.
* Of the web server: `initialize_server`, the unused `blocking_serv`, errors of
  `accept` and `fcntl`, sizes of pages, spurious wake-ups of the owner of a pool
  (undefined behaviour at the next line), and the read of `states[65]` (undefined
  behaviour; harmless unless the memory there holds 4).
* Of the shell: readline, the delimiters and blanks of a line (a command of blanks
  is `""`), and children that stop or are killed from outside.
* Of the citation job: sampling, partitions and caches, which change no result;
  `LCA.scala`, a draft in another framework.
* The trace analysis of `project/src`: scripts that go through CSV files once and
  count. They have no steps of several actors, no order but that of the lines,
  and a definition of what they compute would be the script again.
* Tests, reports, figures and data, apart from the claims quoted above.
