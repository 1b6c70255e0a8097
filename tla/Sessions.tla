------------------------------ MODULE Sessions ------------------------------
(***************************************************************************)
(* Lock clients (client.py) and the part of the proposer (server.py) that  *)
(* accepts their connections one at a time, takes their commands, answers  *)
(* them, and looks for an EXIT message when no one calls.  What Paxos does *)
(* with a command is a step that may come (Resolve), and never comes for   *)
(* the clients whose lock is never released.                               *)
(***************************************************************************)
EXTENDS Integers, Sequences, FiniteSets

CONSTANTS
  Client,
  Commands,   \* [Client -> how many commands its file holds]
  Hopeless,   \* the clients whose commands wait for a lock for ever
  None,       \* no client
  MaxQueue    \* messages in the proposer's queue

ASSUME SessionAssumption ==
  /\ Commands \in [Client -> Nat] /\ Hopeless \subseteq Client
  /\ None \notin Client /\ MaxQueue \in Nat \ {0}

VARIABLES
  client_state,    \* [Client -> ClientState]
  acked,           \* [Client -> how many CLIENT_ACKs it has received]
  backlog,         \* connections not accepted yet, Seq(Client)
  to_server,       \* clients whose command is in their connection
  to_client,       \* clients whose CLIENT_ACK is in their connection
  closed,          \* clients whose connection the server has closed
  server_state,
  session,         \* the client of client_connection, or None
  proposer_queue,  \* Seq of "EXIT" and "ANSWER"
  decided,         \* [Client -> how many of its commands are resolved]
  slow             \* an answer that comes may take more than 30 seconds

clientVars == <<client_state, acked>>
wires == <<to_server, to_client, closed>>
vars == <<clientVars, wires, backlog, server_state, session, proposer_queue,
          decided, slow>>

ClientState == {"new", "ready", "waiting", "done", "aborted"}
Left(c) == client_state[c] \in {"done", "aborted"}

\* "polling": accept has timed out, and the proposer looks into its queue.
ServerState == {"accepting", "polling", "receiving", "proposing", "stopped"}
Alone == {"accepting", "polling", "stopped"}

TypeOK ==
  /\ client_state \in [Client -> ClientState]
  /\ acked \in [Client -> Nat] /\ decided \in [Client -> Nat]
  /\ backlog \in Seq(Client)
  /\ to_server \subseteq Client /\ to_client \subseteq Client /\ closed \subseteq Client
  /\ server_state \in ServerState
  /\ session \in Client \cup {None}
  /\ (session = None) = (server_state \in Alone)
  /\ proposer_queue \in Seq({"EXIT", "ANSWER"})
  /\ slow \in BOOLEAN

Init ==
  /\ client_state = [c \in Client |-> "new"]
  /\ acked = [c \in Client |-> 0] /\ decided = [c \in Client |-> 0]
  /\ backlog = <<>>
  /\ to_server = {} /\ to_client = {} /\ closed = {}
  /\ server_state = "accepting" /\ session = None
  /\ proposer_queue = <<>>
  /\ slow \in BOOLEAN
-----------------------------------------------------------------------------
(* The clients *)

Becomes(c, new) == client_state' = [client_state EXCEPT ![c] = new]

\* A proposer that has stopped refuses the connection, which ends the client.
Connect(c) ==
  /\ client_state[c] = "new"
  /\ \/ /\ server_state # "stopped"
        /\ Becomes(c, "ready") /\ backlog' = Append(backlog, c)
     \/ /\ server_state = "stopped"
        /\ Becomes(c, "aborted") /\ UNCHANGED backlog
  /\ UNCHANGED <<acked, wires, server_state, session, proposer_queue, decided, slow>>

\* A send on a connection that is gone raises an exception, which is dropped, or
\* is lost.
SendCommand(c) ==
  /\ client_state[c] = "ready" /\ acked[c] < Commands[c]
  /\ Becomes(c, "waiting")
  /\ to_server' = IF c \in closed THEN to_server ELSE to_server \cup {c}
  /\ UNCHANGED <<acked, to_client, closed, backlog, server_state, session,
                 proposer_queue, decided, slow>>

Finish(c) ==
  /\ client_state[c] = "ready" /\ acked[c] = Commands[c]
  /\ Becomes(c, "done")
  /\ UNCHANGED <<acked, wires, backlog, server_state, session, proposer_queue,
                 decided, slow>>

ReceiveAck(c) ==
  /\ client_state[c] = "waiting" /\ c \in to_client
  /\ Becomes(c, "ready")
  /\ acked' = [acked EXCEPT ![c] = @ + 1]
  /\ to_client' = to_client \ {c}
  /\ UNCHANGED <<to_server, closed, backlog, server_state, session,
                 proposer_queue, decided, slow>>

\* The proposer is busy for ever.
Blocked == server_state = "proposing" /\ session \in Hopeless

\* Mutant: the client tries again until there is something to receive.
GiveUpNever(c) == FALSE

\* The end of file, an error, or 30 seconds without an answer: receive_message
\* wants to sleep and try again, but time is not imported, and the NameError
\* ends the loop over the commands as well as an end of file does.
GiveUp(c) ==
  /\ client_state[c] = "waiting" /\ c \notin to_client
  /\ c \in closed \/ slow \/ Blocked
  /\ Becomes(c, "aborted")
  /\ UNCHANGED <<acked, wires, backlog, server_state, session, proposer_queue,
                 decided, slow>>

ClientStep(c) ==
  Connect(c) \/ SendCommand(c) \/ Finish(c) \/ ReceiveAck(c) \/ GiveUp(c)
-----------------------------------------------------------------------------
(* The proposer *)

Accept ==
  /\ server_state = "accepting" /\ backlog # <<>>
  /\ server_state' = "receiving"
  /\ session' = Head(backlog) /\ backlog' = Tail(backlog)
  /\ UNCHANGED <<clientVars, wires, proposer_queue, decided, slow>>

\* Nobody has called for a tenth of a second.
AcceptTimesOut ==
  /\ server_state = "accepting" /\ backlog = <<>>
  /\ server_state' = "polling"
  /\ UNCHANGED <<clientVars, wires, backlog, session, proposer_queue, decided, slow>>

\* Mutant: an EXIT goes back into the queue too.
PollForever ==
  /\ server_state = "polling" /\ proposer_queue # <<>>
  /\ proposer_queue' = Append(Tail(proposer_queue), Head(proposer_queue))
  /\ server_state' = "accepting"
  /\ UNCHANGED <<clientVars, wires, backlog, session, decided, slow>>

\* The proposer takes a message: an EXIT ends the process, and with it every
\* connection, those of clients that have called meanwhile too; another message
\* goes back to the end of the queue.
Poll ==
  /\ server_state = "polling" /\ proposer_queue # <<>>
  /\ \/ /\ Head(proposer_queue) = "EXIT"
        /\ server_state' = "stopped" /\ closed' = Client
        /\ proposer_queue' = Tail(proposer_queue)
     \/ /\ Head(proposer_queue) # "EXIT"
        /\ server_state' = "accepting" /\ UNCHANGED closed
        /\ proposer_queue' = Append(Tail(proposer_queue), Head(proposer_queue))
  /\ UNCHANGED <<clientVars, to_server, to_client, backlog, session, decided, slow>>

\* Or finds none for a second.
PollTimesOut ==
  /\ server_state = "polling" /\ proposer_queue = <<>>
  /\ server_state' = "accepting"
  /\ UNCHANGED <<clientVars, wires, backlog, session, proposer_queue, decided, slow>>

\* Mutant: what is received stays in the connection.
RecvCommandAgain ==
  /\ server_state = "receiving" /\ session \in to_server
  /\ server_state' = "proposing"
  /\ UNCHANGED to_server
  /\ UNCHANGED <<clientVars, to_client, closed, backlog, session, proposer_queue,
                 decided, slow>>

RecvCommand ==
  /\ server_state = "receiving" /\ session \in to_server
  /\ server_state' = "proposing"
  /\ to_server' = to_server \ {session}
  /\ UNCHANGED <<clientVars, to_client, closed, backlog, session, proposer_queue,
                 decided, slow>>

\* Mutant: the session goes on after the end of file.
EndsNever(c) == FALSE

Ends(c) == Left(c)

\* The end of file.  The connection is not closed, which no one is left to see.
RecvEof ==
  /\ server_state = "receiving" /\ session \notin to_server /\ Ends(session)
  /\ server_state' = "accepting" /\ session' = None
  /\ UNCHANGED <<clientVars, wires, backlog, proposer_queue, decided, slow>>

\* Mutant: the connection that was closed is kept.
RecvTimesOutKeeping ==
  /\ server_state = "receiving" /\ session \notin to_server
  /\ closed' = closed \cup {session}
  /\ server_state' = "accepting" /\ UNCHANGED session
  /\ UNCHANGED <<clientVars, to_server, to_client, backlog, proposer_queue,
                 decided, slow>>

\* Half a second has passed, or the connection is reset.
RecvTimesOut ==
  /\ server_state = "receiving" /\ session \notin to_server
  /\ closed' = closed \cup {session}
  /\ server_state' = "accepting" /\ session' = None
  /\ UNCHANGED <<clientVars, to_server, to_client, backlog, proposer_queue,
                 decided, slow>>

\* PROPOSING and ACCEPTING take every message from the queue, an EXIT too: it
\* has no instance, and is dropped as one of another instance.
TakeMessage ==
  /\ server_state = "proposing" /\ proposer_queue # <<>>
  /\ proposer_queue' = Tail(proposer_queue)
  /\ UNCHANGED <<clientVars, wires, backlog, server_state, session, decided, slow>>

\* An instance decides the command; the CLIENT_ACK to a client that has left is
\* lost.
Resolve ==
  /\ server_state = "proposing" /\ session \notin Hopeless
  /\ decided' = [decided EXCEPT ![session] = @ + 1]
  /\ to_client' = IF Left(session) THEN to_client ELSE to_client \cup {session}
  /\ server_state' = "receiving"
  /\ UNCHANGED <<clientVars, to_server, closed, backlog, session, proposer_queue, slow>>

\* The listening process and exit() of the test put messages into the queue.
Put(m) ==
  /\ Len(proposer_queue) < MaxQueue
  /\ m = "EXIT" => \A k \in DOMAIN proposer_queue : proposer_queue[k] # "EXIT"
  /\ proposer_queue' = Append(proposer_queue, m)
  /\ UNCHANGED <<clientVars, wires, backlog, server_state, session, decided, slow>>

ServerStep ==
  \/ Accept \/ AcceptTimesOut \/ Poll \/ PollTimesOut
  \/ RecvCommand \/ RecvEof \/ Resolve

Next ==
  \/ \E c \in Client : ClientStep(c)
  \/ ServerStep \/ TakeMessage \/ RecvTimesOut
  \/ \E m \in {"EXIT", "ANSWER"} : Put(m)

\* Every process that can go on does.  A client that is gone need not be seen
\* to be: RecvTimesOut ends its session after half a second at the latest.
Spec ==
  /\ Init /\ [][Next]_vars
  /\ \A c \in Client : WF_vars(ClientStep(c))
  /\ WF_vars(ServerStep)
-----------------------------------------------------------------------------
\* However a client and its connection end, its commands are decided in order,
\* each once, and at most one that it was never told of: a client that has left
\* has at most one lock that it does not know it holds (client.py:98-120,
\* server.py:418-446, :622-645).
OneUntold == \A c \in Client : decided[c] - acked[c] \in 0 .. 1

\* No client stays for ever, whatever becomes of the proposer and its connection
\* (client.py:44-46, :69-79).
EveryClientLeaves == \A c \in Client : <>Left(c)

\* Clients come after one another, and each has all of its commands answered
\* unless it was silent for half a second, the proposer waits for a lock for
\* ever or stops, or the answers are slow (server.py:392-446).
EveryClientServed ==
  \A c \in Client :
    <>(\/ client_state[c] = "done" \/ c \in closed
       \/ Blocked \/ slow)

\* An EXIT stops a proposer that has no client and no connection to accept,
\* whatever else its queue holds (server.py:397-409).
ExitStopsIdle ==
  (/\ session = None /\ backlog = <<>> /\ \A c \in Client : Left(c)
   /\ \E k \in DOMAIN proposer_queue : proposer_queue[k] = "EXIT")
  ~> server_state = "stopped"
=============================================================================
