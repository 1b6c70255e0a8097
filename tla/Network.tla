------------------------------ MODULE Network ------------------------------
(***************************************************************************)
(* The inter-server communication of problemset2: the message class of     *)
(* message.py and the way server.py moves a message from the sendall of    *)
(* one process to the Queue.get of another.                                *)
(*                                                                         *)
(* A message waits in a TCP connection, then in the connection_process     *)
(* thread that routes it by its type, then in the proposer or the acceptor *)
(* Queue of the destination.  Connections of different senders are read by *)
(* different processes, so a Queue delivers in an order the senders do not *)
(* control; all three stages are one unordered set per destination.        *)
(***************************************************************************)
EXTENDS Integers, FiniteSets

CONSTANTS N,            \* len(server_list), the size of the Paxos group
          Resource,     \* the ids of the resources that can be locked
          ClientId,     \* the ids of the clients
          None,         \* Python's None
          MaxInstance,  \* bound: instances 0 .. MaxInstance - 1 are explored
          MaxProposal,  \* bound: no PREPARE is sent with a larger number
          Dropping,     \* the servers whose drop_rate is positive
          Duplicating   \* the servers whose dup_rate is larger than drop_rate

NoClientId == -1        \* default of message.__init__'s client_id
NoProposal == -1        \* default of r_proposal; h_accp before any ACCEPT

ASSUME GroupAssumption == N \in Nat \ {0}

ASSUME BoundAssumption == MaxInstance \in Nat /\ MaxProposal \in Nat

Server == 0 .. N - 1
Instance == 0 .. MaxInstance - 1

ASSUME RateAssumption == Dropping \subseteq Server /\ Duplicating \subseteq Server

CommandType == {"LOCK", "UNLOCK"}
Command == [command_type : CommandType, resource_id : Resource]

\* What a client asks for, and what an instance decides: a command together
\* with the client it came from.
Request == [command : Command, client_id : ClientId]

ASSUME NoneAssumption ==
  /\ None \notin ClientId \cup Command \cup Request
  /\ None # NoClientId
  /\ NoClientId \notin ClientId

\* The messages of one type: the six things the processes send each other.
MessageOf(type, values, clients, r_proposals) ==
  [msg_type   : {type},
   proposal   : Nat,
   instance   : Instance,
   value      : values,
   origin_id  : Server,
   client_id  : clients,
   r_proposal : r_proposals]

Prepare   == MessageOf("PREPARE", {None}, ClientId, {NoProposal})
AcceptReq == MessageOf("ACCEPT", Command, ClientId, {NoProposal})
FirstAck  == MessageOf("PREPARE_ACK", ClientId, {NoClientId}, {NoProposal})
RepeatAck == MessageOf("PREPARE_ACK", {None}, {None}, {NoProposal})
Nack      == MessageOf("PREPARE_NACK", Command, ClientId, Nat)
AcceptAck == MessageOf("ACCEPT_ACK", Command, ClientId, {NoProposal})

\* The routing of connection_process: acceptor_msg_types, proposer_msg_types.
AcceptorMessage == Prepare \cup AcceptReq
ProposerMessage == FirstAck \cup RepeatAck \cup Nack \cup AcceptAck

\* The constructor message.message(...), with every default spelled out.
NewMessage(type, proposal, instance, value, origin, client, r_proposal) ==
  [msg_type |-> type, proposal |-> proposal, instance |-> instance,
   value |-> value, origin_id |-> origin, client_id |-> client,
   r_proposal |-> r_proposal]

VARIABLES
  acceptor_queue,   \* [Server -> SUBSET AcceptorMessage]
  proposer_queue    \* [Server -> SUBSET ProposerMessage]

networkVars == <<acceptor_queue, proposer_queue>>

NetworkTypeOK ==
  /\ acceptor_queue \in [Server -> SUBSET AcceptorMessage]
  /\ proposer_queue \in [Server -> SUBSET ProposerMessage]

NetworkInit ==
  /\ acceptor_queue = [a \in Server |-> {}]
  /\ proposer_queue = [s \in Server |-> {}]

----------------------------------------------------------------------------
(* Sending *)

\* send_to_acceptors: to every server the proposer is connected to, which is
\* every server but itself.
SendToAcceptors(s, m) ==
  acceptor_queue' =
    [a \in Server |-> IF a = s THEN acceptor_queue[a]
                               ELSE acceptor_queue[a] \cup {m}]

\* Mutant: the answer goes to every proposer.
ResponseProposerToAll(s, m) ==
  proposer_queue' = [t \in Server |-> proposer_queue[t] \cup {m}]

\* response_proposer: the acceptor's answer to the proposer that asked.
ResponseProposer(s, m) ==
  proposer_queue' = [proposer_queue EXCEPT ![s] = @ \cup {m}]

----------------------------------------------------------------------------
(* Delivery.  A duplicated message is put in the Queue twice, so taking    *)
(* it may leave it there.                                                  *)

AfterTaking(s, queue, m) ==
  {queue \ {m}} \cup (IF s \in Duplicating THEN {queue} ELSE {})

AcceptorTakes(a, m) ==
  \E queue \in AfterTaking(a, acceptor_queue[a], m) :
    acceptor_queue' = [acceptor_queue EXCEPT ![a] = queue]

ProposerTakes(s, m) ==
  \E queue \in AfterTaking(s, proposer_queue[s], m) :
    proposer_queue' = [proposer_queue EXCEPT ![s] = queue]

\* connection_process loses the message: dice < drop_rate.
DropToAcceptor(a) ==
  /\ a \in Dropping
  /\ \E m \in acceptor_queue[a] :
       acceptor_queue' = [acceptor_queue EXCEPT ![a] = @ \ {m}]
  /\ UNCHANGED proposer_queue

DropToProposer(s) ==
  /\ s \in Dropping
  /\ \E m \in proposer_queue[s] :
       proposer_queue' = [proposer_queue EXCEPT ![s] = @ \ {m}]
  /\ UNCHANGED acceptor_queue
=============================================================================
