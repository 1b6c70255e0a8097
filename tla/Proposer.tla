------------------------------ MODULE Proposer ------------------------------
(***************************************************************************)
(* The proposer process of server.py (initialize_proposer): it serves one  *)
(* client command at a time and drives it through the states READY,        *)
(* PROPOSING, ACCEPT and ACCEPTING, one Paxos instance after another,      *)
(* until an instance decides that command of that client.  Straight-line   *)
(* code between two points where the process can block is one action.      *)
(***************************************************************************)
EXTENDS Network, Sequences

CONSTANTS
  Script,      \* [Server -> Seq(Request)]: what the clients of a server ask, in order
  Prompt       \* TRUE when every answer arrives within the one second timeout

ASSUME ScriptAssumption == Script \in [Server -> Seq(Request)]
ASSUME PromptAssumption == Prompt \in BOOLEAN

VARIABLES
  state,                  \* the state of the proposer's main loop
  proposer_num,           \* the number of its next PREPARE
  instance,               \* the instance it is proposing for
  learnt,                 \* (learnt_command, learnt_client)
  response_cnt,           \* responses counted in this PROPOSING or ACCEPTING
  pre_nacks,              \* the NACKs counted in this PROPOSING
  proposer_msg_history,   \* signatures of the messages handled
  instance_resolutions,   \* instance -> (learnt_command, client id)
  lock_set,               \* the resources that are locked
  client_acks             \* the CLIENT_ACKs sent, in order

proposerVars ==
  <<state, proposer_num, instance, learnt, response_cnt, pre_nacks,
    proposer_msg_history, instance_resolutions, lock_set, client_acks>>

\* DEAD: an assertion failed outside every try, so the process has ended.
State == {"IDLE", "READY", "PROPOSING", "ACCEPT", "ACCEPTING", "DEAD"}

\* The CLIENT_ACK of an instance and the command it answers.
ClientAck == [instance : Instance, value : Command, client_id : ClientId]

ProposerTypeOK ==
  /\ state \in [Server -> State]
  /\ proposer_num \in [Server -> Nat]
  /\ instance \in [Server -> 0 .. MaxInstance]
  /\ learnt \in [Server -> Request \cup {None}]
  /\ response_cnt \in [Server -> Nat]
  /\ pre_nacks \in [Server -> SUBSET Nack]
  /\ proposer_msg_history \in [Server -> SUBSET ProposerMessage]
  /\ instance_resolutions \in [Server -> [Instance -> Request \cup {None}]]
  /\ lock_set \in [Server -> SUBSET Resource]
  /\ client_acks \in [Server -> Seq(ClientAck)]

ProposerInit ==
  /\ state = [s \in Server |-> "IDLE"]
  /\ proposer_num = [s \in Server |-> s]
  /\ instance = [s \in Server |-> 0]
  /\ learnt = [s \in Server |-> None]
  /\ response_cnt = [s \in Server |-> 0]
  /\ pre_nacks = [s \in Server |-> {}]
  /\ proposer_msg_history = [s \in Server |-> {}]
  /\ instance_resolutions = [s \in Server |-> [i \in Instance |-> None]]
  /\ lock_set = [s \in Server |-> {}]
  /\ client_acks = [s \in Server |-> <<>>]

\* How many of the server's requests have been answered, and the request being
\* served: (client_command, orig_client_id).
Answered(s) == Len(client_acks[s])
HasRequest(s) == Answered(s) < Len(Script[s])
OwnRequest(s) == Script[s][Answered(s) + 1]

\* "response_cnt > self.group_size() / 2", with Python 2's integer division.
Majority(count) == count > N \div 2

----------------------------------------------------------------------------
(* IDLE and READY *)

\* client_connection.recv: the next command of the server's clients.
ReceiveCommand(s) ==
  /\ state[s] = "IDLE" /\ HasRequest(s)
  /\ state' = [state EXCEPT ![s] = "READY"]
  /\ learnt' = [learnt EXCEPT ![s] = OwnRequest(s)]
  /\ UNCHANGED <<proposer_num, instance, response_cnt, pre_nacks,
                 proposer_msg_history, instance_resolutions, lock_set,
                 client_acks, networkVars>>

\* READY, and the resets on entering PROPOSING.
SendPrepare(s) ==
  /\ state[s] = "READY"
  /\ instance[s] < MaxInstance /\ proposer_num[s] <= MaxProposal
  /\ SendToAcceptors(s,
       NewMessage("PREPARE", proposer_num[s], instance[s], None, s,
                  OwnRequest(s).client_id, NoProposal))
  /\ state' = [state EXCEPT ![s] = "PROPOSING"]
  /\ response_cnt' = [response_cnt EXCEPT ![s] = 0]
  /\ pre_nacks' = [pre_nacks EXCEPT ![s] = {}]
  /\ UNCHANGED <<proposer_num, instance, learnt, proposer_msg_history,
                 instance_resolutions, lock_set, client_acks, proposer_queue>>

----------------------------------------------------------------------------
(* Rounds and messages *)

\* A failed round: back to READY with a number higher by so many group sizes.
FailRound(s, rounds) ==
  /\ state' = [state EXCEPT ![s] = "READY"]
  /\ proposer_num' = [proposer_num EXCEPT ![s] = @ + rounds * N]

\* Queue.get gives up after one second.  An answer may be slower than that,
\* unless Prompt: then nothing of this proposer's is still on its way.
MayTimeOut(s) ==
  Prompt => /\ proposer_queue[s] = {}
            /\ \A a \in Server : \A m \in acceptor_queue[a] : m.origin_id # s

\* if_dup(msg, msg_history): a known signature, or else recorded.
Known(s, m) == m \in proposer_msg_history[s]
\* Mutant: the signature is not recorded.
HandleMessageUnrecorded(s, m) ==
  /\ ProposerTakes(s, m)
  /\ UNCHANGED <<proposer_msg_history, acceptor_queue>>

HandleMessage(s, m) ==
  /\ ProposerTakes(s, m)
  /\ proposer_msg_history' = [proposer_msg_history EXCEPT ![s] = @ \cup {m}]
  /\ UNCHANGED acceptor_queue

ForThisInstance(s, m) == m.instance = instance[s]

----------------------------------------------------------------------------
(* PROPOSING *)

ProposingTimesOut(s) ==
  /\ state[s] = "PROPOSING" /\ MayTimeOut(s)
  /\ FailRound(s, 1)
  /\ UNCHANGED <<instance, learnt, response_cnt, pre_nacks,
                 proposer_msg_history, instance_resolutions, lock_set,
                 client_acks, networkVars>>

\* "assert msg.client_id is not None" stands inside the try of the Queue.get:
\* a message without a client is consumed, not recorded, and fails the round.
ProposingRejects(s) ==
  /\ state[s] = "PROPOSING"
  /\ \E m \in proposer_queue[s] : m.client_id = None /\ ProposerTakes(s, m)
  /\ FailRound(s, 1)
  /\ UNCHANGED <<instance, learnt, response_cnt, pre_nacks,
                 proposer_msg_history, instance_resolutions, lock_set,
                 client_acks, acceptor_queue>>

\* The responses counted: ACKs and NACKs of the instance, whatever their number.
CountsInProposing(s, m) ==
  /\ m.client_id # None
  /\ ~Known(s, m)
  /\ ForThisInstance(s, m)
  /\ m.msg_type \in {"PREPARE_ACK", "PREPARE_NACK"}

ProposingSkips(s) ==
  /\ state[s] = "PROPOSING"
  /\ \E m \in proposer_queue[s] :
       m.client_id # None /\ ~CountsInProposing(s, m) /\ HandleMessage(s, m)
  /\ UNCHANGED <<state, proposer_num, instance, learnt, response_cnt, pre_nacks,
                 instance_resolutions, lock_set, client_acks>>

CountResponse(s, m) ==
  /\ CountsInProposing(s, m)
  /\ HandleMessage(s, m)
  /\ response_cnt' = [response_cnt EXCEPT ![s] = @ + 1]
  /\ pre_nacks' = [pre_nacks EXCEPT ![s] =
                      @ \cup (IF m.msg_type = "PREPARE_NACK" THEN {m} ELSE {})]
  /\ UNCHANGED <<instance, instance_resolutions, lock_set, client_acks>>

ProposingCounts(s) ==
  /\ state[s] = "PROPOSING"
  /\ ~Majority(response_cnt[s] + 1)
  /\ \E m \in proposer_queue[s] : CountResponse(s, m)
  /\ UNCHANGED <<state, proposer_num, learnt>>

\* max(pre_nacks) compares the numbers the NACKs answer (two NACKs of one
\* number are ordered by their addresses).  Without a NACK the learnt command
\* stays what it is: the own one, or one learnt in an earlier round.
Highest(nacks) == {m \in nacks : \A k \in nacks : k.proposal <= m.proposal}
\* Mutant: the NACKs are ignored, the own request is proposed in any case.
LearnedOwn(s, nacks) == {OwnRequest(s)}

Learned(s, nacks) ==
  IF nacks = {} THEN {learnt[s]}
  ELSE {[command |-> m.value, client_id |-> m.client_id] : m \in Highest(nacks)}

\* Mutant: no LOCK waits for the resource.
BlockedNever(s, request) == FALSE

\* "won but blocked": the command to propose is the own LOCK of a held resource.
Blocked(s, request) ==
  /\ request = OwnRequest(s)
  /\ request.command.command_type = "LOCK"
  /\ request.command.resource_id \in lock_set[s]

\* A majority has answered: go on to ACCEPT, or feint a failure when blocked.
ProposingLearns(s) ==
  /\ state[s] = "PROPOSING"
  /\ Majority(response_cnt[s] + 1)
  /\ \E m \in proposer_queue[s] : CountResponse(s, m)
  /\ \E request \in Learned(s, pre_nacks'[s]) :
       /\ learnt' = [learnt EXCEPT ![s] = request]
       /\ \/ /\ ~Blocked(s, request)
             /\ state' = [state EXCEPT ![s] = "ACCEPT"]
             /\ UNCHANGED proposer_num
          \/ /\ Blocked(s, request)
             /\ FailRound(s, 1)

----------------------------------------------------------------------------
(* ACCEPT and ACCEPTING *)

\* ACCEPT, and the reset on entering ACCEPTING.
SendAccept(s) ==
  /\ state[s] = "ACCEPT"
  /\ SendToAcceptors(s,
       NewMessage("ACCEPT", proposer_num[s], instance[s], learnt[s].command, s,
                  learnt[s].client_id, NoProposal))
  /\ state' = [state EXCEPT ![s] = "ACCEPTING"]
  /\ response_cnt' = [response_cnt EXCEPT ![s] = 0]
  /\ UNCHANGED <<proposer_num, instance, learnt, pre_nacks,
                 proposer_msg_history, instance_resolutions, lock_set,
                 client_acks, proposer_queue>>

\* The number grows once "in any case" and once more for the failure.
AcceptingTimesOut(s) ==
  /\ state[s] = "ACCEPTING" /\ MayTimeOut(s)
  /\ FailRound(s, 2)
  /\ UNCHANGED <<instance, learnt, response_cnt, pre_nacks,
                 proposer_msg_history, instance_resolutions, lock_set,
                 client_acks, networkVars>>

\* Only ACCEPT_ACKs for this ACCEPT request are counted.
CountsInAccepting(s, m) ==
  /\ ~Known(s, m)
  /\ ForThisInstance(s, m)
  /\ m.msg_type = "ACCEPT_ACK"
  /\ m.proposal = proposer_num[s]

AcceptingSkips(s) ==
  /\ state[s] = "ACCEPTING"
  /\ \E m \in proposer_queue[s] :
       ~CountsInAccepting(s, m) /\ HandleMessage(s, m)
  /\ UNCHANGED <<state, proposer_num, instance, learnt, response_cnt, pre_nacks,
                 instance_resolutions, lock_set, client_acks>>

AcceptingCounts(s) ==
  /\ state[s] = "ACCEPTING"
  /\ ~Majority(response_cnt[s] + 1)
  /\ \E m \in proposer_queue[s] :
       CountsInAccepting(s, m) /\ HandleMessage(s, m)
  /\ response_cnt' = [response_cnt EXCEPT ![s] = @ + 1]
  /\ UNCHANGED <<state, proposer_num, instance, learnt, pre_nacks,
                 instance_resolutions, lock_set, client_acks>>

\* execute_command: its assertions, and what it does to the lock set.
Executable(s, c) == c.command_type = "LOCK" <=> c.resource_id \notin lock_set[s]
\* Mutant: an UNLOCK leaves the resource locked.
ExecuteWithoutRelease(s, c) ==
  lock_set' = [lock_set EXCEPT ![s] = @ \cup {c.resource_id}]

Execute(s, c) ==
  lock_set' = [lock_set EXCEPT ![s] =
                 IF c.command_type = "LOCK" THEN @ \cup {c.resource_id}
                                            ELSE @ \ {c.resource_id}]

\* Mutant: any client's command that is like the own one will do.
AnswerLikeCommand(s, m) ==
  client_acks' =
    IF learnt[s].command # OwnRequest(s).command THEN client_acks
    ELSE [client_acks EXCEPT ![s] =
            Append(@, [instance |-> instance[s],
                       value |-> OwnRequest(s).command,
                       client_id |-> m.client_id])]

\* Tell the client, when the instance decided its own request.
AnswerClient(s, m) ==
  client_acks' =
    IF learnt[s] # OwnRequest(s) THEN client_acks
    ELSE [client_acks EXCEPT ![s] =
            Append(@, [instance |-> instance[s],
                       value |-> OwnRequest(s).command,
                       client_id |-> m.client_id])]

\* Execute the learnt command and go on with the next instance, unless an
\* assertion of execute_command fails and ends the process.
ExecuteLearnt(s) ==
  \/ /\ Executable(s, learnt[s].command)
     /\ Execute(s, learnt[s].command)
     /\ instance' = [instance EXCEPT ![s] = @ + 1]
     /\ learnt' = [learnt EXCEPT ![s] = OwnRequest(s)]
     /\ state' = [state EXCEPT ![s] =
                    IF learnt[s] = OwnRequest(s) THEN "IDLE" ELSE "READY"]
  \/ /\ ~Executable(s, learnt[s].command)
     /\ state' = [state EXCEPT ![s] = "DEAD"]
     /\ UNCHANGED <<lock_set, instance, learnt>>

\* A majority has accepted.
AcceptingResolves(s) ==
  /\ state[s] = "ACCEPTING"
  /\ Majority(response_cnt[s] + 1)
  /\ \E m \in proposer_queue[s] :
       /\ CountsInAccepting(s, m) /\ HandleMessage(s, m)
       /\ AnswerClient(s, m)
       /\ instance_resolutions' =
            [instance_resolutions EXCEPT ![s][instance[s]] =
               [command |-> learnt[s].command, client_id |-> m.client_id]]
  /\ response_cnt' = [response_cnt EXCEPT ![s] = @ + 1]
  /\ proposer_num' = [proposer_num EXCEPT ![s] = @ + N]
  /\ ExecuteLearnt(s)
  /\ UNCHANGED pre_nacks

ProposerStep(s) ==
  \/ ReceiveCommand(s) \/ SendPrepare(s)
  \/ ProposingTimesOut(s) \/ ProposingRejects(s) \/ ProposingSkips(s)
  \/ ProposingCounts(s) \/ ProposingLearns(s)
  \/ SendAccept(s)
  \/ AcceptingTimesOut(s) \/ AcceptingSkips(s) \/ AcceptingCounts(s)
  \/ AcceptingResolves(s)
=============================================================================
