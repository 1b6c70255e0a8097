--------------------------- MODULE LockLog_proofs ---------------------------
(***************************************************************************)
(* Proofs about the Paxos group and the lock service it carries, for every *)
(* number of servers, every script of requests, every bound, and with or   *)
(* without loss and duplication.  First the protocol: its type invariant,  *)
(* IInv of PaxosInvariants, hence Agreement, and AckInv, hence             *)
(* AckedIsChosen and StuckForever.  Then the log: every replica executes   *)
(* one log, in order, the group implements LockLog, and the log files it   *)
(* leaves pass the two checks of LogChecker.                               *)
(***************************************************************************)
EXTENDS LockInvariants, LogChecker, FiniteSetTheorems, WellFoundedInduction, TLAPS

----------------------------------------------------------------------------
(* Type correctness *)

TypeInv == TypeOK /\ BusyHasRequest

\* Taking a message leaves a part of the queue.
LEMMA ProposerTakesType ==
  ASSUME NetworkTypeOK, NEW s \in Server, NEW m, ProposerTakes(s, m)
  PROVE  /\ proposer_queue' \in [Server -> SUBSET ProposerMessage]
         /\ \A t \in Server : proposer_queue'[t] \subseteq proposer_queue[t]
BY DEF NetworkTypeOK, ProposerTakes, AfterTaking

LEMMA AcceptorTakesType ==
  ASSUME NetworkTypeOK, NEW a \in Server, NEW m, AcceptorTakes(a, m)
  PROVE  /\ acceptor_queue' \in [Server -> SUBSET AcceptorMessage]
         /\ \A t \in Server : acceptor_queue'[t] \subseteq acceptor_queue[t]
BY DEF NetworkTypeOK, AcceptorTakes, AfterTaking

\* Sending puts one message in the queues it is sent to.
LEMMA SendType ==
  ASSUME NetworkTypeOK, NEW s \in Server, NEW m \in AcceptorMessage,
         SendToAcceptors(s, m)
  PROVE  /\ acceptor_queue' \in [Server -> SUBSET AcceptorMessage]
         /\ \A t \in Server : acceptor_queue'[t] \subseteq acceptor_queue[t] \cup {m}
BY DEF NetworkTypeOK, SendToAcceptors

LEMMA ResponseType ==
  ASSUME NetworkTypeOK, NEW s \in Server, NEW m \in ProposerMessage,
         ResponseProposer(s, m)
  PROVE  /\ proposer_queue' \in [Server -> SUBSET ProposerMessage]
         /\ \A t \in Server :
              proposer_queue'[t] = IF t = s THEN proposer_queue[t] \cup {m}
                                   ELSE proposer_queue[t]
BY DEF NetworkTypeOK, ResponseProposer

\* A message of a type has the fields of that type.
LEMMA AcceptorMessageFields ==
  ASSUME NEW m \in AcceptorMessage
  PROVE  /\ m.proposal \in Nat /\ m.instance \in Instance
         /\ m.origin_id \in Server /\ m.client_id \in ClientId
         /\ m.msg_type \in {"PREPARE", "ACCEPT"}
         /\ m.msg_type = "ACCEPT" => m.value \in Command
BY DEF AcceptorMessage, Prepare, AcceptReq, MessageOf

LEMMA ProposerMessageFields ==
  ASSUME NEW m \in ProposerMessage
  PROVE  /\ m.proposal \in Nat /\ m.instance \in Instance
         /\ m.origin_id \in Server
         /\ m.msg_type \in {"PREPARE_ACK", "PREPARE_NACK", "ACCEPT_ACK"}
         /\ m.msg_type = "PREPARE_NACK" => m \in Nack
         /\ m.msg_type \in {"ACCEPT_ACK", "PREPARE_NACK"} =>
              m.value \in Command /\ m.client_id \in ClientId
         /\ m.msg_type = "PREPARE_ACK" => m.client_id \in {NoClientId, None}
BY DEF ProposerMessage, FirstAck, RepeatAck, Nack, AcceptAck, MessageOf

LEMMA RequestFields ==
  ASSUME NEW r \in Request
  PROVE  r.command \in Command /\ r.client_id \in ClientId
         /\ r = [command |-> r.command, client_id |-> r.client_id]
BY DEF Request

\* A history entry is a promise or an acceptance.
LEMMA HistoryFields ==
  ASSUME AcceptorTypeOK, NEW a \in Server, NEW i \in Instance, Touched(a, i)
  PROVE  LET h == accept_history[a][i]
         IN  /\ h \in HistoryEntry /\ h.h_prep \in Nat
             /\ h.h_accp # NoProposal =>
                  h.h_accp \in Nat /\ h.h_accv \in Command /\ h.cid \in ClientId
             /\ h.h_accp = NoProposal => h.h_accv = None /\ h.cid = None
BY DEF AcceptorTypeOK, Touched, HistoryEntry, Promised, Accepted, NoProposal

LEMMA OwnRequestType ==
  ASSUME NEW s \in Server, HasRequest(s), ProposerTypeOK
  PROVE  OwnRequest(s) \in Request
BY ScriptAssumption DEF HasRequest, OwnRequest, Answered, ProposerTypeOK

\* Init and the steps of the acceptor, of the proposer and of the network keep
\* every variable in its type.
LEMMA InitType == Init => TypeInv
<1> SUFFICES ASSUME Init PROVE TypeInv
  OBVIOUS
<1> USE DEF Init, NetworkInit, AcceptorInit, ProposerInit
<1>1. NetworkTypeOK
  BY DEF NetworkTypeOK
<1>2. AcceptorTypeOK
  BY DEF AcceptorTypeOK
<1>3. ProposerTypeOK
  <2>1. \A s \in Server : s \in Nat
    BY GroupAssumption DEF Server
  <2>2. 0 \in 0 .. MaxInstance
    BY BoundAssumption
  <2> QED
    BY <2>1, <2>2 DEF ProposerTypeOK, State
<1>4. BusyHasRequest
  BY DEF BusyHasRequest
<1> QED
  BY <1>1, <1>2, <1>3, <1>4 DEF TypeInv, TypeOK

\* RecordHistory puts one entry in the history.
LEMMA RecordType ==
  ASSUME AcceptorTypeOK, NEW a \in Server, NEW i \in Instance,
         NEW prep \in Nat, NEW accp, NEW accv, NEW client,
         [h_prep |-> prep, h_accp |-> accp, h_accv |-> accv, cid |-> client]
           \in HistoryEntry,
         RecordHistory(a, i, prep, accp, accv, client)
  PROVE  accept_history' \in [Server -> [Instance -> HistoryEntry \cup {None}]]
BY DEF AcceptorTypeOK, RecordHistory

LEMMA AcceptorStepType ==
  ASSUME TypeInv, NEW a \in Server, AcceptorStep(a), UNCHANGED proposerVars
  PROVE  TypeInv'
<1> USE DEF TypeInv, TypeOK
<1>1. ProposerTypeOK' /\ BusyHasRequest'
  BY DEF proposerVars, ProposerTypeOK, BusyHasRequest, HasRequest, Answered
<1> SUFFICES NetworkTypeOK' /\ AcceptorTypeOK'
  BY <1>1
<1>2. ASSUME NEW m \in acceptor_queue[a], TakeFresh(a, m)
      PROVE  /\ acceptor_queue' \in [Server -> SUBSET AcceptorMessage]
             /\ acceptor_msg_history' \in [Server -> SUBSET AcceptorMessage]
             /\ m \in AcceptorMessage
  BY <1>2, AcceptorTakesType DEF TakeFresh, AcceptorTypeOK, NetworkTypeOK
<1>3. CASE DuplicateToAcceptor(a)
  BY <1>3, AcceptorTakesType
     DEF DuplicateToAcceptor, Ignore, NetworkTypeOK, AcceptorTypeOK
<1>4. CASE PrepareFirst(a)
  <2>1. PICK m \in acceptor_queue[a] :
          /\ m.msg_type = "PREPARE" /\ ~Touched(a, m.instance)
          /\ TakeFresh(a, m)
          /\ ResponseProposer(m.origin_id, FirstAnswer(a, m))
          /\ RecordHistory(a, m.instance, m.proposal, NoProposal, None, None)
    BY <1>4 DEF PrepareFirst
  <2>2. m \in AcceptorMessage /\ m.origin_id \in Server
        /\ m.instance \in Instance /\ m.proposal \in Nat
    BY <2>1, <1>2, AcceptorMessageFields
  <2>3. FirstAnswer(a, m) \in ProposerMessage
    BY <2>1, <2>2, AcceptorMessageFields
       DEF FirstAnswer, NewMessage, ProposerMessage, FirstAck, MessageOf
  <2>4. [h_prep |-> m.proposal, h_accp |-> NoProposal, h_accv |-> None,
         cid |-> None] \in HistoryEntry
    BY <2>2 DEF HistoryEntry, Promised
  <2> QED
    BY <2>1, <2>2, <2>3, <2>4, <1>2, ResponseType, RecordType
       DEF NetworkTypeOK, AcceptorTypeOK
<1>5. CASE PrepareHigher(a)
  <2>1. PICK m \in acceptor_queue[a] :
          /\ m.msg_type = "PREPARE" /\ Touched(a, m.instance)
          /\ m.proposal > accept_history[a][m.instance].h_prep
          /\ TakeFresh(a, m)
          /\ ResponseProposer(m.origin_id, LaterAnswer(a, m))
          /\ LET h == accept_history[a][m.instance]
             IN  RecordHistory(a, m.instance, m.proposal, h.h_accp, h.h_accv, h.cid)
    BY <1>5 DEF PrepareHigher
  <2> DEFINE h == accept_history[a][m.instance]
  <2>2. m \in AcceptorMessage /\ m.origin_id \in Server
        /\ m.instance \in Instance /\ m.proposal \in Nat
    BY <2>1, <1>2, AcceptorMessageFields
  <2>3. /\ h \in HistoryEntry
        /\ h.h_accp # NoProposal =>
             h.h_accp \in Nat /\ h.h_accv \in Command /\ h.cid \in ClientId
        /\ h.h_accp = NoProposal => h.h_accv = None /\ h.cid = None
    BY <2>1, <2>2, HistoryFields
  <2>4. LaterAnswer(a, m) \in ProposerMessage
    BY <2>2, <2>3
       DEF LaterAnswer, NewMessage, ProposerMessage, Nack, RepeatAck, MessageOf
  <2>5. [h_prep |-> m.proposal, h_accp |-> h.h_accp, h_accv |-> h.h_accv,
         cid |-> h.cid] \in HistoryEntry
    BY <2>2, <2>3 DEF HistoryEntry, Promised, Accepted
  <2> QED
    BY <2>1, <2>2, <2>4, <2>5, <1>2, ResponseType, RecordType
       DEF NetworkTypeOK, AcceptorTypeOK
<1>6. CASE PrepareIgnored(a)
  BY <1>6, <1>2 DEF PrepareIgnored, Ignore, NetworkTypeOK, AcceptorTypeOK
<1>7. CASE Accept(a)
  <2>1. PICK m \in acceptor_queue[a] :
          /\ m.msg_type = "ACCEPT" /\ Acceptable(a, m)
          /\ TakeFresh(a, m)
          /\ ResponseProposer(m.origin_id, AcceptAnswer(a, m))
          /\ RecordHistory(a, m.instance, m.proposal, m.proposal, m.value, m.client_id)
    BY <1>7 DEF Accept
  <2>2. m \in AcceptorMessage /\ m.origin_id \in Server
        /\ m.instance \in Instance /\ m.proposal \in Nat
        /\ m.value \in Command /\ m.client_id \in ClientId
    BY <2>1, <1>2, AcceptorMessageFields
  <2>3. AcceptAnswer(a, m) \in ProposerMessage
    BY <2>2 DEF AcceptAnswer, NewMessage, ProposerMessage, AcceptAck, MessageOf
  <2>4. [h_prep |-> m.proposal, h_accp |-> m.proposal, h_accv |-> m.value,
         cid |-> m.client_id] \in HistoryEntry
    BY <2>2 DEF HistoryEntry, Accepted
  <2> QED
    BY <2>1, <2>2, <2>3, <2>4, <1>2, ResponseType, RecordType
       DEF NetworkTypeOK, AcceptorTypeOK
<1>8. CASE AcceptIgnored(a)
  BY <1>8, <1>2 DEF AcceptIgnored, Ignore, NetworkTypeOK, AcceptorTypeOK
<1> QED
  BY <1>3, <1>4, <1>5, <1>6, <1>7, <1>8 DEF AcceptorStep

LEMMA DropType ==
  ASSUME TypeInv, NEW s \in Server, DropToAcceptor(s) \/ DropToProposer(s),
         UNCHANGED <<acceptorVars, proposerVars>>
  PROVE  TypeInv'
<1>1. NetworkTypeOK'
  BY DEF TypeInv, TypeOK, DropToAcceptor, DropToProposer, NetworkTypeOK
<1>2. AcceptorTypeOK'
  BY DEF TypeInv, TypeOK, AcceptorTypeOK, acceptorVars
<1>3. ProposerTypeOK' /\ BusyHasRequest'
  BY DEF TypeInv, TypeOK, proposerVars, ProposerTypeOK, BusyHasRequest,
         HasRequest, Answered
<1> QED
  BY <1>1, <1>2, <1>3 DEF TypeInv, TypeOK

\* HandleMessage moves a message from the queue to the history.
LEMMA HandleType ==
  ASSUME TypeInv, NEW s \in Server, NEW m \in proposer_queue[s],
         HandleMessage(s, m)
  PROVE  /\ NetworkTypeOK'
         /\ proposer_msg_history' \in [Server -> SUBSET ProposerMessage]
         /\ m \in ProposerMessage
BY ProposerTakesType
   DEF TypeInv, TypeOK, HandleMessage, NetworkTypeOK, ProposerTypeOK

\* Round numbers stay natural.
LEMMA FailType ==
  ASSUME ProposerTypeOK, NEW s \in Server, NEW k \in Nat, FailRound(s, k)
  PROVE  /\ state' \in [Server -> State] /\ proposer_num' \in [Server -> Nat]
         /\ state'[s] = "READY"
         /\ \A t \in Server \ {s} : state'[t] = state[t]
<1>1. \A n \in Nat : n + k * N \in Nat
  BY GroupAssumption
<1> QED
  BY <1>1 DEF FailRound, ProposerTypeOK, State

LEMMA ReceiveCommandType ==
  ASSUME TypeInv, NEW s \in Server, ReceiveCommand(s)
  PROVE  NetworkTypeOK' /\ ProposerTypeOK' /\ BusyHasRequest'
<1>1. OwnRequest(s) \in Request
  BY OwnRequestType DEF TypeInv, TypeOK, ReceiveCommand
<1> QED
  BY <1>1 DEF TypeInv, TypeOK, ReceiveCommand, NetworkTypeOK, networkVars,
     ProposerTypeOK, State, BusyHasRequest, HasRequest, Answered

LEMMA SendPrepareType ==
  ASSUME TypeInv, NEW s \in Server, SendPrepare(s)
  PROVE  NetworkTypeOK' /\ ProposerTypeOK' /\ BusyHasRequest'
<1> DEFINE m == NewMessage("PREPARE", proposer_num[s], instance[s], None, s,
                           OwnRequest(s).client_id, NoProposal)
<1>1. instance[s] \in Instance
  BY BoundAssumption DEF TypeInv, TypeOK, ProposerTypeOK, SendPrepare, Instance
<1>2. OwnRequest(s) \in Request
  BY OwnRequestType DEF TypeInv, TypeOK, BusyHasRequest, SendPrepare
<1>3. m \in AcceptorMessage
  BY <1>1, <1>2, RequestFields
     DEF AcceptorMessage, Prepare, MessageOf, NewMessage, TypeInv, TypeOK,
         ProposerTypeOK
<1>4. NetworkTypeOK'
  BY <1>3, SendType DEF TypeInv, TypeOK, NetworkTypeOK, SendPrepare
<1>5. ProposerTypeOK'
  BY DEF TypeInv, TypeOK, SendPrepare, ProposerTypeOK, State
<1>6. BusyHasRequest'
  BY <1>1 DEF TypeInv, TypeOK, SendPrepare, ProposerTypeOK, BusyHasRequest,
              HasRequest, Answered
<1> QED
  BY <1>4, <1>5, <1>6

LEMMA ProposingFailsType ==
  ASSUME TypeInv, NEW s \in Server, ProposingTimesOut(s) \/ ProposingRejects(s)
  PROVE  NetworkTypeOK' /\ ProposerTypeOK' /\ BusyHasRequest'
<1>1. FailRound(s, 1) /\ state[s] = "PROPOSING"
      /\ UNCHANGED <<instance, learnt, response_cnt, pre_nacks,
                     proposer_msg_history, instance_resolutions, lock_set,
                     client_acks>>
  BY DEF ProposingTimesOut, ProposingRejects
<1>2. NetworkTypeOK'
  BY ProposerTakesType
     DEF TypeInv, TypeOK, ProposingTimesOut, ProposingRejects, NetworkTypeOK,
         networkVars
<1>3. ProposerTypeOK'
  BY <1>1, FailType DEF TypeInv, TypeOK, ProposerTypeOK
<1>4. BusyHasRequest'
  BY <1>1, FailType
     DEF TypeInv, TypeOK, BusyHasRequest, HasRequest, Answered
<1> QED
  BY <1>2, <1>3, <1>4

LEMMA SkipsType ==
  ASSUME TypeInv, NEW s \in Server, ProposingSkips(s) \/ AcceptingSkips(s)
  PROVE  NetworkTypeOK' /\ ProposerTypeOK' /\ BusyHasRequest'
<1>1. PICK m \in proposer_queue[s] : HandleMessage(s, m)
  BY DEF ProposingSkips, AcceptingSkips
<1>2. NetworkTypeOK'
      /\ proposer_msg_history' \in [Server -> SUBSET ProposerMessage]
  BY <1>1, HandleType
<1>3. ProposerTypeOK' /\ BusyHasRequest'
  BY <1>2 DEF TypeInv, TypeOK, ProposerTypeOK, BusyHasRequest, HasRequest,
              Answered, ProposingSkips, AcceptingSkips
<1> QED
  BY <1>2, <1>3

LEMMA CountResponseType ==
  ASSUME TypeInv, NEW s \in Server, NEW m \in proposer_queue[s],
         CountResponse(s, m)
  PROVE  /\ NetworkTypeOK'
         /\ proposer_msg_history' \in [Server -> SUBSET ProposerMessage]
         /\ response_cnt' \in [Server -> Nat]
         /\ pre_nacks' \in [Server -> SUBSET Nack]
<1>1. /\ NetworkTypeOK'
      /\ proposer_msg_history' \in [Server -> SUBSET ProposerMessage]
      /\ m \in ProposerMessage
  BY HandleType DEF CountResponse
<1>2. m.msg_type = "PREPARE_NACK" => m \in Nack
  BY <1>1, ProposerMessageFields
<1>3. response_cnt' \in [Server -> Nat]
  BY DEF TypeInv, TypeOK, ProposerTypeOK, CountResponse
<1>4. pre_nacks' \in [Server -> SUBSET Nack]
  <2>1. pre_nacks[s] \cup (IF m.msg_type = "PREPARE_NACK" THEN {m} ELSE {})
          \in SUBSET Nack
    BY <1>2 DEF TypeInv, TypeOK, ProposerTypeOK
  <2> QED
    BY <2>1 DEF TypeInv, TypeOK, ProposerTypeOK, CountResponse
<1> QED
  BY <1>1, <1>3, <1>4

LEMMA ProposingCountsType ==
  ASSUME TypeInv, NEW s \in Server, ProposingCounts(s)
  PROVE  NetworkTypeOK' /\ ProposerTypeOK' /\ BusyHasRequest'
<1>1. PICK m \in proposer_queue[s] : CountResponse(s, m)
  BY DEF ProposingCounts
<1>2. ProposerTypeOK' /\ NetworkTypeOK'
  BY <1>1, CountResponseType
     DEF TypeInv, TypeOK, ProposerTypeOK, CountResponse, ProposingCounts
<1>3. BusyHasRequest'
  BY <1>1 DEF TypeInv, BusyHasRequest, HasRequest, Answered, CountResponse,
              ProposingCounts
<1> QED
  BY <1>2, <1>3

LEMMA ProposingLearnsType ==
  ASSUME TypeInv, NEW s \in Server, ProposingLearns(s)
  PROVE  NetworkTypeOK' /\ ProposerTypeOK' /\ BusyHasRequest'
<1>1. PICK m \in proposer_queue[s] : CountResponse(s, m)
  BY DEF ProposingLearns
<1>2. /\ NetworkTypeOK'
      /\ proposer_msg_history' \in [Server -> SUBSET ProposerMessage]
      /\ response_cnt' \in [Server -> Nat]
      /\ pre_nacks' \in [Server -> SUBSET Nack]
  BY <1>1, CountResponseType
<1>3. PICK request \in Learned(s, pre_nacks'[s]) :
        /\ learnt' = [learnt EXCEPT ![s] = request]
        /\ \/ /\ state' = [state EXCEPT ![s] = "ACCEPT"]
              /\ UNCHANGED proposer_num
           \/ FailRound(s, 1)
  BY DEF ProposingLearns
<1>4. learnt[s] \in Request /\ HasRequest(s) /\ instance[s] \in Instance
  BY DEF TypeInv, BusyHasRequest, ProposingLearns
<1>5. request \in Request
  <2>1. CASE pre_nacks'[s] = {}
    BY <1>3, <1>4, <2>1 DEF Learned
  <2>2. CASE pre_nacks'[s] # {}
    <3>1. PICK n \in pre_nacks'[s] :
            request = [command |-> n.value, client_id |-> n.client_id]
      BY <1>3, <2>2 DEF Learned, Highest
    <3>2. n \in Nack
      BY <1>2
    <3> QED
      BY <3>1, <3>2 DEF Nack, MessageOf, Request
  <2> QED
    BY <2>1, <2>2
<1>6. /\ state' \in [Server -> State] /\ proposer_num' \in [Server -> Nat]
      /\ state'[s] \in {"READY", "ACCEPT"}
      /\ \A t \in Server \ {s} : state'[t] = state[t]
  BY <1>3, FailType DEF TypeInv, TypeOK, ProposerTypeOK, State
<1>7. UNCHANGED <<instance, instance_resolutions, lock_set, client_acks>>
  BY <1>1 DEF CountResponse
<1>8. ProposerTypeOK'
  BY <1>2, <1>3, <1>5, <1>6, <1>7 DEF TypeInv, TypeOK, ProposerTypeOK
<1>9. BusyHasRequest'
  BY <1>3, <1>4, <1>5, <1>6, <1>7
     DEF TypeInv, TypeOK, ProposerTypeOK, BusyHasRequest, HasRequest, Answered
<1> QED
  BY <1>2, <1>8, <1>9

LEMMA SendAcceptType ==
  ASSUME TypeInv, NEW s \in Server, SendAccept(s)
  PROVE  NetworkTypeOK' /\ ProposerTypeOK' /\ BusyHasRequest'
<1> DEFINE m == NewMessage("ACCEPT", proposer_num[s], instance[s],
                           learnt[s].command, s, learnt[s].client_id, NoProposal)
<1>1. learnt[s] \in Request /\ instance[s] \in Instance
  BY DEF TypeInv, BusyHasRequest, SendAccept
<1>2. m \in AcceptorMessage
  BY <1>1, RequestFields
     DEF AcceptorMessage, AcceptReq, MessageOf, NewMessage, TypeInv, TypeOK,
         ProposerTypeOK
<1>3. NetworkTypeOK'
  BY <1>2, SendType DEF TypeInv, TypeOK, NetworkTypeOK, SendAccept
<1>4. ProposerTypeOK' /\ BusyHasRequest'
  BY <1>1 DEF TypeInv, TypeOK, SendAccept, ProposerTypeOK, State,
              BusyHasRequest, HasRequest, Answered
<1> QED
  BY <1>3, <1>4

LEMMA AcceptingTimesOutType ==
  ASSUME TypeInv, NEW s \in Server, AcceptingTimesOut(s)
  PROVE  NetworkTypeOK' /\ ProposerTypeOK' /\ BusyHasRequest'
<1>1. NetworkTypeOK'
  BY DEF TypeInv, TypeOK, AcceptingTimesOut, NetworkTypeOK, networkVars
<1>2. ProposerTypeOK'
  BY FailType DEF TypeInv, TypeOK, ProposerTypeOK, AcceptingTimesOut
<1>3. BusyHasRequest'
  BY FailType DEF TypeInv, TypeOK, BusyHasRequest, HasRequest, Answered,
                  AcceptingTimesOut
<1> QED
  BY <1>1, <1>2, <1>3

LEMMA AcceptingCountsType ==
  ASSUME TypeInv, NEW s \in Server, AcceptingCounts(s)
  PROVE  NetworkTypeOK' /\ ProposerTypeOK' /\ BusyHasRequest'
<1>1. PICK m \in proposer_queue[s] : HandleMessage(s, m)
  BY DEF AcceptingCounts
<1>2. NetworkTypeOK'
      /\ proposer_msg_history' \in [Server -> SUBSET ProposerMessage]
  BY <1>1, HandleType
<1>3. response_cnt' \in [Server -> Nat]
  BY DEF TypeInv, TypeOK, ProposerTypeOK, AcceptingCounts
<1>4. ProposerTypeOK'
  BY <1>2, <1>3 DEF TypeInv, TypeOK, ProposerTypeOK, AcceptingCounts
<1>5. BusyHasRequest'
  BY DEF TypeInv, BusyHasRequest, HasRequest, Answered, AcceptingCounts
<1> QED
  BY <1>2, <1>4, <1>5

\* The three outcomes of a resolved instance.
LEMMA AcceptingResolvesType ==
  ASSUME TypeInv, NEW s \in Server, AcceptingResolves(s)
  PROVE  NetworkTypeOK' /\ ProposerTypeOK' /\ BusyHasRequest'
<1>1. PICK m \in proposer_queue[s] :
        /\ CountsInAccepting(s, m) /\ HandleMessage(s, m)
        /\ AnswerClient(s, m)
        /\ instance_resolutions' =
             [instance_resolutions EXCEPT ![s][instance[s]] =
                [command |-> learnt[s].command, client_id |-> m.client_id]]
  BY DEF AcceptingResolves
<1>2. /\ NetworkTypeOK'
      /\ proposer_msg_history' \in [Server -> SUBSET ProposerMessage]
      /\ m \in ProposerMessage
  BY <1>1, HandleType
<1>3. m.client_id \in ClientId
  BY <1>1, <1>2, ProposerMessageFields DEF CountsInAccepting
<1>4. learnt[s] \in Request /\ HasRequest(s) /\ instance[s] \in Instance
      /\ OwnRequest(s) \in Request
  BY OwnRequestType DEF TypeInv, TypeOK, BusyHasRequest, AcceptingResolves
<1>5. instance_resolutions' \in [Server -> [Instance -> Request \cup {None}]]
  <2>1. [command |-> learnt[s].command, client_id |-> m.client_id] \in Request
    BY <1>3, <1>4 DEF Request
  <2> QED
    BY <1>1, <1>4, <2>1 DEF TypeInv, TypeOK, ProposerTypeOK
<1>6. /\ client_acks' \in [Server -> Seq(ClientAck)]
      /\ \A t \in Server \ {s} : client_acks'[t] = client_acks[t]
      /\ learnt[s] # OwnRequest(s) => client_acks' = client_acks
  <2>1. [instance |-> instance[s], value |-> OwnRequest(s).command,
         client_id |-> m.client_id] \in ClientAck
    BY <1>3, <1>4, RequestFields DEF ClientAck
  <2>2. client_acks[s] \in Seq(ClientAck)
    BY DEF TypeInv, TypeOK, ProposerTypeOK
  <2>3. Append(client_acks[s],
               [instance |-> instance[s], value |-> OwnRequest(s).command,
                client_id |-> m.client_id]) \in Seq(ClientAck)
    BY <2>1, <2>2
  <2> QED
    BY <1>1, <2>3 DEF AnswerClient, TypeInv, TypeOK, ProposerTypeOK
<1>7. /\ response_cnt' \in [Server -> Nat] /\ proposer_num' \in [Server -> Nat]
      /\ pre_nacks' = pre_nacks
  <2>1. \A n \in Nat : n + N \in Nat
    BY GroupAssumption
  <2> QED
    BY <2>1 DEF AcceptingResolves, TypeInv, TypeOK, ProposerTypeOK
<1>8. /\ state' \in [Server -> State] /\ learnt' \in [Server -> Request \cup {None}]
      /\ instance' \in [Server -> 0 .. MaxInstance]
      /\ lock_set' \in [Server -> SUBSET Resource]
      /\ learnt'[s] \in Request
      /\ state'[s] \in {"IDLE", "READY", "DEAD"}
      /\ state'[s] = "READY" => learnt[s] # OwnRequest(s)
      /\ \A t \in Server \ {s} : /\ state'[t] = state[t] /\ learnt'[t] = learnt[t]
                                 /\ instance'[t] = instance[t]
  <2>1. CASE /\ Execute(s, learnt[s].command)
             /\ instance' = [instance EXCEPT ![s] = @ + 1]
             /\ learnt' = [learnt EXCEPT ![s] = OwnRequest(s)]
             /\ state' = [state EXCEPT ![s] =
                            IF learnt[s] = OwnRequest(s) THEN "IDLE" ELSE "READY"]
    <3>1. learnt[s].command.resource_id \in Resource
      BY <1>4 DEF Request, Command
    <3>2. instance[s] + 1 \in 0 .. MaxInstance
      BY <1>4, BoundAssumption DEF Instance
    <3>3. lock_set' \in [Server -> SUBSET Resource]
      BY <2>1, <3>1 DEF Execute, TypeInv, TypeOK, ProposerTypeOK
    <3> QED
      BY <2>1, <3>2, <3>3, <1>4 DEF TypeInv, TypeOK, ProposerTypeOK, State
  <2>2. CASE /\ state' = [state EXCEPT ![s] = "DEAD"]
             /\ UNCHANGED <<lock_set, instance, learnt>>
    BY <2>2, <1>4 DEF TypeInv, TypeOK, ProposerTypeOK, State
  <2> QED
    BY <2>1, <2>2 DEF AcceptingResolves, ExecuteLearnt
<1>9. ProposerTypeOK'
  BY <1>2, <1>5, <1>6, <1>7, <1>8 DEF TypeInv, TypeOK, ProposerTypeOK
<1>10. BusyHasRequest'
  BY <1>4, <1>6, <1>8
     DEF TypeInv, BusyHasRequest, HasRequest, Answered
<1> QED
  BY <1>2, <1>9, <1>10

LEMMA ProposerStepType ==
  ASSUME TypeInv, NEW s \in Server, ProposerStep(s), UNCHANGED acceptorVars
  PROVE  TypeInv'
<1>1. NetworkTypeOK' /\ ProposerTypeOK' /\ BusyHasRequest'
  BY ReceiveCommandType, SendPrepareType, ProposingFailsType, SkipsType,
     ProposingCountsType, ProposingLearnsType, SendAcceptType,
     AcceptingTimesOutType, AcceptingCountsType, AcceptingResolvesType
     DEF ProposerStep
<1>2. AcceptorTypeOK'
  BY DEF TypeInv, TypeOK, AcceptorTypeOK, acceptorVars
<1> QED
  BY <1>1, <1>2 DEF TypeInv, TypeOK

LEMMA StutterType ==
  ASSUME TypeInv, UNCHANGED vars
  PROVE  TypeInv'
BY DEF TypeInv, TypeOK, NetworkTypeOK, AcceptorTypeOK, ProposerTypeOK,
       BusyHasRequest, HasRequest, Answered, vars, networkVars, acceptorVars,
       proposerVars

LEMMA NextType ==
  ASSUME TypeInv, [Next]_vars
  PROVE  TypeInv'
BY AcceptorStepType, ProposerStepType, DropType, StutterType DEF Next

\* Every variable of the group keeps its type, and a proposer that is not idle
\* has a request to serve: no handler of server.py meets a message, a history
\* entry or a learnt command of the wrong kind.
THEOREM TypeCorrect == Spec => [](TypeOK /\ BusyHasRequest)
<1>1. Init => TypeInv
  BY InitType
<1>2. TypeInv /\ [Next]_vars => TypeInv'
  BY NextType
<1> QED
  BY <1>1, <1>2, PTL DEF Spec, TypeInv

----------------------------------------------------------------------------
(* Majorities *)

LEMMA ServerFinite == IsFiniteSet(Server) /\ Cardinality(Server) = N
<1>1. N - 1 \in Int /\ 0 \in Int /\ N - 1 >= 0 /\ (N - 1) - 0 + 1 = N
  BY GroupAssumption
<1> QED
  BY <1>1, FS_Interval DEF Server

LEMMA GrantersFinite ==
  ASSUME NEW S \in SUBSET Server
  PROVE  IsFiniteSet(S) /\ Cardinality(S) \in Nat /\ Cardinality(S) <= N
BY ServerFinite, FS_Subset, FS_CardinalityType

\* Two majorities of servers have a server in common.
LEMMA MajoritiesMeet ==
  ASSUME NEW S \in SUBSET Server, NEW T \in SUBSET Server,
         Majority(Cardinality(S)), Majority(Cardinality(T))
  PROVE  \E a \in Server : a \in S /\ a \in T
<1>1. Cardinality(S) \in Nat /\ Cardinality(T) \in Nat
  BY GrantersFinite
<1>2. Cardinality(S) + Cardinality(T) > Cardinality(Server)
  BY <1>1, ServerFinite, GroupAssumption DEF Majority
<1>3. S \cap T # {}
  BY <1>2, ServerFinite, FS_MajoritiesIntersect
<1> QED
  BY <1>3

LEMMA EmptyIsNoMajority ==
  ~Majority(Cardinality({}))
BY FS_EmptySet, GroupAssumption DEF Majority

----------------------------------------------------------------------------
(* What the steps do to the messages *)

\* A proposer's step adds nothing to what proposers receive, and forgets
\* nothing of what they have handled.
LEMMA HandleInbox ==
  ASSUME TypeInv, NEW s \in Server, NEW m \in proposer_queue[s],
         HandleMessage(s, m)
  PROVE  /\ proposer_msg_history' =
              [proposer_msg_history EXCEPT ![s] = @ \cup {m}]
         /\ acceptor_queue' = acceptor_queue
         /\ \A t \in Server : proposer_queue'[t] \subseteq proposer_queue[t]
         /\ \A t \in Server : Inbox(t)' \subseteq Inbox(t)
         /\ \A t \in Server :
              proposer_msg_history[t] \subseteq proposer_msg_history'[t]
BY ProposerTakesType
   DEF HandleMessage, Inbox, TypeInv, TypeOK, ProposerTypeOK

LEMMA ProposerInbox ==
  ASSUME TypeInv, NEW s \in Server, ProposerStep(s)
  PROVE  /\ \A t \in Server : proposer_queue'[t] \subseteq proposer_queue[t]
         /\ \A t \in Server : Inbox(t)' \subseteq Inbox(t)
         /\ \A t \in Server :
              proposer_msg_history[t] \subseteq proposer_msg_history'[t]
<1>1. CASE \E m \in proposer_queue[s] : HandleMessage(s, m)
  BY <1>1, HandleInbox
<1>2. CASE ProposingRejects(s)
  BY <1>2, ProposerTakesType DEF ProposingRejects, Inbox, TypeInv, TypeOK
<1>3. CASE UNCHANGED <<proposer_queue, proposer_msg_history>>
  BY <1>3 DEF Inbox
<1> QED
  BY <1>1, <1>2, <1>3
     DEF ProposerStep, ReceiveCommand, SendPrepare, ProposingTimesOut,
         ProposingSkips, ProposingCounts, ProposingLearns, CountResponse,
         SendAccept, AcceptingTimesOut, AcceptingSkips, AcceptingCounts,
         AcceptingResolves, networkVars

\* An acceptor's step gives at most one answer n, to the sender of a message m
\* in its queue and for the instance of m.  It grants an instance only when it
\* has no history for it, and answers only with requests that circulate.
Answers(a, m, n) ==
  /\ n.instance = m.instance /\ n.origin_id = a
  /\ \A t \in Server :
       proposer_queue'[t] \subseteq
         proposer_queue[t] \cup (IF t = m.origin_id THEN {n} ELSE {})
  /\ IsGrant(n) => ~Touched(a, m.instance) /\ Touched(a, m.instance)'
  /\ CarriesRequest(n) => Circulates(Carried(n), m.instance)

AcceptorEffect(a) ==
  /\ \A b \in Server : acceptor_queue'[b] \subseteq acceptor_queue[b]
  /\ \A b \in Server, i \in Instance : Touched(b, i) => Touched(b, i)'
  /\ \A b \in Server, i \in Instance : HasAccepted(b, i) => HasAccepted(b, i)'
  /\ \A r \in Request, i \in Instance : IsAccepted(r, i)' => Circulates(r, i)
  /\ \/ proposer_queue' = proposer_queue
     \/ \E m \in acceptor_queue[a] : \E n \in ProposerMessage : Answers(a, m, n)

\* The history changes at one instance of one acceptor only.
LEMMA RecordEffect ==
  ASSUME AcceptorTypeOK, NEW a \in Server, NEW i \in Instance,
         NEW p, NEW q, NEW v, NEW c,
         [h_prep |-> p, h_accp |-> q, h_accv |-> v, cid |-> c] \in HistoryEntry,
         RecordHistory(a, i, p, q, v, c)
  PROVE  /\ \A b \in Server, j \in Instance : Touched(b, j) => Touched(b, j)'
         /\ Touched(a, i)'
         /\ accept_history'[a][i] =
              [h_prep |-> p, h_accp |-> q, h_accv |-> v, cid |-> c]
         /\ \A b \in Server, j \in Instance :
              b # a \/ j # i => accept_history'[b][j] = accept_history[b][j]
BY NoHistoryAssumption DEF RecordHistory, Touched, AcceptorTypeOK

LEMMA AcceptorStepEffect ==
  ASSUME TypeInv, NEW a \in Server, AcceptorStep(a), UNCHANGED proposerVars
  PROVE  AcceptorEffect(a)
<1> USE DEF TypeInv, TypeOK
<1>1. ASSUME NEW m \in acceptor_queue[a], TakeFresh(a, m)
      PROVE  /\ \A b \in Server : acceptor_queue'[b] \subseteq acceptor_queue[b]
             /\ m \in AcceptorMessage /\ m.origin_id \in Server
             /\ m.instance \in Instance /\ m.proposal \in Nat
  BY <1>1, AcceptorTakesType, AcceptorMessageFields DEF TakeFresh, NetworkTypeOK
<1>2. CASE UNCHANGED <<accept_history, proposer_queue>>
  <2>1. \A b \in Server : acceptor_queue'[b] \subseteq acceptor_queue[b]
    BY <1>1, AcceptorTakesType
       DEF AcceptorStep, DuplicateToAcceptor, PrepareFirst, PrepareHigher,
           PrepareIgnored, Accept, AcceptIgnored
  <2> QED
    BY <1>2, <2>1
       DEF AcceptorEffect, Touched, IsAccepted, HasAccepted, Circulates
<1>3. CASE PrepareFirst(a)
  <2>1. PICK m \in acceptor_queue[a] :
          /\ m.msg_type = "PREPARE" /\ ~Touched(a, m.instance)
          /\ TakeFresh(a, m)
          /\ ResponseProposer(m.origin_id, FirstAnswer(a, m))
          /\ RecordHistory(a, m.instance, m.proposal, NoProposal, None, None)
    BY <1>3 DEF PrepareFirst
  <2> DEFINE n == FirstAnswer(a, m)
  <2>2. /\ \A b \in Server : acceptor_queue'[b] \subseteq acceptor_queue[b]
        /\ m \in AcceptorMessage /\ m.origin_id \in Server
        /\ m.instance \in Instance /\ m.proposal \in Nat
    BY <2>1, <1>1
  <2>3. n \in ProposerMessage
    BY <2>2, AcceptorMessageFields
       DEF FirstAnswer, NewMessage, ProposerMessage, FirstAck, MessageOf
  <2>4. [h_prep |-> m.proposal, h_accp |-> NoProposal, h_accv |-> None,
         cid |-> None] \in HistoryEntry
    BY <2>2 DEF HistoryEntry, Promised
  <2>5. /\ \A b \in Server, j \in Instance : Touched(b, j) => Touched(b, j)'
        /\ Touched(a, m.instance)'
        /\ accept_history'[a][m.instance].h_accp = NoProposal
        /\ \A b \in Server, j \in Instance :
             b # a \/ j # m.instance => accept_history'[b][j] = accept_history[b][j]
    BY <2>1, <2>2, <2>4, RecordEffect
  <2>6. /\ \A r \in Request, i \in Instance : IsAccepted(r, i)' => IsAccepted(r, i)
        /\ \A b \in Server, i \in Instance : HasAccepted(b, i) => HasAccepted(b, i)'
    BY <2>1, <2>5 DEF IsAccepted, HasAccepted, Touched
  <2>7. \A t \in Server :
          proposer_queue'[t] \subseteq
            proposer_queue[t] \cup (IF t = m.origin_id THEN {n} ELSE {})
    BY <2>1, <2>2, <2>3, ResponseType, ZenonT(60)
  <2>8. Answers(a, m, n)
    BY <2>1, <2>5, <2>7 DEF Answers, FirstAnswer, NewMessage, CarriesRequest
  <2> QED
    BY <2>2, <2>3, <2>5, <2>6, <2>8 DEF AcceptorEffect, Circulates
<1>4. CASE PrepareHigher(a)
  <2>1. PICK m \in acceptor_queue[a] :
          /\ m.msg_type = "PREPARE" /\ Touched(a, m.instance)
          /\ m.proposal > accept_history[a][m.instance].h_prep
          /\ TakeFresh(a, m)
          /\ ResponseProposer(m.origin_id, LaterAnswer(a, m))
          /\ LET h == accept_history[a][m.instance]
             IN  RecordHistory(a, m.instance, m.proposal, h.h_accp, h.h_accv, h.cid)
    BY <1>4 DEF PrepareHigher
  <2> DEFINE h == accept_history[a][m.instance]
             n == LaterAnswer(a, m)
  <2>2. /\ \A b \in Server : acceptor_queue'[b] \subseteq acceptor_queue[b]
        /\ m \in AcceptorMessage /\ m.origin_id \in Server
        /\ m.instance \in Instance /\ m.proposal \in Nat
    BY <2>1, <1>1
  <2>3. /\ h \in HistoryEntry
        /\ h.h_accp # NoProposal =>
             h.h_accp \in Nat /\ h.h_accv \in Command /\ h.cid \in ClientId
        /\ h.h_accp = NoProposal => h.h_accv = None /\ h.cid = None
    BY <2>1, <2>2, HistoryFields
  <2>4. n \in ProposerMessage
    BY <2>2, <2>3
       DEF LaterAnswer, NewMessage, ProposerMessage, Nack, RepeatAck, MessageOf
  <2>5. [h_prep |-> m.proposal, h_accp |-> h.h_accp, h_accv |-> h.h_accv,
         cid |-> h.cid] \in HistoryEntry
    BY <2>2, <2>3 DEF HistoryEntry, Promised, Accepted
  <2>6. /\ \A b \in Server, j \in Instance : Touched(b, j) => Touched(b, j)'
        /\ accept_history'[a][m.instance] =
             [h_prep |-> m.proposal, h_accp |-> h.h_accp, h_accv |-> h.h_accv,
              cid |-> h.cid]
        /\ \A b \in Server, j \in Instance :
             b # a \/ j # m.instance => accept_history'[b][j] = accept_history[b][j]
    BY <2>1, <2>2, <2>5, RecordEffect
  <2>7. /\ \A r \in Request, i \in Instance : IsAccepted(r, i)' => IsAccepted(r, i)
        /\ \A b \in Server, i \in Instance : HasAccepted(b, i) => HasAccepted(b, i)'
    BY <2>1, <2>2, <2>6 DEF IsAccepted, HasAccepted, Touched
  <2>8. \A t \in Server :
          proposer_queue'[t] \subseteq
            proposer_queue[t] \cup (IF t = m.origin_id THEN {n} ELSE {})
    BY <2>1, <2>2, <2>4, ResponseType, ZenonT(60)
  <2>9. n.instance = m.instance /\ n.origin_id = a /\ ~IsGrant(n)
    BY <2>3, NoneAssumption
       DEF LaterAnswer, NewMessage, IsGrant
  <2>10. CarriesRequest(n) => IsAccepted(Carried(n), m.instance)
    BY <2>1, <2>3
       DEF LaterAnswer, NewMessage, CarriesRequest, Carried, IsAccepted, HasAccepted
  <2>11. Answers(a, m, n)
    BY <2>8, <2>9, <2>10 DEF Answers, Circulates
  <2> QED
    BY <2>2, <2>4, <2>6, <2>7, <2>11 DEF AcceptorEffect, Circulates
<1>5. CASE Accept(a)
  <2>1. PICK m \in acceptor_queue[a] :
          /\ m.msg_type = "ACCEPT" /\ Acceptable(a, m)
          /\ TakeFresh(a, m)
          /\ ResponseProposer(m.origin_id, AcceptAnswer(a, m))
          /\ RecordHistory(a, m.instance, m.proposal, m.proposal, m.value, m.client_id)
    BY <1>5 DEF Accept
  <2> DEFINE n == AcceptAnswer(a, m)
  <2>2. /\ \A b \in Server : acceptor_queue'[b] \subseteq acceptor_queue[b]
        /\ m \in AcceptorMessage /\ m.origin_id \in Server
        /\ m.instance \in Instance /\ m.proposal \in Nat
    BY <2>1, <1>1
  <2>3. m.value \in Command /\ m.client_id \in ClientId
    BY <2>1, <2>2, AcceptorMessageFields
  <2>4. n \in ProposerMessage
    BY <2>2, <2>3
       DEF AcceptAnswer, NewMessage, ProposerMessage, AcceptAck, MessageOf
  <2>5. [h_prep |-> m.proposal, h_accp |-> m.proposal, h_accv |-> m.value,
         cid |-> m.client_id] \in HistoryEntry
    BY <2>2, <2>3 DEF HistoryEntry, Accepted
  <2>6. /\ \A b \in Server, j \in Instance : Touched(b, j) => Touched(b, j)'
        /\ accept_history'[a][m.instance] =
             [h_prep |-> m.proposal, h_accp |-> m.proposal, h_accv |-> m.value,
              cid |-> m.client_id]
        /\ \A b \in Server, j \in Instance :
             b # a \/ j # m.instance => accept_history'[b][j] = accept_history[b][j]
    BY <2>1, <2>2, <2>5, RecordEffect
  <2>7. IsSentToAcceptor(Carried(m), m.instance)
    BY <2>1 DEF IsSentToAcceptor, CarriesRequest
  <2>8. /\ \A r \in Request, i \in Instance :
             IsAccepted(r, i)' => IsAccepted(r, i) \/ (i = m.instance /\ r = Carried(m))
        /\ \A b \in Server, i \in Instance : HasAccepted(b, i) => HasAccepted(b, i)'
    BY <2>2, <2>6 DEF IsAccepted, HasAccepted, Touched, Carried, NoProposal
  <2>9. \A t \in Server :
          proposer_queue'[t] \subseteq
            proposer_queue[t] \cup (IF t = m.origin_id THEN {n} ELSE {})
    BY <2>1, <2>2, <2>4, ResponseType, ZenonT(60)
  <2>10. Answers(a, m, n)
    BY <2>7, <2>9
       DEF Answers, AcceptAnswer, NewMessage, IsGrant, Carried, Circulates
  <2> QED
    BY <2>2, <2>4, <2>6, <2>7, <2>8, <2>10 DEF AcceptorEffect, Circulates
<1> QED
  BY <1>2, <1>3, <1>4, <1>5
     DEF AcceptorStep, DuplicateToAcceptor, PrepareIgnored, AcceptIgnored, Ignore

----------------------------------------------------------------------------
(* No message of an instance that its proposer has not begun *)

LEMMA InitNothingAhead == Init => NothingAhead
BY DEF Init, NetworkInit, ProposerInit, NothingAhead, Inbox

\* A proposer's instance grows, and it is idle again only in a later one.
LEMMA AheadShrinks ==
  ASSUME TypeInv, NEW s \in Server, ProposerStep(s),
         NEW t \in Server, NEW i \in Instance, Ahead(t, i)'
  PROVE  Ahead(t, i)
<1>1. i \in Int /\ instance[t] \in Int
  BY BoundAssumption DEF Instance, TypeInv, TypeOK, ProposerTypeOK
<1>2. CASE instance' = instance /\ (state'[t] = "IDLE" => state[t] = "IDLE")
  BY <1>2 DEF Ahead
<1>3. CASE AcceptingResolves(s)
  BY <1>1, <1>3
     DEF Ahead, AcceptingResolves, ExecuteLearnt, TypeInv, TypeOK, ProposerTypeOK
<1>4. CASE ProposingLearns(s)
  <2>1. instance' = instance
    BY <1>4 DEF ProposingLearns, CountResponse
  <2>2. state'[t] = "IDLE" => state[t] = "IDLE"
    BY <1>4 DEF ProposingLearns, FailRound, TypeInv, TypeOK, ProposerTypeOK
  <2> QED
    BY <2>1, <2>2, <1>2
<1>5. CASE ReceiveCommand(s) \/ SendPrepare(s) \/ SendAccept(s)
  BY <1>2, <1>5
     DEF ReceiveCommand, SendPrepare, SendAccept, TypeInv, TypeOK, ProposerTypeOK
<1>6. CASE \/ ProposingTimesOut(s) \/ ProposingRejects(s) \/ AcceptingTimesOut(s)
  BY <1>2, <1>6
     DEF ProposingTimesOut, ProposingRejects, AcceptingTimesOut, FailRound,
         TypeInv, TypeOK, ProposerTypeOK
<1>7. CASE \/ ProposingSkips(s) \/ ProposingCounts(s)
           \/ AcceptingSkips(s) \/ AcceptingCounts(s)
  BY <1>2, <1>7
     DEF ProposingSkips, ProposingCounts, CountResponse, AcceptingSkips,
         AcceptingCounts
<1> QED
  BY <1>3, <1>4, <1>5, <1>6, <1>7 DEF ProposerStep

\* What a proposer adds to the acceptors' queues is its own and of its instance.
LEMMA SentIsOwn ==
  ASSUME TypeInv, NEW s \in Server, ProposerStep(s),
         NEW a \in Server, NEW m \in acceptor_queue'[a], m \notin acceptor_queue[a]
  PROVE  /\ m.origin_id = s /\ m.instance = instance[s] /\ m.instance \in Instance
         /\ instance'[s] = instance[s] /\ state'[s] # "IDLE"
         /\ CarriesRequest(m) =>
              state[s] = "ACCEPT" /\ Carried(m) = learnt[s]
<1>1. CASE SendPrepare(s)
  <2>1. instance[s] \in Instance
    BY <1>1, BoundAssumption
       DEF TypeInv, TypeOK, ProposerTypeOK, SendPrepare, Instance
  <2> QED
    BY <1>1, <2>1
       DEF SendPrepare, SendToAcceptors, NewMessage, CarriesRequest, TypeInv,
           TypeOK, ProposerTypeOK
<1>2. CASE SendAccept(s)
  <2>1. instance[s] \in Instance /\ learnt[s] \in Request
    BY <1>2 DEF TypeInv, BusyHasRequest, SendAccept
  <2> QED
    BY <1>2, <2>1, RequestFields
       DEF SendAccept, SendToAcceptors, NewMessage, CarriesRequest, Carried,
           TypeInv, TypeOK, ProposerTypeOK
<1>3. CASE acceptor_queue' = acceptor_queue
  BY <1>3
<1> QED
  BY <1>1, <1>2, <1>3
     DEF ProposerStep, ReceiveCommand, ProposingTimesOut, ProposingRejects,
         ProposingSkips, ProposingCounts, ProposingLearns, CountResponse,
         AcceptingTimesOut, AcceptingSkips, AcceptingCounts, AcceptingResolves,
         HandleMessage, networkVars

LEMMA ProposerNothingAhead ==
  ASSUME TypeInv, NothingAhead, NEW s \in Server, ProposerStep(s), TypeInv'
  PROVE  NothingAhead'
<1>1. ASSUME NEW t \in Server, NEW m \in Inbox(t)'
      PROVE  ~Ahead(t, m.instance)'
  <2>1. m \in Inbox(t) /\ m.instance \in Instance
    BY <1>1, ProposerInbox, ProposerMessageFields
       DEF Inbox, TypeInv, TypeOK, NetworkTypeOK, ProposerTypeOK
  <2> QED
    BY <2>1, AheadShrinks DEF NothingAhead
<1>2. ASSUME NEW t \in Server, NEW a \in Server, NEW m \in acceptor_queue'[a],
             m.origin_id = t
      PROVE  ~Ahead(t, m.instance)'
  <2>1. m.instance \in Instance
    BY <1>2, AcceptorMessageFields DEF TypeInv, TypeOK, NetworkTypeOK
  <2>2. CASE m \in acceptor_queue[a]
    BY <1>2, <2>1, <2>2, AheadShrinks DEF NothingAhead
  <2>3. CASE m \notin acceptor_queue[a]
    <3>1. t = s /\ m.instance = instance'[s] /\ state'[s] # "IDLE"
      BY <1>2, <2>3, SentIsOwn
    <3>2. instance'[s] \in Int
      BY <2>1, <3>1, BoundAssumption DEF Instance
    <3> QED
      BY <3>1, <3>2 DEF Ahead
  <2> QED
    BY <2>2, <2>3
<1> QED
  BY <1>1, <1>2 DEF NothingAhead

LEMMA AcceptorNothingAhead ==
  ASSUME TypeInv, NothingAhead, NEW a \in Server, AcceptorStep(a),
         UNCHANGED proposerVars
  PROVE  NothingAhead'
<1>1. AcceptorEffect(a)
  BY AcceptorStepEffect
<1>2. \A t \in Server, i \in Instance : Ahead(t, i)' <=> Ahead(t, i)
  BY DEF Ahead, proposerVars
<1>3. ASSUME NEW t \in Server, NEW n \in Inbox(t)'
      PROVE  ~Ahead(t, n.instance)'
  <2>1. CASE n \in Inbox(t)
    BY <2>1 DEF Ahead, NothingAhead, proposerVars
  <2>2. CASE n \notin Inbox(t)
    <3>1. PICK m \in acceptor_queue[a] :
            m.origin_id = t /\ n.instance = m.instance
      BY <1>1, <1>3, <2>2 DEF AcceptorEffect, Answers, Inbox, proposerVars
    <3> QED
      BY <3>1 DEF Ahead, NothingAhead, proposerVars
  <2> QED
    BY <2>1, <2>2
<1>4. ASSUME NEW t \in Server, NEW b \in Server, NEW m \in acceptor_queue'[b],
             m.origin_id = t
      PROVE  ~Ahead(t, m.instance)'
  BY <1>1, <1>4 DEF AcceptorEffect, Ahead, NothingAhead, proposerVars
<1> QED
  BY <1>3, <1>4 DEF NothingAhead

----------------------------------------------------------------------------
(* Every acceptor grants an instance once *)

LEMMA InitGrants == Init => GrantsAreUnique
BY DEF Init, NetworkInit, ProposerInit, GrantsAreUnique, Inbox

LEMMA ProposerGrants ==
  ASSUME TypeInv, GrantsAreUnique, NEW s \in Server, ProposerStep(s),
         UNCHANGED acceptorVars
  PROVE  GrantsAreUnique'
<1>1. \A t \in Server : Inbox(t)' \subseteq Inbox(t)
  BY ProposerInbox
<1>2. \A a, i : Touched(a, i)' <=> Touched(a, i)
  BY DEF Touched, acceptorVars
<1> QED
  BY <1>1, <1>2 DEF GrantsAreUnique, IsGrant

LEMMA AcceptorGrants ==
  ASSUME TypeInv, GrantsAreUnique, NEW a \in Server, AcceptorStep(a),
         UNCHANGED proposerVars
  PROVE  GrantsAreUnique'
<1>1. AcceptorEffect(a)
  BY AcceptorStepEffect
<1>2. \A t \in Server : \A m \in Inbox(t) :
        m.origin_id \in Server /\ m.instance \in Instance
  BY ProposerMessageFields
     DEF TypeInv, TypeOK, NetworkTypeOK, ProposerTypeOK, Inbox
<1>3. CASE proposer_queue' = proposer_queue
  <2>1. \A t \in Server : Inbox(t)' = Inbox(t)
    BY <1>3 DEF Inbox, proposerVars
  <2> QED
    BY <1>1, <1>2, <2>1 DEF GrantsAreUnique, IsGrant, AcceptorEffect
<1>4. CASE \E m \in acceptor_queue[a] : \E n \in ProposerMessage : Answers(a, m, n)
  <2>1. PICK m \in acceptor_queue[a], n \in ProposerMessage : Answers(a, m, n)
    BY <1>4
  <2>2. \A t \in Server : \A k \in Inbox(t)' :
          k \in Inbox(t) \/ (t = m.origin_id /\ k = n)
    BY <2>1 DEF Answers, Inbox, proposerVars
  <2>3. CASE IsGrant(n)
    <3>1. \A t \in Server : \A k \in Inbox(t) :
            IsGrant(k) => k.origin_id # n.origin_id \/ k.instance # n.instance
      BY <2>1, <2>3 DEF Answers, GrantsAreUnique
    <3>2. Touched(n.origin_id, n.instance)'
      BY <2>1, <2>3 DEF Answers
    <3> QED
      BY <1>1, <1>2, <2>2, <3>1, <3>2 DEF GrantsAreUnique, IsGrant, AcceptorEffect
  <2>4. CASE ~IsGrant(n)
    BY <1>1, <1>2, <2>2, <2>4 DEF GrantsAreUnique, IsGrant, AcceptorEffect
  <2> QED
    BY <2>3, <2>4
<1> QED
  BY <1>1, <1>3, <1>4 DEF AcceptorEffect

----------------------------------------------------------------------------
(* Without a NACK, the responses counted are grants *)

LEMMA InitCounts == Init => CountsAreGrants
BY DEF Init, ProposerInit, CountsAreGrants

\* Granters only grow, so they stay owners.
LEMMA GrantersGrow ==
  ASSUME \A t \in Server : proposer_msg_history[t] \subseteq proposer_msg_history'[t],
         NEW t \in Server, NEW i
  PROVE  /\ Granters(t, i) \subseteq Granters(t, i)'
         /\ Cardinality(Granters(t, i)) <= Cardinality(Granters(t, i)')
         /\ Owns(t, i) => Owns(t, i)'
<1>1. Granters(t, i) \subseteq Granters(t, i)'
  BY DEF Granters
<1>2. Granters(t, i) \in SUBSET Server /\ Granters(t, i)' \in SUBSET Server
  BY DEF Granters
<1>3. Cardinality(Granters(t, i)) <= Cardinality(Granters(t, i)')
  BY <1>1, <1>2, GrantersFinite, FS_Subset
<1>4. Cardinality(Granters(t, i)) \in Nat /\ Cardinality(Granters(t, i)') \in Nat
  BY <1>2, GrantersFinite
<1>5. Owns(t, i) => Owns(t, i)'
  BY <1>3, <1>4, GroupAssumption DEF Owns, Majority
<1> QED
  BY <1>1, <1>3, <1>5

\* Counting a PREPARE_ACK counts a granter that was not counted before.
LEMMA CountedGrant ==
  ASSUME TypeInv, NothingAhead, GrantsAreUnique, CountsAreGrants,
         NEW s \in Server, state[s] = "PROPOSING",
         NEW m \in proposer_queue[s], CountResponse(s, m), pre_nacks'[s] = {}
  PROVE  response_cnt[s] + 1 <= Cardinality(Granters(s, instance[s])')
<1> DEFINE G == Granters(s, instance[s])
<1>1. /\ ~Known(s, m) /\ m.client_id # None /\ m.instance = instance[s]
      /\ m.msg_type = "PREPARE_ACK" /\ pre_nacks[s] = {}
  <2>1. pre_nacks'[s] =
          pre_nacks[s] \cup (IF m.msg_type = "PREPARE_NACK" THEN {m} ELSE {})
    BY DEF CountResponse, TypeInv, TypeOK, ProposerTypeOK
  <2> QED
    BY <2>1 DEF CountResponse, CountsInProposing, ForThisInstance
<1>2. m \in ProposerMessage /\ m.origin_id \in Server /\ IsGrant(m)
  <2>1. m \in ProposerMessage
    BY DEF TypeInv, TypeOK, NetworkTypeOK
  <2> QED
    BY <2>1, <1>1, ProposerMessageFields DEF IsGrant
<1>3. proposer_msg_history' = [proposer_msg_history EXCEPT ![s] = @ \cup {m}]
  BY HandleInbox DEF CountResponse
<1>4. m.origin_id \notin G
  BY <1>1, <1>2 DEF Granters, GrantsAreUnique, Inbox, Known
<1>5. Granters(s, instance[s])' = G \cup {m.origin_id}
  <2>1. proposer_msg_history'[s] = proposer_msg_history[s] \cup {m}
    BY <1>3 DEF TypeInv, TypeOK, ProposerTypeOK
  <2>2. instance'[s] = instance[s]
    BY DEF CountResponse
  <2> QED
    BY <1>1, <1>2, <2>1, <2>2 DEF Granters, IsGrant
<1>6. G \in SUBSET Server
  BY DEF Granters
<1>7. Cardinality(G \cup {m.origin_id}) = Cardinality(G) + 1
  BY <1>4, <1>6, GrantersFinite, FS_AddElement
<1>8. response_cnt[s] <= Cardinality(G)
  BY <1>1 DEF CountsAreGrants
<1>9. response_cnt[s] \in Nat /\ Cardinality(G) \in Nat
  BY <1>6, GrantersFinite DEF TypeInv, TypeOK, ProposerTypeOK
<1> QED
  BY <1>5, <1>7, <1>8, <1>9

LEMMA ProposerCounts ==
  ASSUME TypeInv, NothingAhead, GrantsAreUnique, CountsAreGrants,
         NEW s \in Server, ProposerStep(s)
  PROVE  CountsAreGrants'
<1> SUFFICES ASSUME NEW t \in Server, state'[t] = "PROPOSING", pre_nacks'[t] = {}
             PROVE  response_cnt'[t] <= Cardinality(Granters(t, instance[t])')
  BY DEF CountsAreGrants
<1>1. \A u \in Server : proposer_msg_history[u] \subseteq proposer_msg_history'[u]
  BY ProposerInbox
<1>2. CASE /\ state[t] = "PROPOSING" /\ pre_nacks[t] = {}
           /\ response_cnt'[t] = response_cnt[t] /\ instance'[t] = instance[t]
  <2>1. response_cnt[t] <= Cardinality(Granters(t, instance[t]))
    BY <1>2 DEF CountsAreGrants
  <2>2. Cardinality(Granters(t, instance[t])) <=
          Cardinality(Granters(t, instance[t])')
    <3>1. PICK k \in Int : k = instance[t]
      BY DEF TypeInv, TypeOK, ProposerTypeOK
    <3>2. Cardinality(Granters(t, k)) <= Cardinality(Granters(t, k)')
      BY <1>1, GrantersGrow
    <3>3. Granters(t, instance[t]) = Granters(t, k)
          /\ Granters(t, instance[t])' = Granters(t, k)'
      BY <1>2, <3>1 DEF Granters
    <3> QED
      BY <3>2, <3>3
  <2>3. /\ Granters(t, instance[t]) \in SUBSET Server
        /\ Granters(t, instance[t])' \in SUBSET Server
    BY DEF Granters
  <2>4. /\ Cardinality(Granters(t, instance[t])) \in Nat
        /\ Cardinality(Granters(t, instance[t])') \in Nat
        /\ response_cnt[t] \in Nat
    BY <2>3, GrantersFinite DEF TypeInv, TypeOK, ProposerTypeOK
  <2> QED
    BY <1>2, <2>1, <2>2, <2>4
<1>3. CASE SendPrepare(s)
  <2>1. CASE t = s
    <3>1. Granters(t, instance[t])' \in SUBSET Server
      BY DEF Granters
    <3>2. response_cnt'[t] = 0
      BY <1>3, <2>1 DEF SendPrepare, TypeInv, TypeOK, ProposerTypeOK
    <3> QED
      BY <3>1, <3>2, GrantersFinite
  <2>2. CASE t # s
    BY <1>2, <1>3, <2>2 DEF SendPrepare, TypeInv, TypeOK, ProposerTypeOK
  <2> QED
    BY <2>1, <2>2
<1>4. CASE ProposingCounts(s)
  <2>1. CASE t = s
    <3>1. PICK m \in proposer_queue[s] : CountResponse(s, m)
      BY <1>4 DEF ProposingCounts
    <3>2. response_cnt'[s] = response_cnt[s] + 1
      BY <3>1 DEF CountResponse, TypeInv, TypeOK, ProposerTypeOK
    <3>3. response_cnt[s] + 1 <= Cardinality(Granters(s, instance[s])')
      BY <1>4, <2>1, <3>1, CountedGrant DEF ProposingCounts
    <3>4. instance' = instance
      BY <3>1 DEF CountResponse
    <3> QED
      BY <2>1, <3>2, <3>3, <3>4 DEF Granters
  <2>2. CASE t # s
    BY <1>2, <1>4, <2>2
       DEF ProposingCounts, CountResponse, TypeInv, TypeOK, ProposerTypeOK
  <2> QED
    BY <2>1, <2>2
<1>5. CASE ProposingLearns(s)
  BY <1>2, <1>5
     DEF ProposingLearns, CountResponse, FailRound, TypeInv, TypeOK, ProposerTypeOK
<1>6. CASE AcceptingResolves(s)
  BY <1>2, <1>6
     DEF AcceptingResolves, ExecuteLearnt, TypeInv, TypeOK, ProposerTypeOK
<1>7. CASE \/ ReceiveCommand(s) \/ SendAccept(s) \/ ProposingTimesOut(s)
           \/ ProposingRejects(s) \/ AcceptingTimesOut(s) \/ AcceptingCounts(s)
  BY <1>2, <1>7
     DEF ReceiveCommand, SendAccept, ProposingTimesOut, ProposingRejects,
         AcceptingTimesOut, AcceptingCounts, FailRound, TypeInv, TypeOK,
         ProposerTypeOK
<1>8. CASE ProposingSkips(s) \/ AcceptingSkips(s)
  BY <1>2, <1>8 DEF ProposingSkips, AcceptingSkips
<1> QED
  BY <1>3, <1>4, <1>5, <1>6, <1>7, <1>8 DEF ProposerStep

\* The other processes leave the counting alone.
LEMMA OtherCounts ==
  ASSUME CountsAreGrants, UNCHANGED proposerVars
  PROVE  CountsAreGrants'
BY DEF CountsAreGrants, Granters, proposerVars

----------------------------------------------------------------------------
(* One value circulates per instance *)

LEMMA InitValues == Init => OneValue /\ OwnerBringsValue
<1> SUFFICES ASSUME Init PROVE \A r, i : i \in Instance => ~Circulates(r, i)
  BY DEF OneValue, OwnerBringsValue
<1> QED
  BY DEF Init, NetworkInit, AcceptorInit, ProposerInit, Circulates, IsAccepted,
         HasAccepted, Touched, IsSentToAcceptor, IsSentToProposer, IsNacked,
         IsProposed, IsResolved, Resolved

\* Neither an acceptor nor the loss of a message brings a new value.
LEMMA AcceptorValues ==
  ASSUME TypeInv, NEW a \in Server, AcceptorStep(a), UNCHANGED proposerVars,
         NEW r \in Request, NEW i \in Instance, Circulates(r, i)'
  PROVE  Circulates(r, i)
<1>1. AcceptorEffect(a)
  BY AcceptorStepEffect
<1>2. IsAccepted(r, i)' => Circulates(r, i)
  BY <1>1 DEF AcceptorEffect
<1>3. IsSentToAcceptor(r, i)' => IsSentToAcceptor(r, i)
  BY <1>1 DEF AcceptorEffect, IsSentToAcceptor, CarriesRequest, Carried
<1>4. IsSentToProposer(r, i)' => Circulates(r, i)
  <2>1. CASE proposer_queue' = proposer_queue
    BY <2>1 DEF IsSentToProposer, CarriesRequest, Carried, Circulates
  <2>2. CASE \E m \in acceptor_queue[a] : \E n \in ProposerMessage : Answers(a, m, n)
    <3>1. PICK m \in acceptor_queue[a], n \in ProposerMessage : Answers(a, m, n)
      BY <2>2
    <3>2. \A t \in Server : \A k \in proposer_queue'[t] :
            k \in proposer_queue[t] \/ k = n
      BY <3>1 DEF Answers
    <3>3. CarriesRequest(n) => Circulates(Carried(n), n.instance)
      BY <3>1 DEF Answers
    <3>4. SUFFICES ASSUME NEW t \in Server, NEW k \in proposer_queue'[t],
                          CarriesRequest(k), k.instance = i, r = Carried(k)
                   PROVE  Circulates(r, i)
      BY DEF IsSentToProposer, CarriesRequest, Carried
    <3>5. CASE k \in proposer_queue[t]
      BY <3>4, <3>5 DEF IsSentToProposer, Circulates
    <3>6. CASE k = n
      BY <3>3, <3>4, <3>6
    <3> QED
      BY <3>2, <3>5, <3>6
  <2> QED
    BY <1>1, <2>1, <2>2 DEF AcceptorEffect
<1>5. IsNacked(r, i)' => IsNacked(r, i)
  BY DEF IsNacked, Carried, proposerVars
<1>6. IsProposed(r, i)' => IsProposed(r, i)
  BY DEF IsProposed, proposerVars
<1>7. IsResolved(r, i)' => IsResolved(r, i)
  BY DEF IsResolved, Resolved, proposerVars
<1> QED
  BY <1>2, <1>3, <1>4, <1>5, <1>6, <1>7 DEF Circulates

LEMMA DropValues ==
  ASSUME TypeInv, NEW s \in Server, DropToAcceptor(s) \/ DropToProposer(s),
         UNCHANGED <<acceptorVars, proposerVars>>
  PROVE  /\ \A t \in Server : /\ acceptor_queue'[t] \subseteq acceptor_queue[t]
                              /\ proposer_queue'[t] \subseteq proposer_queue[t]
         /\ \A r, i : Circulates(r, i)' => Circulates(r, i)
<1>1. \A t \in Server : /\ acceptor_queue'[t] \subseteq acceptor_queue[t]
                        /\ proposer_queue'[t] \subseteq proposer_queue[t]
  BY DEF DropToAcceptor, DropToProposer, TypeInv, TypeOK, NetworkTypeOK
<1>2. \A r, i : IsAccepted(r, i)' => IsAccepted(r, i)
  BY DEF IsAccepted, HasAccepted, Touched, acceptorVars
<1>3. \A r, i : IsSentToAcceptor(r, i)' => IsSentToAcceptor(r, i)
  BY <1>1 DEF IsSentToAcceptor, CarriesRequest, Carried
<1>4. \A r, i : IsSentToProposer(r, i)' => IsSentToProposer(r, i)
  BY <1>1 DEF IsSentToProposer, CarriesRequest, Carried
<1>5. \A r, i : IsNacked(r, i)' => IsNacked(r, i)
  BY DEF IsNacked, Carried, proposerVars
<1>6. \A r, i : IsProposed(r, i)' => IsProposed(r, i)
  BY DEF IsProposed, proposerVars
<1>7. \A r, i : IsResolved(r, i)' => IsResolved(r, i)
  BY DEF IsResolved, Resolved, proposerVars
<1> QED
  BY <1>1, <1>2, <1>3, <1>4, <1>5, <1>6, <1>7 DEF Circulates

\* What a proposer's step leaves in the places of IsNacked and IsProposed.
LEMMA CountedNack ==
  ASSUME TypeInv, NEW s \in Server, state[s] = "PROPOSING",
         NEW m \in proposer_queue[s], CountResponse(s, m),
         NEW n \in pre_nacks'[s]
  PROVE  Circulates(Carried(n), instance[s])
<1>1. n \in pre_nacks[s] \/ (n = m /\ m.msg_type = "PREPARE_NACK")
  BY DEF CountResponse, TypeInv, TypeOK, ProposerTypeOK
<1>2. CASE n \in pre_nacks[s]
  BY <1>2 DEF IsNacked, Circulates
<1>3. CASE n = m /\ m.msg_type = "PREPARE_NACK"
  <2>1. m.instance = instance[s] /\ CarriesRequest(m)
    BY <1>3 DEF CountResponse, CountsInProposing, ForThisInstance, CarriesRequest
  <2> QED
    BY <1>3, <2>1 DEF IsSentToProposer, Circulates
<1> QED
  BY <1>1, <1>2, <1>3

\* Only a proposer that has just won its round brings a value.
LEMMA ProposerValues ==
  ASSUME TypeInv, OneValue, NEW s \in Server, ProposerStep(s),
         UNCHANGED acceptorVars, TypeInv',
         NEW r \in Request, NEW i \in Instance, Circulates(r, i)'
  PROVE  \/ Circulates(r, i)
         \/ ProposingLearns(s) /\ i = instance[s] /\ r = learnt'[s]
<1>1. IsAccepted(r, i)' => IsAccepted(r, i)
  BY DEF IsAccepted, HasAccepted, Touched, acceptorVars
<1>2. IsSentToAcceptor(r, i)' => Circulates(r, i)
  <2> SUFFICES ASSUME NEW a \in Server, NEW m \in acceptor_queue'[a],
                      CarriesRequest(m), m.instance = i, r = Carried(m)
               PROVE  Circulates(r, i)
    BY DEF IsSentToAcceptor, CarriesRequest, Carried
  <2>1. CASE m \in acceptor_queue[a]
    BY <2>1 DEF IsSentToAcceptor, Circulates
  <2>2. CASE m \notin acceptor_queue[a]
    BY <2>2, SentIsOwn DEF IsProposed, Circulates
  <2> QED
    BY <2>1, <2>2
<1>3. IsSentToProposer(r, i)' => IsSentToProposer(r, i)
  BY ProposerInbox DEF IsSentToProposer, CarriesRequest, Carried
<1>4. IsNacked(r, i)' => Circulates(r, i)
  <2> SUFFICES ASSUME NEW t \in Server, instance'[t] = i,
                      state'[t] = "PROPOSING",
                      NEW n \in pre_nacks'[t], r = Carried(n)
               PROVE  Circulates(r, i)
    BY DEF IsNacked, Carried
  <2>1. CASE /\ instance'[t] = instance[t] /\ state[t] = "PROPOSING"
             /\ n \in pre_nacks[t]
    BY <2>1 DEF IsNacked, Circulates
  <2>2. CASE ProposingCounts(s)
    <3>1. PICK m \in proposer_queue[s] : CountResponse(s, m)
      BY <2>2 DEF ProposingCounts
    <3>2. instance' = instance /\ state' = state
      BY <2>2, <3>1 DEF ProposingCounts, CountResponse
    <3>3. CASE t = s
      BY <2>2, <3>1, <3>2, <3>3, CountedNack DEF ProposingCounts
    <3>4. CASE t # s
      BY <2>1, <3>1, <3>2, <3>4
         DEF CountResponse, TypeInv, TypeOK, ProposerTypeOK
    <3> QED
      BY <3>3, <3>4
  <2>3. CASE SendPrepare(s)
    BY <2>1, <2>3 DEF SendPrepare, TypeInv, TypeOK, ProposerTypeOK
  <2>4. CASE ProposingLearns(s)
    BY <2>1, <2>4
       DEF ProposingLearns, CountResponse, FailRound, TypeInv, TypeOK,
           ProposerTypeOK
  <2>5. CASE AcceptingResolves(s)
    BY <2>1, <2>5
       DEF AcceptingResolves, ExecuteLearnt, TypeInv, TypeOK, ProposerTypeOK
  <2>6. CASE \/ ReceiveCommand(s) \/ SendAccept(s) \/ ProposingTimesOut(s)
             \/ ProposingRejects(s) \/ AcceptingTimesOut(s)
    BY <2>1, <2>6
       DEF ReceiveCommand, SendAccept, ProposingTimesOut, ProposingRejects,
           AcceptingTimesOut, FailRound, TypeInv, TypeOK, ProposerTypeOK
  <2>7. CASE ProposingSkips(s) \/ AcceptingSkips(s) \/ AcceptingCounts(s)
    BY <2>1, <2>7 DEF ProposingSkips, AcceptingSkips, AcceptingCounts
  <2> QED
    BY <2>2, <2>3, <2>4, <2>5, <2>6, <2>7 DEF ProposerStep
<1>5. IsProposed(r, i)' =>
        \/ IsProposed(r, i)
        \/ ProposingLearns(s) /\ i = instance[s] /\ r = learnt'[s]
  <2> SUFFICES ASSUME NEW t \in Server, instance'[t] = i,
                      state'[t] \in {"ACCEPT", "ACCEPTING"}, r = learnt'[t]
               PROVE  \/ IsProposed(r, i)
                      \/ ProposingLearns(s) /\ i = instance[s] /\ r = learnt'[s]
    BY DEF IsProposed
  <2>1. CASE /\ instance'[t] = instance[t] /\ learnt'[t] = learnt[t]
             /\ state[t] \in {"ACCEPT", "ACCEPTING"}
    BY <2>1 DEF IsProposed
  <2>2. CASE ProposingLearns(s)
    <3>1. instance' = instance
      BY <2>2 DEF ProposingLearns, CountResponse
    <3>2. t # s => learnt'[t] = learnt[t] /\ state'[t] = state[t]
      BY <2>2
         DEF ProposingLearns, FailRound, TypeInv, TypeOK, ProposerTypeOK
    <3> QED
      BY <2>1, <2>2, <3>1, <3>2
  <2>3. CASE AcceptingResolves(s)
    BY <2>1, <2>3, SMTT(30)
       DEF AcceptingResolves, ExecuteLearnt, TypeInv, TypeOK, ProposerTypeOK
  <2>4. CASE \/ ReceiveCommand(s) \/ SendPrepare(s) \/ SendAccept(s)
             \/ ProposingTimesOut(s) \/ ProposingRejects(s) \/ AcceptingTimesOut(s)
    BY <2>1, <2>4
       DEF ReceiveCommand, SendPrepare, SendAccept, ProposingTimesOut,
           ProposingRejects, AcceptingTimesOut, FailRound, TypeInv, TypeOK,
           ProposerTypeOK
  <2>5. CASE \/ ProposingSkips(s) \/ ProposingCounts(s)
             \/ AcceptingSkips(s) \/ AcceptingCounts(s)
    BY <2>1, <2>5
       DEF ProposingSkips, ProposingCounts, CountResponse, AcceptingSkips,
           AcceptingCounts
  <2> QED
    BY <2>2, <2>3, <2>4, <2>5 DEF ProposerStep
<1>6. IsResolved(r, i)' => Circulates(r, i)
  <2> SUFFICES ASSUME NEW t \in Server, Resolved(t, i)',
                      r = instance_resolutions'[t][i]
               PROVE  Circulates(r, i)
    BY DEF IsResolved
  <2>1. CASE instance_resolutions'[t][i] = instance_resolutions[t][i]
    BY <2>1 DEF IsResolved, Resolved, Circulates
  <2>2. CASE AcceptingResolves(s)
    <3>1. PICK m \in proposer_queue[s] :
            /\ CountsInAccepting(s, m)
            /\ instance_resolutions' =
                 [instance_resolutions EXCEPT ![s][instance[s]] =
                    [command |-> learnt[s].command, client_id |-> m.client_id]]
      BY <2>2 DEF AcceptingResolves
    <3>2. learnt[s] \in Request /\ instance[s] \in Instance
          /\ state[s] = "ACCEPTING"
      BY <2>2 DEF TypeInv, BusyHasRequest, AcceptingResolves
    <3>3. m \in ProposerMessage /\ m.instance = instance[s]
          /\ m.msg_type = "ACCEPT_ACK"
      BY <3>1
         DEF TypeInv, TypeOK, NetworkTypeOK, CountsInAccepting, ForThisInstance
    <3>4. Carried(m) \in Request
      BY <3>3, ProposerMessageFields DEF Carried, Request
    <3>5. Circulates(Carried(m), instance[s])
      BY <3>3 DEF IsSentToProposer, CarriesRequest, Circulates
    <3>6. Circulates(learnt[s], instance[s])
      BY <3>2 DEF IsProposed, Circulates
    <3>7. Carried(m) = learnt[s]
      BY <3>2, <3>4, <3>5, <3>6 DEF OneValue
    <3>8. [command |-> learnt[s].command, client_id |-> m.client_id] = learnt[s]
      BY <3>2, <3>7, RequestFields DEF Carried
    <3>9. CASE t = s /\ i = instance[s]
      BY <3>1, <3>2, <3>6, <3>8, <3>9 DEF TypeInv, TypeOK, ProposerTypeOK
    <3>10. CASE ~(t = s /\ i = instance[s])
      BY <2>1, <3>1, <3>2, <3>10 DEF TypeInv, TypeOK, ProposerTypeOK
    <3> QED
      BY <3>9, <3>10
  <2>3. CASE instance_resolutions' = instance_resolutions
    BY <2>1, <2>3
  <2> QED
    BY <2>2, <2>3
       DEF ProposerStep, ReceiveCommand, SendPrepare, ProposingTimesOut,
           ProposingRejects, ProposingSkips, ProposingCounts, ProposingLearns,
           CountResponse, SendAccept, AcceptingTimesOut, AcceptingSkips,
           AcceptingCounts
<1> QED
  BY <1>1, <1>2, <1>3, <1>4, <1>5, <1>6 DEF Circulates

\* An owner has begun its instance, and as long as it is there it changes what
\* it has learnt only for a value that circulates.
LEMMA OwnerBegun ==
  ASSUME NothingAhead, NEW t \in Server, NEW i \in Instance, Owns(t, i)
  PROVE  ~Ahead(t, i)
<1>1. Granters(t, i) # {}
  BY EmptyIsNoMajority DEF Owns
<1> QED
  BY <1>1 DEF Granters, NothingAhead, Inbox

LEMMA LearntKept ==
  ASSUME TypeInv, NothingAhead, NEW s \in Server, ProposerStep(s),
         NEW t \in Server, NEW i \in Instance, Owns(t, i), instance'[t] = i
  PROVE  /\ instance[t] = i
         /\ \/ learnt'[t] = learnt[t]
            \/ /\ ProposingLearns(s) /\ t = s /\ pre_nacks'[s] # {}
               /\ Circulates(learnt'[t], i)
<1>1. ~Ahead(t, i)
  BY OwnerBegun
<1>2. i \in Int /\ instance[t] \in Int
  BY BoundAssumption DEF Instance, TypeInv, TypeOK, ProposerTypeOK
<1>3. CASE instance'[t] = instance[t] /\ learnt'[t] = learnt[t]
  BY <1>3
<1>4. CASE ReceiveCommand(s)
  BY <1>1, <1>3, <1>4
     DEF ReceiveCommand, Ahead, TypeInv, TypeOK, ProposerTypeOK
<1>5. CASE AcceptingResolves(s)
  <2>1. instance'[t] = instance[t] + 1 \/ UNCHANGED <<instance[t], learnt[t]>>
    BY <1>5
       DEF AcceptingResolves, ExecuteLearnt, TypeInv, TypeOK, ProposerTypeOK
  <2> QED
    BY <1>1, <1>2, <1>3, <2>1 DEF Ahead
<1>6. CASE ProposingLearns(s)
  <2>1. PICK m \in proposer_queue[s] : CountResponse(s, m)
    BY <1>6 DEF ProposingLearns
  <2>2. PICK request \in Learned(s, pre_nacks'[s]) :
          learnt' = [learnt EXCEPT ![s] = request]
    BY <1>6 DEF ProposingLearns
  <2>3. instance' = instance /\ state[s] = "PROPOSING"
    BY <1>6, <2>1 DEF ProposingLearns, CountResponse
  <2>4. CASE t # s
    BY <1>3, <2>2, <2>3, <2>4 DEF TypeInv, TypeOK, ProposerTypeOK
  <2>5. CASE t = s /\ pre_nacks'[s] = {}
    BY <1>3, <2>2, <2>3, <2>5 DEF Learned, TypeInv, TypeOK, ProposerTypeOK
  <2>6. CASE t = s /\ pre_nacks'[s] # {}
    <3>1. PICK n \in pre_nacks'[s] : request = Carried(n)
      BY <2>2, <2>6 DEF Learned, Highest, Carried
    <3>2. learnt'[s] = request
      BY <2>2 DEF TypeInv, TypeOK, ProposerTypeOK
    <3>3. Circulates(Carried(n), instance[s])
      BY <2>1, <2>3, <3>1, CountedNack
    <3> QED
      BY <1>6, <2>3, <2>6, <3>1, <3>2, <3>3
  <2> QED
    BY <2>4, <2>5, <2>6
<1>7. CASE \/ SendPrepare(s) \/ ProposingTimesOut(s) \/ ProposingRejects(s)
           \/ ProposingSkips(s) \/ ProposingCounts(s) \/ SendAccept(s)
           \/ AcceptingTimesOut(s) \/ AcceptingSkips(s) \/ AcceptingCounts(s)
  BY <1>3, <1>7
     DEF SendPrepare, ProposingTimesOut, ProposingRejects, ProposingSkips,
         ProposingCounts, CountResponse, SendAccept, AcceptingTimesOut,
         AcceptingSkips, AcceptingCounts
<1> QED
  BY <1>4, <1>5, <1>6, <1>7 DEF ProposerStep

\* The value that a winner goes on with circulates, or the winner is the owner
\* and brings it.
LEMMA WinnerValue ==
  ASSUME TypeInv, NothingAhead, GrantsAreUnique, CountsAreGrants,
         NEW s \in Server, ProposingLearns(s)
  PROVE  \/ Circulates(learnt'[s], instance[s])
         \/ Owns(s, instance[s])' /\ learnt'[s] = learnt[s]
<1>1. PICK m \in proposer_queue[s] : CountResponse(s, m)
  BY DEF ProposingLearns
<1>2. PICK request \in Learned(s, pre_nacks'[s]) :
        learnt' = [learnt EXCEPT ![s] = request]
  BY DEF ProposingLearns
<1>3. state[s] = "PROPOSING" /\ Majority(response_cnt[s] + 1)
  BY DEF ProposingLearns
<1>4. learnt'[s] = request
  BY <1>2 DEF TypeInv, TypeOK, ProposerTypeOK
<1>5. CASE pre_nacks'[s] # {}
  <2>1. PICK n \in pre_nacks'[s] : request = Carried(n)
    BY <1>2, <1>5 DEF Learned, Highest, Carried
  <2> QED
    BY <1>1, <1>3, <1>4, <2>1, CountedNack
<1>6. CASE pre_nacks'[s] = {}
  <2>1. response_cnt[s] + 1 <= Cardinality(Granters(s, instance[s])')
    BY <1>1, <1>3, <1>6, CountedGrant
  <2>2. Granters(s, instance[s])' \in SUBSET Server
    BY DEF Granters
  <2>3. response_cnt[s] \in Nat /\ Cardinality(Granters(s, instance[s])') \in Nat
    BY <2>2, GrantersFinite DEF TypeInv, TypeOK, ProposerTypeOK
  <2>4. Owns(s, instance[s])'
    BY <1>3, <2>1, <2>3, GroupAssumption DEF Owns, Majority
  <2>5. request = learnt[s]
    BY <1>2, <1>6 DEF Learned
  <2> QED
    BY <1>4, <2>4, <2>5
<1> QED
  BY <1>5, <1>6

LEMMA ProposerOneValue ==
  ASSUME TypeInv, NothingAhead, GrantsAreUnique, CountsAreGrants,
         OneValue, OwnerBringsValue, TypeInv', GrantsAreUnique',
         NEW s \in Server, ProposerStep(s), UNCHANGED acceptorVars
  PROVE  OneValue' /\ OwnerBringsValue'
<1>1. \A t \in Server : proposer_msg_history[t] \subseteq proposer_msg_history'[t]
  BY ProposerInbox
<1>2. ASSUME NEW r \in Request, NEW i \in Instance, Circulates(r, i)
      PROVE  \E t \in Server : Owns(t, i)' /\ (instance'[t] = i => learnt'[t] = r)
  <2>1. PICK t \in Server : Owns(t, i) /\ (instance[t] = i => learnt[t] = r)
    BY <1>2 DEF OwnerBringsValue
  <2>2. Owns(t, i)'
    BY <1>1, <2>1, GrantersGrow
  <2>3. ASSUME instance'[t] = i
        PROVE  learnt'[t] = r
    <3>1. instance[t] = i /\ learnt[t] = r
      BY <2>1, <2>3, LearntKept
    <3>2. CASE learnt'[t] = learnt[t]
      BY <3>1, <3>2
    <3>3. CASE ProposingLearns(s) /\ t = s /\ Circulates(learnt'[t], i)
      <4>1. learnt'[s] \in Request
        BY <3>3 DEF TypeInv, BusyHasRequest, ProposingLearns, FailRound, TypeOK,
                    ProposerTypeOK
      <4> QED
        BY <1>2, <3>3, <4>1 DEF OneValue
    <3> QED
      BY <2>1, <2>3, <3>2, <3>3, LearntKept
  <2> QED
    BY <2>2, <2>3
\* A value that did not circulate is the winner's, which has become the owner,
\* and then nothing else circulated.
<1>3. ASSUME NEW r \in Request, NEW i \in Instance, Circulates(r, i)',
             ~Circulates(r, i)
      PROVE  /\ ProposingLearns(s) /\ i = instance[s] /\ instance'[s] = i
             /\ r = learnt'[s] /\ Owns(s, i)'
             /\ \A q \in Request : ~Circulates(q, i)
  <2>1. ProposingLearns(s) /\ i = instance[s] /\ r = learnt'[s]
    BY <1>3, ProposerValues
  <2>2. instance' = instance
    BY <2>1 DEF ProposingLearns, CountResponse
  <2>3. Owns(s, instance[s])' /\ learnt'[s] = learnt[s]
    BY <1>3, <2>1, WinnerValue
  <2>4. Owns(s, i)'
    BY <2>1, <2>2, <2>3 DEF Owns, Granters
  <2>5. ASSUME NEW q \in Request, Circulates(q, i)
        PROVE  FALSE
    <3>1. PICK t \in Server : Owns(t, i) /\ (instance[t] = i => learnt[t] = q)
      BY <2>5 DEF OwnerBringsValue
    <3>2. Owns(t, i)'
      BY <1>1, <3>1, GrantersGrow
    <3>3. t = s
      <4>1. Granters(s, i)' \in SUBSET Server /\ Granters(t, i)' \in SUBSET Server
        BY DEF Granters
      <4>2. PICK a \in Server : a \in Granters(s, i)' /\ a \in Granters(t, i)'
        BY <2>4, <3>2, <4>1, MajoritiesMeet DEF Owns
      <4> QED
        BY <4>2 DEF Granters, GrantsAreUnique, Inbox
    <3> QED
      BY <1>3, <2>1, <2>3, <2>5, <3>1, <3>3
  <2> QED
    BY <2>1, <2>2, <2>4, <2>5
<1>4. OneValue'
  <2> SUFFICES ASSUME NEW i \in Instance, NEW r \in Request, NEW q \in Request,
                      Circulates(r, i)', Circulates(q, i)'
               PROVE  r = q
    BY DEF OneValue
  <2>1. CASE Circulates(r, i) /\ Circulates(q, i)
    BY <2>1 DEF OneValue
  <2>2. CASE ~Circulates(r, i) \/ ~Circulates(q, i)
    BY <1>3, <2>2
  <2> QED
    BY <2>1, <2>2
<1>5. OwnerBringsValue'
  <2> SUFFICES ASSUME NEW i \in Instance, NEW r \in Request, Circulates(r, i)'
               PROVE  \E t \in Server :
                        Owns(t, i)' /\ (instance'[t] = i => learnt'[t] = r)
    BY DEF OwnerBringsValue
  <2> QED
    BY <1>2, <1>3
<1> QED
  BY <1>4, <1>5

\* A step that brings no value and leaves the proposers as they are.
LEMMA OtherOneValue ==
  ASSUME OneValue, OwnerBringsValue, UNCHANGED proposerVars,
         \A r \in Request, i \in Instance : Circulates(r, i)' => Circulates(r, i)
  PROVE  OneValue' /\ OwnerBringsValue'
<1>1. \A s \in Server, i \in Instance : Owns(s, i)' <=> Owns(s, i)
  BY DEF Owns, Granters, proposerVars
<1>2. OneValue'
  BY DEF OneValue
<1>3. OwnerBringsValue'
  BY <1>1 DEF OwnerBringsValue, proposerVars
<1> QED
  BY <1>2, <1>3

----------------------------------------------------------------------------
(* The invariant and the theorem *)

LEMMA IInvInit == Init => IInv
BY InitType, InitNothingAhead, InitGrants, InitCounts, InitValues
   DEF IInv, TypeInv

LEMMA IInvProposer ==
  ASSUME IInv, NEW s \in Server, ProposerStep(s), UNCHANGED acceptorVars
  PROVE  IInv'
<1>1. TypeInv /\ TypeInv'
  BY ProposerStepType DEF IInv, TypeInv
<1>2. NothingAhead' /\ GrantsAreUnique' /\ CountsAreGrants'
  BY <1>1, ProposerNothingAhead, ProposerGrants, ProposerCounts DEF IInv
<1>3. OneValue' /\ OwnerBringsValue'
  BY <1>1, <1>2, ProposerOneValue DEF IInv
<1> QED
  BY <1>1, <1>2, <1>3 DEF IInv, TypeInv

LEMMA IInvAcceptor ==
  ASSUME IInv, NEW a \in Server, AcceptorStep(a), UNCHANGED proposerVars
  PROVE  IInv'
<1>1. TypeInv /\ TypeInv'
  BY AcceptorStepType DEF IInv, TypeInv
<1>2. NothingAhead' /\ GrantsAreUnique' /\ CountsAreGrants'
  BY <1>1, AcceptorNothingAhead, AcceptorGrants, OtherCounts DEF IInv
<1>3. OneValue' /\ OwnerBringsValue'
  BY <1>1, AcceptorValues, OtherOneValue DEF IInv
<1> QED
  BY <1>1, <1>2, <1>3 DEF IInv, TypeInv

LEMMA IInvDrop ==
  ASSUME IInv, NEW s \in Server, DropToAcceptor(s) \/ DropToProposer(s),
         UNCHANGED <<acceptorVars, proposerVars>>
  PROVE  IInv'
<1>1. TypeInv /\ TypeInv'
  BY DropType DEF IInv, TypeInv
<1>2. \A t \in Server : /\ acceptor_queue'[t] \subseteq acceptor_queue[t]
                        /\ proposer_queue'[t] \subseteq proposer_queue[t]
  BY <1>1, DropValues
<1>3. NothingAhead'
  BY <1>2 DEF IInv, NothingAhead, Inbox, Ahead, proposerVars
<1>4. GrantsAreUnique'
  BY <1>2 DEF IInv, GrantsAreUnique, IsGrant, Inbox, Touched, proposerVars,
              acceptorVars
<1>5. CountsAreGrants'
  BY OtherCounts DEF IInv
<1>6. OneValue' /\ OwnerBringsValue'
  BY <1>1, DropValues, OtherOneValue DEF IInv
<1> QED
  BY <1>1, <1>3, <1>4, <1>5, <1>6 DEF IInv, TypeInv

LEMMA IInvStutter ==
  ASSUME IInv, UNCHANGED vars
  PROVE  IInv'
<1>1. TypeInv'
  BY StutterType DEF IInv, TypeInv
<1>2. UNCHANGED <<networkVars, acceptorVars, proposerVars>>
  BY DEF vars
<1>3. NothingAhead' /\ GrantsAreUnique' /\ CountsAreGrants'
  BY <1>2 DEF IInv, NothingAhead, GrantsAreUnique, CountsAreGrants, IsGrant,
              Inbox, Ahead, Touched, Granters, networkVars, acceptorVars,
              proposerVars
<1>4. \A r, i : Circulates(r, i)' <=> Circulates(r, i)
  BY <1>2 DEF Circulates, IsAccepted, HasAccepted, Touched, IsSentToAcceptor,
              IsSentToProposer, IsNacked, IsProposed, IsResolved, Resolved,
              CarriesRequest, Carried, networkVars, acceptorVars, proposerVars
<1>5. OneValue' /\ OwnerBringsValue'
  BY <1>2, <1>4, OtherOneValue DEF IInv
<1> QED
  BY <1>1, <1>3, <1>5 DEF IInv, TypeInv

LEMMA IInvNext ==
  ASSUME IInv, [Next]_vars
  PROVE  IInv'
BY IInvProposer, IInvAcceptor, IInvDrop, IInvStutter DEF Next

\* The inductive invariant holds of every reachable state: one acceptor grants
\* an instance to one proposer, and one value per instance circulates.
THEOREM InvariantHolds == Spec => []IInv
BY IInvInit, IInvNext, PTL DEF Spec

LEMMA IInvImpliesAgreement == IInv => Agreement
<1> SUFFICES ASSUME IInv, NEW s \in Server, NEW t \in Server,
                    NEW i \in Instance, Resolved(s, i), Resolved(t, i)
             PROVE  instance_resolutions[s][i] = instance_resolutions[t][i]
  BY DEF Agreement
<1>1. /\ instance_resolutions[s][i] \in Request
      /\ instance_resolutions[t][i] \in Request
  BY DEF IInv, TypeOK, ProposerTypeOK, Resolved
<1>2. /\ Circulates(instance_resolutions[s][i], i)
      /\ Circulates(instance_resolutions[t][i], i)
  BY DEF Circulates, IsResolved
<1> QED
  BY <1>1, <1>2 DEF IInv, OneValue

\* No two servers ever resolve one instance differently: for any number of
\* servers and any scripts, whatever messages are lost, duplicated, reordered or
\* answered too late, and whichever servers stop.
THEOREM AgreementHolds == Spec => []Agreement
BY InvariantHolds, IInvImpliesAgreement, PTL

\* A proposer never hears of an instance that it has not reached: the assertion
\* on left-over messages in ACCEPTING cannot fail.
THEOREM NoFutureMessageHolds == Spec => []NoFutureMessage
<1>1. IInv => NoFutureMessage
  <2> SUFFICES ASSUME IInv, NEW s \in Server, NEW m \in proposer_queue[s]
               PROVE  m.instance <= instance[s]
    BY DEF NoFutureMessage
  <2>1. m.instance \in Instance /\ ~Ahead(s, m.instance)
    BY ProposerMessageFields
       DEF IInv, TypeOK, NetworkTypeOK, NothingAhead, Inbox
  <2> QED
    BY <2>1, BoundAssumption DEF Ahead, Instance, IInv, TypeOK, ProposerTypeOK
<1> QED
  BY <1>1, InvariantHolds, PTL

\* The request of a history entry, as a constant of the request set.
LEMMA AcceptedRequest ==
  ASSUME TypeInv, NEW a \in Server, NEW i \in Instance, HasAccepted(a, i)
  PROVE  \E r \in Request : /\ IsAccepted(r, i)
                            /\ r.command = accept_history[a][i].h_accv
                            /\ r.client_id = accept_history[a][i].cid
<1> DEFINE h == accept_history[a][i]
           r == [command |-> h.h_accv, client_id |-> h.cid]
<1>1. h.h_accv \in Command /\ h.cid \in ClientId
  BY HistoryFields DEF HasAccepted, TypeInv, TypeOK
<1>2. r \in Request /\ r.command = h.h_accv /\ r.client_id = h.cid
  BY <1>1 DEF Request
<1>3. IsAccepted(r, i)
  BY DEF IsAccepted
<1> QED
  BY <1>2, <1>3

LEMMA AcceptedKept ==
  ASSUME IInv, [Next]_vars, NEW a \in Server, NEW i \in Instance, HasAccepted(a, i)
  PROVE  /\ accept_history'[a][i].h_accv = accept_history[a][i].h_accv
         /\ accept_history'[a][i].cid = accept_history[a][i].cid
<1>1. CASE accept_history' = accept_history
  BY <1>1
<1>2. ASSUME NEW b \in Server, AcceptorStep(b), UNCHANGED proposerVars
      PROVE  /\ accept_history'[a][i].h_accv = accept_history[a][i].h_accv
             /\ accept_history'[a][i].cid = accept_history[a][i].cid
  <2>1. AcceptorEffect(b) /\ TypeInv /\ TypeInv'
    BY <1>2, AcceptorStepEffect, AcceptorStepType DEF IInv, TypeInv
  <2>2. HasAccepted(a, i)'
    BY <2>1 DEF AcceptorEffect
  <2>3. PICK r \in Request : /\ IsAccepted(r, i)
                             /\ r.command = accept_history[a][i].h_accv
                             /\ r.client_id = accept_history[a][i].cid
    BY <2>1, AcceptedRequest
  <2> DEFINE g == accept_history'[a][i]
  <2>4. PICK q \in Request : q = [command |-> g.h_accv, client_id |-> g.cid]
    <3>1. accept_history' \in [Server -> [Instance -> HistoryEntry \cup {None}]]
      BY <2>1 DEF TypeInv, TypeOK, AcceptorTypeOK
    <3>2. g \in HistoryEntry /\ g.h_accp # NoProposal
      BY <2>2, <3>1 DEF HasAccepted, Touched
    <3>3. g.h_accv \in Command /\ g.cid \in ClientId
      BY <3>2 DEF HistoryEntry, Promised, Accepted
    <3> QED
      BY <3>3 DEF Request
  <2>5. IsAccepted(q, i)'
    BY <2>2, <2>4 DEF IsAccepted
  <2>6. Circulates(q, i) /\ Circulates(r, i)
    BY <2>1, <2>3, <2>4, <2>5 DEF AcceptorEffect, Circulates
  <2>7. q = r
    BY <2>6 DEF IInv, OneValue
  <2> QED
    BY <2>3, <2>4, <2>7
<1> QED
  BY <1>1, <1>2 DEF Next, acceptorVars, vars

\* An acceptor that has accepted a request at an instance keeps it, although the
\* code overwrites the history entry at every ACCEPT.
THEOREM AcceptedStableHolds == Spec => AcceptedStable
<1>1. IInv /\ [Next]_vars =>
        [\A a \in Server, i \in Instance :
           HasAccepted(a, i) =>
             /\ accept_history'[a][i].h_accv = accept_history[a][i].h_accv
             /\ accept_history'[a][i].cid = accept_history[a][i].cid]_vars
  BY AcceptedKept
<1> QED
  BY <1>1, InvariantHolds, PTL DEF Spec, AcceptedStable

----------------------------------------------------------------------------
(* No acceptor asks itself *)

LEMMA ProposerNoneToSelf ==
  ASSUME TypeInv, NoneToSelf, NEW s \in Server, ProposerStep(s)
  PROVE  NoneToSelf'
<1>1. \A a \in Server : \A m \in acceptor_queue'[a] :
        m \in acceptor_queue[a] \/ (m.origin_id = s /\ a # s)
  <2>1. CASE SendPrepare(s)
    BY <2>1 DEF SendPrepare, SendToAcceptors, NewMessage
  <2>2. CASE SendAccept(s)
    BY <2>2 DEF SendAccept, SendToAcceptors, NewMessage
  <2>3. CASE acceptor_queue' = acceptor_queue
    BY <2>3
  <2> QED
    BY <2>1, <2>2, <2>3
       DEF ProposerStep, ReceiveCommand, ProposingTimesOut, ProposingRejects,
           ProposingSkips, ProposingCounts, ProposingLearns, CountResponse,
           AcceptingTimesOut, AcceptingSkips, AcceptingCounts, AcceptingResolves,
           HandleMessage, networkVars
<1> QED
  BY <1>1 DEF NoneToSelf

LEMMA NextNoneToSelf ==
  ASSUME TypeInv, NoneToSelf, [Next]_vars
  PROVE  NoneToSelf'
<1>1. CASE \A a \in Server : acceptor_queue'[a] \subseteq acceptor_queue[a]
  BY <1>1 DEF NoneToSelf
<1>2. ASSUME NEW s \in Server, AcceptorStep(s), UNCHANGED proposerVars
      PROVE  NoneToSelf'
  BY <1>1, <1>2, AcceptorStepEffect DEF AcceptorEffect
<1>3. ASSUME NEW s \in Server, DropToAcceptor(s) \/ DropToProposer(s),
             UNCHANGED <<acceptorVars, proposerVars>>
      PROVE  NoneToSelf'
  BY <1>1, <1>3, DropValues
<1>4. CASE UNCHANGED vars
  BY <1>1, <1>4 DEF vars, networkVars
<1> QED
  BY <1>2, <1>3, <1>4, ProposerNoneToSelf DEF Next

----------------------------------------------------------------------------
(* What an acceptor has said it keeps *)

\* No step takes a vote away.
LEMMA VotesGrow ==
  ASSUME IInv, [Next]_vars, NEW i \in Instance, NEW v, NEW c
  PROVE  /\ Votes(i, v, c) \subseteq Votes(i, v, c)'
         /\ Cardinality(Votes(i, v, c)) \in Nat
         /\ Cardinality(Votes(i, v, c)') \in Nat
         /\ Cardinality(Votes(i, v, c)) <= Cardinality(Votes(i, v, c)')
<1>1. ASSUME NEW a \in Server, HasAccepted(a, i)
      PROVE  HasAccepted(a, i)'
  <2>1. CASE accept_history' = accept_history
    BY <1>1, <2>1 DEF HasAccepted, Touched
  <2>2. ASSUME NEW b \in Server, AcceptorStep(b), UNCHANGED proposerVars
        PROVE  HasAccepted(a, i)'
    BY <1>1, <2>2, AcceptorStepEffect DEF AcceptorEffect, IInv, TypeInv
  <2> QED
    BY <2>1, <2>2 DEF Next, vars, acceptorVars
<1>2. Votes(i, v, c) \subseteq Votes(i, v, c)'
  BY <1>1, AcceptedKept DEF Votes
<1>3. Votes(i, v, c) \in SUBSET Server /\ Votes(i, v, c)' \in SUBSET Server
  BY DEF Votes
<1> QED
  BY <1>2, <1>3, GrantersFinite, FS_Subset

\* An acceptor that answers with a request has accepted it by then.
LEMMA AnswerIsTrue ==
  ASSUME TypeInv, NEW a \in Server, AcceptorStep(a), UNCHANGED proposerVars,
         NEW t \in Server, NEW n \in proposer_queue'[t], n \notin proposer_queue[t],
         CarriesRequest(n)
  PROVE  n.origin_id \in Votes(n.instance, n.value, n.client_id)'
<1> USE DEF TypeInv, TypeOK
<1>1. CASE PrepareFirst(a)
  <2>1. PICK m \in acceptor_queue[a] :
          ResponseProposer(m.origin_id, FirstAnswer(a, m))
    BY <1>1 DEF PrepareFirst
  <2>2. n = FirstAnswer(a, m)
    BY <2>1 DEF ResponseProposer, NetworkTypeOK
  <2> QED
    BY <2>2 DEF FirstAnswer, NewMessage, CarriesRequest
<1>2. CASE PrepareHigher(a)
  <2>1. PICK m \in acceptor_queue[a] :
          /\ m.msg_type = "PREPARE" /\ Touched(a, m.instance)
          /\ ResponseProposer(m.origin_id, LaterAnswer(a, m))
          /\ LET h == accept_history[a][m.instance]
             IN  RecordHistory(a, m.instance, m.proposal, h.h_accp, h.h_accv, h.cid)
    BY <1>2 DEF PrepareHigher
  <2> DEFINE h == accept_history[a][m.instance]
  <2>2. n = LaterAnswer(a, m)
    BY <2>1 DEF ResponseProposer, NetworkTypeOK
  <2>3. m \in AcceptorMessage /\ m.instance \in Instance /\ m.proposal \in Nat
    BY <2>1, AcceptorMessageFields DEF NetworkTypeOK
  <2>4. /\ h.h_accp # NoProposal
        /\ n.origin_id = a /\ n.instance = m.instance
        /\ n.value = h.h_accv /\ n.client_id = h.cid
    BY <2>2 DEF LaterAnswer, NewMessage, CarriesRequest
  <2>5. [h_prep |-> m.proposal, h_accp |-> h.h_accp, h_accv |-> h.h_accv,
         cid |-> h.cid] \in HistoryEntry
    BY <2>1, <2>3, <2>4, HistoryFields DEF HistoryEntry, Accepted
  <2>6. /\ Touched(a, m.instance)'
        /\ accept_history'[a][m.instance] =
             [h_prep |-> m.proposal, h_accp |-> h.h_accp, h_accv |-> h.h_accv,
              cid |-> h.cid]
    BY <2>1, <2>3, <2>5, RecordEffect
  <2> QED
    BY <2>4, <2>6 DEF Votes, HasAccepted, Touched
<1>3. CASE Accept(a)
  <2>1. PICK m \in acceptor_queue[a] :
          /\ m.msg_type = "ACCEPT"
          /\ ResponseProposer(m.origin_id, AcceptAnswer(a, m))
          /\ RecordHistory(a, m.instance, m.proposal, m.proposal, m.value, m.client_id)
    BY <1>3 DEF Accept
  <2>2. n = AcceptAnswer(a, m)
    BY <2>1 DEF ResponseProposer, NetworkTypeOK
  <2>3. /\ m \in AcceptorMessage /\ m.instance \in Instance /\ m.proposal \in Nat
        /\ m.value \in Command /\ m.client_id \in ClientId
    BY <2>1, AcceptorMessageFields DEF NetworkTypeOK
  <2>4. [h_prep |-> m.proposal, h_accp |-> m.proposal, h_accv |-> m.value,
         cid |-> m.client_id] \in HistoryEntry
    BY <2>3 DEF HistoryEntry, Accepted
  <2>5. /\ Touched(a, m.instance)'
        /\ accept_history'[a][m.instance] =
             [h_prep |-> m.proposal, h_accp |-> m.proposal, h_accv |-> m.value,
              cid |-> m.client_id]
    BY <2>1, <2>3, <2>4, RecordEffect
  <2>6. /\ n.origin_id = a /\ n.instance = m.instance
        /\ n.value = m.value /\ n.client_id = m.client_id
    BY <2>2 DEF AcceptAnswer, NewMessage
  <2>7. m.proposal # NoProposal
    BY <2>3 DEF NoProposal
  <2> QED
    BY <2>5, <2>6, <2>7 DEF Votes, HasAccepted, Touched
<1>4. CASE UNCHANGED proposer_queue
  BY <1>4
<1> QED
  BY <1>1, <1>2, <1>3, <1>4
     DEF AcceptorStep, DuplicateToAcceptor, PrepareIgnored, AcceptIgnored, Ignore

\* A message that a proposer has or will have, in the next state.
LEMMA InboxNext ==
  ASSUME TypeInv, [Next]_vars, NEW t \in Server, NEW n \in Inbox(t)'
  PROVE  \/ n \in Inbox(t)
         \/ \E a \in Server : /\ AcceptorStep(a) /\ UNCHANGED proposerVars
                              /\ n \in proposer_queue'[t] \ proposer_queue[t]
<1>1. ASSUME NEW a \in Server, AcceptorStep(a), UNCHANGED proposerVars,
             n \notin Inbox(t)
      PROVE  n \in proposer_queue'[t] \ proposer_queue[t]
  BY <1>1 DEF Inbox, proposerVars
<1>2. ASSUME NEW s \in Server, DropToAcceptor(s) \/ DropToProposer(s),
             UNCHANGED <<acceptorVars, proposerVars>>
      PROVE  n \in Inbox(t)
  BY <1>2, DropValues DEF Inbox, proposerVars
<1>3. CASE UNCHANGED vars
  BY <1>3 DEF Inbox, vars, networkVars, proposerVars
<1> QED
  BY <1>1, <1>2, <1>3, ProposerInbox DEF Next

LEMMA NextAnswersAreTrue ==
  ASSUME IInv, AnswersAreTrue, [Next]_vars
  PROVE  AnswersAreTrue'
<1> SUFFICES ASSUME NEW t \in Server, NEW n \in Inbox(t)', CarriesRequest(n)
             PROVE  n.origin_id \in Votes(n.instance, n.value, n.client_id)'
  BY DEF AnswersAreTrue, CarriesRequest
<1>1. CASE n \in Inbox(t)
  <2>1. n.instance \in Instance
    BY <1>1, ProposerMessageFields
       DEF Inbox, IInv, TypeOK, NetworkTypeOK, ProposerTypeOK
  <2>2. n.origin_id \in Votes(n.instance, n.value, n.client_id)
    BY <1>1 DEF AnswersAreTrue
  <2> QED
    BY <2>1, <2>2, VotesGrow
<1>2. CASE n \notin Inbox(t)
  BY <1>2, InboxNext, AnswerIsTrue DEF IInv, TypeInv
<1> QED
  BY <1>1, <1>2

----------------------------------------------------------------------------
(* The responses counted in ACCEPTING are votes *)

\* Every ACCEPT_ACK that a proposer in ACCEPT or ACCEPTING gets for its instance
\* is a vote for what it proposes.
LEMMA AckIsVote ==
  ASSUME IInv, AnswersAreTrue, NEW s \in Server,
         state[s] \in {"ACCEPT", "ACCEPTING"},
         NEW m \in Inbox(s), CarriesRequest(m), m.instance = instance[s]
  PROVE  /\ m.value = learnt[s].command /\ m.client_id = learnt[s].client_id
         /\ m.origin_id \in
              Votes(instance[s], learnt[s].command, learnt[s].client_id)
<1>1. m \in ProposerMessage
  BY DEF Inbox, IInv, TypeOK, NetworkTypeOK, ProposerTypeOK
<1>2. /\ m.value \in Command /\ m.client_id \in ClientId
      /\ m.instance \in Instance
  BY <1>1, ProposerMessageFields DEF CarriesRequest
<1>3. learnt[s] \in Request
  BY DEF IInv, BusyHasRequest
<1>4. Carried(m) \in Request
  BY <1>2 DEF Carried, Request
<1>5. m.origin_id \in Votes(m.instance, m.value, m.client_id)
  BY DEF AnswersAreTrue
<1>6. IsAccepted(Carried(m), m.instance)
  BY <1>5 DEF Votes, IsAccepted, Carried
<1>7. IsProposed(learnt[s], m.instance)
  BY DEF IsProposed
<1>8. Carried(m) = learnt[s]
  BY <1>2, <1>3, <1>4, <1>6, <1>7 DEF IInv, OneValue, Circulates
<1>9. m.value = learnt[s].command /\ m.client_id = learnt[s].client_id
  BY <1>8 DEF Carried
<1> QED
  BY <1>5, <1>9

LEMMA AckersVote ==
  ASSUME IInv, AnswersAreTrue, NEW s \in Server, state[s] = "ACCEPTING"
  PROVE  Ackers(s) \subseteq
           Votes(instance[s], learnt[s].command, learnt[s].client_id)
BY AckIsVote DEF Ackers, Inbox, CarriesRequest

\* One acceptor answers an ACCEPT once: what counts comes from another one.
LEMMA CountedIsAnother ==
  ASSUME IInv, AnswersAreTrue, CountsAreVotes, NEW s \in Server,
         state[s] = "ACCEPTING",
         NEW m \in proposer_queue[s], CountsInAccepting(s, m)
  PROVE  /\ m.origin_id \in Server
         /\ response_cnt[s] + 1 <= Cardinality(Ackers(s) \cup {m.origin_id})
         /\ Cardinality(Ackers(s) \cup {m.origin_id}) \in Nat
<1>1. m \in ProposerMessage /\ m \in Inbox(s)
  BY DEF Inbox, IInv, TypeOK, NetworkTypeOK
<1>2. /\ m.origin_id \in Server /\ m.msg_type = "ACCEPT_ACK"
      /\ m.instance = instance[s] /\ m.proposal = proposer_num[s]
      /\ m \notin proposer_msg_history[s]
  BY <1>1, ProposerMessageFields DEF CountsInAccepting, ForThisInstance, Known
<1>3. ASSUME m.origin_id \in Ackers(s)
      PROVE  FALSE
  <2>1. PICK n \in proposer_msg_history[s] :
          /\ n.msg_type = "ACCEPT_ACK" /\ n.origin_id = m.origin_id
          /\ n.instance = instance[s] /\ n.proposal = proposer_num[s]
    BY <1>3 DEF Ackers
  <2>2. n \in ProposerMessage /\ n \in Inbox(s)
    BY DEF Inbox, IInv, TypeOK, ProposerTypeOK
  <2>3. n.value = m.value /\ n.client_id = m.client_id
    BY <1>1, <1>2, <2>1, <2>2, AckIsVote DEF CarriesRequest
  <2>4. m \in AcceptAck /\ n \in AcceptAck
    BY <1>1, <1>2, <2>1, <2>2
       DEF ProposerMessage, FirstAck, RepeatAck, Nack, AcceptAck, MessageOf
  <2>5. m = n
    BY <1>2, <2>1, <2>3, <2>4 DEF AcceptAck, MessageOf
  <2> QED
    BY <1>2, <2>1, <2>5
<1>4. Ackers(s) \in SUBSET Server
  BY DEF Ackers
<1>5. Cardinality(Ackers(s) \cup {m.origin_id}) = Cardinality(Ackers(s)) + 1
  BY <1>3, <1>4, GrantersFinite, FS_AddElement
<1>6. Cardinality(Ackers(s)) \in Nat /\ response_cnt[s] \in Nat
  BY <1>4, GrantersFinite DEF IInv, TypeOK, ProposerTypeOK
<1>7. response_cnt[s] <= Cardinality(Ackers(s))
  BY DEF CountsAreVotes
<1> QED
  BY <1>2, <1>5, <1>6, <1>7

LEMMA ProposerCountsVotes ==
  ASSUME IInv, AnswersAreTrue, CountsAreVotes, NEW s \in Server, ProposerStep(s)
  PROVE  CountsAreVotes'
<1> USE DEF IInv
<1>0. TypeInv
  BY DEF TypeInv
<1> SUFFICES ASSUME NEW t \in Server, state'[t] = "ACCEPTING"
             PROVE  response_cnt'[t] <= Cardinality(Ackers(t)')
  BY DEF CountsAreVotes
<1>1. \A u \in Server : proposer_msg_history[u] \subseteq proposer_msg_history'[u]
  BY <1>0, ProposerInbox
<1>2. /\ Ackers(t) \in SUBSET Server /\ Ackers(t)' \in SUBSET Server
      /\ Cardinality(Ackers(t)) \in Nat /\ Cardinality(Ackers(t)') \in Nat
      /\ response_cnt[t] \in Nat
  <2>1. Ackers(t) \in SUBSET Server /\ Ackers(t)' \in SUBSET Server
    BY DEF Ackers
  <2> QED
    BY <2>1, GrantersFinite DEF TypeOK, ProposerTypeOK
<1>3. CASE /\ state[t] = "ACCEPTING" /\ response_cnt'[t] = response_cnt[t]
           /\ instance'[t] = instance[t] /\ proposer_num'[t] = proposer_num[t]
  <2>1. Ackers(t) \subseteq Ackers(t)'
    BY <1>1, <1>3 DEF Ackers
  <2>2. Cardinality(Ackers(t)) <= Cardinality(Ackers(t)')
    BY <1>2, <2>1, GrantersFinite, FS_Subset
  <2>3. response_cnt[t] <= Cardinality(Ackers(t))
    BY <1>3 DEF CountsAreVotes
  <2> QED
    BY <1>2, <1>3, <2>2, <2>3
<1>4. CASE SendAccept(s)
  <2>1. CASE t = s
    BY <1>2, <1>4, <2>1 DEF SendAccept, TypeOK, ProposerTypeOK
  <2>2. CASE t # s
    BY <1>3, <1>4, <2>2 DEF SendAccept, TypeOK, ProposerTypeOK
  <2> QED
    BY <2>1, <2>2
<1>5. CASE AcceptingCounts(s)
  <2>1. CASE t = s
    <3>1. PICK m \in proposer_queue[s] :
            CountsInAccepting(s, m) /\ HandleMessage(s, m)
      BY <1>5 DEF AcceptingCounts
    <3>2. /\ state[s] = "ACCEPTING" /\ response_cnt'[s] = response_cnt[s] + 1
          /\ instance' = instance /\ proposer_num' = proposer_num
      BY <1>5 DEF AcceptingCounts, TypeOK, ProposerTypeOK
    <3>3. proposer_msg_history'[s] = proposer_msg_history[s] \cup {m}
      BY <3>1 DEF HandleMessage, TypeOK, ProposerTypeOK
    <3>4. Ackers(s) \cup {m.origin_id} \subseteq Ackers(s)'
      <4>1. m.origin_id \in Server
        BY <3>1, <3>2, CountedIsAnother
      <4> QED
        BY <3>1, <3>2, <3>3, <4>1 DEF Ackers, CountsInAccepting, ForThisInstance
    <3>5. response_cnt[s] + 1 <= Cardinality(Ackers(s) \cup {m.origin_id})
          /\ Cardinality(Ackers(s) \cup {m.origin_id}) \in Nat
      BY <3>1, <3>2, CountedIsAnother
    <3>6. Cardinality(Ackers(s) \cup {m.origin_id}) <= Cardinality(Ackers(s)')
      BY <1>2, <2>1, <3>4, GrantersFinite, FS_Subset
    <3> QED
      BY <1>2, <2>1, <3>2, <3>5, <3>6
  <2>2. CASE t # s
    BY <1>3, <1>5, <2>2 DEF AcceptingCounts, TypeOK, ProposerTypeOK
  <2> QED
    BY <2>1, <2>2
<1>6. CASE AcceptingResolves(s)
  BY <1>3, <1>6
     DEF AcceptingResolves, ExecuteLearnt, TypeOK, ProposerTypeOK
<1>7. CASE ProposingLearns(s)
  BY <1>3, <1>7
     DEF ProposingLearns, CountResponse, FailRound, TypeOK, ProposerTypeOK
<1>8. CASE \/ ReceiveCommand(s) \/ SendPrepare(s) \/ ProposingTimesOut(s)
           \/ ProposingRejects(s) \/ AcceptingTimesOut(s)
  BY <1>3, <1>8
     DEF ReceiveCommand, SendPrepare, ProposingTimesOut, ProposingRejects,
         AcceptingTimesOut, FailRound, TypeOK, ProposerTypeOK
<1>9. CASE ProposingCounts(s)
  BY <1>3, <1>9
     DEF ProposingCounts, CountResponse, TypeOK, ProposerTypeOK
<1>10. CASE ProposingSkips(s) \/ AcceptingSkips(s)
  BY <1>3, <1>10 DEF ProposingSkips, AcceptingSkips
<1> QED
  BY <1>4, <1>5, <1>6, <1>7, <1>8, <1>9, <1>10 DEF ProposerStep

----------------------------------------------------------------------------
(* What a client is told *)

\* The CLIENT_ACKs given stay true, whatever step follows.
LEMMA AcksStayTrue ==
  ASSUME IInv, AckedIsChosen, [Next]_vars, NEW s \in Server,
         NEW k \in DOMAIN client_acks[s]
  PROVE  \E i \in Instance, v \in Command, c \in ClientId :
           /\ client_acks[s][k].instance = i
           /\ client_acks[s][k].value = v /\ v = Script[s][k].command
           /\ client_acks[s][k].client_id = c /\ c = Script[s][k].client_id
           /\ Majority(Cardinality(Votes(i, v, c)'))
<1>1. client_acks[s][k] \in ClientAck
  BY DEF IInv, TypeOK, ProposerTypeOK
<1>2. PICK i \in Instance, v \in Command, c \in ClientId :
        /\ client_acks[s][k].instance = i
        /\ client_acks[s][k].value = v /\ client_acks[s][k].client_id = c
  BY <1>1 DEF ClientAck
<1>3. /\ v = Script[s][k].command /\ c = Script[s][k].client_id
      /\ Majority(Cardinality(Votes(i, v, c)))
  BY <1>2 DEF AckedIsChosen
<1>4. Majority(Cardinality(Votes(i, v, c)'))
  BY <1>3, VotesGrow, GroupAssumption DEF Majority
<1> QED
  BY <1>2, <1>3, <1>4

LEMMA SameAcksStayTrue ==
  ASSUME IInv, AckedIsChosen, [Next]_vars, client_acks' = client_acks
  PROVE  AckedIsChosen'
BY AcksStayTrue DEF AckedIsChosen, Majority

LEMMA ResolvedIsChosen ==
  ASSUME IInv, AnswersAreTrue, CountsAreVotes, NEW s \in Server,
         state[s] = "ACCEPTING", Majority(response_cnt[s] + 1),
         NEW m \in proposer_queue[s], CountsInAccepting(s, m)
  PROVE  /\ m.value = learnt[s].command /\ m.client_id = learnt[s].client_id
         /\ Majority(Cardinality(
              Votes(instance[s], learnt[s].command, learnt[s].client_id)))
<1> DEFINE V == Votes(instance[s], learnt[s].command, learnt[s].client_id)
<1>1. /\ m \in Inbox(s) /\ CarriesRequest(m) /\ m.instance = instance[s]
  BY DEF Inbox, CarriesRequest, CountsInAccepting, ForThisInstance
<1>2. /\ m.value = learnt[s].command /\ m.client_id = learnt[s].client_id
      /\ m.origin_id \in V
  BY <1>1, AckIsVote
<1>3. Ackers(s) \cup {m.origin_id} \subseteq V
  BY <1>2, AckersVote
<1>4. V \in SUBSET Server /\ Cardinality(V) \in Nat
  BY GrantersFinite DEF Votes
<1>5. Cardinality(Ackers(s) \cup {m.origin_id}) <= Cardinality(V)
  BY <1>3, <1>4, GrantersFinite, FS_Subset
<1>6. response_cnt[s] + 1 <= Cardinality(Ackers(s) \cup {m.origin_id})
      /\ Cardinality(Ackers(s) \cup {m.origin_id}) \in Nat
  BY CountedIsAnother
<1>7. response_cnt[s] \in Nat
  BY DEF IInv, TypeOK, ProposerTypeOK
<1> QED
  BY <1>2, <1>4, <1>5, <1>6, <1>7, GroupAssumption DEF Majority

LEMMA ResolvesAckedIsChosen ==
  ASSUME IInv, AnswersAreTrue, CountsAreVotes, AckedIsChosen,
         NEW s \in Server, AcceptingResolves(s), UNCHANGED acceptorVars
  PROVE  AckedIsChosen'
<1>1. PICK m \in proposer_queue[s] :
        CountsInAccepting(s, m) /\ AnswerClient(s, m)
  BY DEF AcceptingResolves
<1>2. state[s] = "ACCEPTING" /\ Majority(response_cnt[s] + 1)
  BY DEF AcceptingResolves
<1>3. [Next]_vars
  BY DEF Next, ProposerStep
<1>4. CASE learnt[s] # OwnRequest(s)
  <2>1. client_acks' = client_acks
    BY <1>1, <1>4 DEF AnswerClient
  <2> QED
    BY <1>3, <2>1, SameAcksStayTrue
<1>5. CASE learnt[s] = OwnRequest(s)
  <2>1. PICK i \in Instance, v \in Command, c \in ClientId :
          /\ i = instance[s] /\ v = OwnRequest(s).command /\ c = m.client_id
          /\ c = OwnRequest(s).client_id
    <3>1. learnt[s] \in Request /\ instance[s] \in Instance
      BY <1>2 DEF IInv, BusyHasRequest
    <3>2. m.client_id = learnt[s].client_id
      BY <1>1, <1>2, ResolvedIsChosen
    <3> QED
      BY <1>5, <3>1, <3>2, RequestFields
  <2> DEFINE new == [instance |-> i, value |-> v, client_id |-> c]
             n == Answered(s) + 1
  <2>2. client_acks' = [client_acks EXCEPT ![s] = Append(@, new)]
    BY <1>1, <1>5, <2>1 DEF AnswerClient
  <2>3. client_acks \in [Server -> Seq(ClientAck)]
    BY DEF IInv, TypeOK, ProposerTypeOK
  <2>4. /\ \A t \in Server \ {s} : client_acks'[t] = client_acks[t]
        /\ DOMAIN client_acks'[s] = DOMAIN client_acks[s] \cup {n}
        /\ client_acks'[s][n] = new
        /\ \A k \in DOMAIN client_acks[s] : client_acks'[s][k] = client_acks[s][k]
    BY <2>2, <2>3 DEF Answered
  <2>5. v = Script[s][n].command /\ c = Script[s][n].client_id
    BY <2>1 DEF OwnRequest
  <2>6. Majority(Cardinality(Votes(i, v, c)))
    BY <1>1, <1>2, <1>5, <2>1, ResolvedIsChosen
  <2>7. Votes(i, v, c)' = Votes(i, v, c)
    BY DEF Votes, HasAccepted, Touched, acceptorVars
  <2> SUFFICES ASSUME NEW t \in Server, NEW k \in DOMAIN client_acks'[t]
               PROVE  \E j \in Instance, w \in Command, d \in ClientId :
                        /\ client_acks'[t][k].instance = j
                        /\ client_acks'[t][k].value = w
                        /\ w = Script[t][k].command
                        /\ client_acks'[t][k].client_id = d
                        /\ d = Script[t][k].client_id
                        /\ Majority(Cardinality(Votes(j, w, d)'))
    BY DEF AckedIsChosen, Majority
  <2>8. CASE t = s /\ k = n
    BY <2>4, <2>5, <2>6, <2>7, <2>8
  <2>9. CASE ~(t = s /\ k = n)
    <3>1. k \in DOMAIN client_acks[t] /\ client_acks'[t][k] = client_acks[t][k]
      BY <2>4, <2>9
    <3> QED
      BY <1>3, <3>1, AcksStayTrue
  <2> QED
    BY <2>8, <2>9
<1> QED
  BY <1>4, <1>5

LEMMA NextAckedIsChosen ==
  ASSUME IInv, AnswersAreTrue, CountsAreVotes, AckedIsChosen, [Next]_vars
  PROVE  AckedIsChosen'
<1>1. CASE client_acks' = client_acks
  BY <1>1, SameAcksStayTrue
<1>2. ASSUME NEW s \in Server, ProposerStep(s), UNCHANGED acceptorVars
      PROVE  AckedIsChosen'
  BY <1>1, <1>2, ResolvesAckedIsChosen
     DEF ProposerStep, ReceiveCommand, SendPrepare, ProposingTimesOut,
         ProposingRejects, ProposingSkips, ProposingCounts, ProposingLearns,
         CountResponse, SendAccept, AcceptingTimesOut, AcceptingSkips,
         AcceptingCounts
<1> QED
  BY <1>1, <1>2 DEF Next, vars, proposerVars

----------------------------------------------------------------------------
(* The invariant and the theorem *)

LEMMA AckInvInit == Init => AckInv
BY IInvInit
   DEF Init, NetworkInit, AcceptorInit, ProposerInit, AckInv, NoneToSelf,
       AnswersAreTrue, Inbox, CountsAreVotes, AckedIsChosen

LEMMA AckInvNext ==
  ASSUME AckInv, [Next]_vars
  PROVE  AckInv'
<1> USE DEF AckInv
<1>1. IInv' /\ NoneToSelf' /\ AnswersAreTrue' /\ AckedIsChosen'
  BY IInvNext, NextNoneToSelf, NextAnswersAreTrue, NextAckedIsChosen
     DEF IInv, TypeInv
<1>2. CountsAreVotes'
  <2>1. CASE UNCHANGED proposerVars
    BY <2>1 DEF CountsAreVotes, Ackers, proposerVars
  <2> QED
    BY <2>1, ProposerCountsVotes DEF Next, vars
<1> QED
  BY <1>1, <1>2

\* What stands behind a CLIENT_ACK: the answers of the acceptors are true, and
\* the proposers count each of them once.
THEOREM AckInvHolds == Spec => []AckInv
BY AckInvInit, AckInvNext, PTL DEF Spec

\* A client that gets its CLIENT_ACK has been told the truth for good: whatever
\* its server and the network do afterwards, a majority of acceptors holds its
\* command at that instance.
THEOREM AckedIsChosenHolds == Spec => []AckedIsChosen
<1>1. AckInv => AckedIsChosen
  BY DEF AckInv
<1> QED
  BY <1>1, AckInvHolds, PTL

----------------------------------------------------------------------------
(* No way out of a stuck instance *)

\* The PREPARE_ACKs on their way to a proposer that it would count are grants,
\* so they are as many as their senders.
LEMMA ComingAreGrants ==
  ASSUME TypeInv, NEW s \in Server, NEW i, NEW m \in AcksComing(s, i)
  PROVE  m \in Inbox(s) /\ IsGrant(m) /\ m.origin_id \in Server
         /\ m.instance = i
<1>1. m \in ProposerMessage
  BY DEF AcksComing, TypeInv, TypeOK, NetworkTypeOK
<1> QED
  BY <1>1, ProposerMessageFields DEF AcksComing, Inbox, IsGrant

LEMMA ComingFinite ==
  ASSUME TypeInv, GrantsAreUnique, NEW s \in Server, NEW i
  PROVE  /\ IsFiniteSet(AcksComing(s, i))
         /\ Cardinality(AcksComing(s, i)) \in Nat
<1> DEFINE sender == [m \in AcksComing(s, i) |-> m.origin_id]
<1>1. sender \in [AcksComing(s, i) -> Server]
  BY ComingAreGrants
<1>2. \A m, n \in AcksComing(s, i) : sender[m] = sender[n] => m = n
  BY ComingAreGrants DEF GrantsAreUnique
<1>3. sender \in Injection(AcksComing(s, i), Server)
  BY <1>1, <1>2 DEF Injection, IsInjective
<1>4. IsFiniteSet(AcksComing(s, i))
  BY <1>3, ServerFinite, FS_Injection
<1> QED
  BY <1>4, FS_CardinalityType

\* Everything a proposer may still count, or has counted, for the instance.
Chances(s, i) ==
  Cardinality(Untouched(i) \ {s}) + Cardinality(AcksComing(s, i)) + Counted(s, i)

LEMMA ChancesType ==
  ASSUME TypeInv, GrantsAreUnique, NEW s \in Server, NEW i
  PROVE  /\ IsFiniteSet(Untouched(i) \ {s})
         /\ Cardinality(Untouched(i) \ {s}) \in Nat
         /\ IsFiniteSet(AcksComing(s, i))
         /\ Cardinality(AcksComing(s, i)) \in Nat
         /\ Counted(s, i) \in Nat
<1>1. Untouched(i) \ {s} \in SUBSET Server
  BY DEF Untouched
<1>2. Counted(s, i) \in Nat
  BY DEF Counted, TypeInv, TypeOK, ProposerTypeOK
<1> QED
  BY <1>1, <1>2, GrantersFinite, ComingFinite

LEMMA FewerIsNoMajority ==
  ASSUME NEW m \in Nat, NEW n \in Nat, m <= n, ~Majority(n)
  PROVE  ~Majority(m)
BY GroupAssumption DEF Majority

\* The sum as a fact of a state, to be used for the next one too.
ChancesAreNatural == \A s \in Server, i \in Instance : Chances(s, i) \in Nat

LEMMA ChancesNatural == TypeInv /\ GrantsAreUnique => ChancesAreNatural
<1> SUFFICES ASSUME TypeInv, GrantsAreUnique, NEW s \in Server, NEW i \in Instance
             PROVE  Chances(s, i) \in Nat
  BY DEF ChancesAreNatural
<1> QED
  BY ChancesType DEF Chances

\* No new chance for any proposer, no new majority.
LEMMA StaysBelow ==
  ASSUME TypeInv, GrantsAreUnique, TypeInv', GrantsAreUnique',
         NEW i \in Instance, Stuck(i), NoValueAt(i)',
         \A s \in Server : /\ instance[s] <= instance'[s]
                           /\ Chances(s, i)' <= Chances(s, i)
  PROVE  Stuck(i)'
<1>0. ChancesAreNatural'
  BY ChancesNatural, PTL
<1>1. ASSUME NEW s \in Server, instance'[s] <= i
      PROVE  ~Majority(Chances(s, i)')
  <2>1. instance[s] <= i
    BY <1>1, BoundAssumption DEF TypeInv, TypeOK, ProposerTypeOK, Instance
  <2>2. ~Majority(Chances(s, i))
    BY <2>1 DEF Stuck, Chances
  <2>3. Chances(s, i) \in Nat
    BY ChancesNatural DEF ChancesAreNatural
  <2>4. Chances(s, i)' \in Nat
    BY <1>0 DEF ChancesAreNatural
  <2>5. Chances(s, i)' <= Chances(s, i)
    OBVIOUS
  <2> QED
    BY <2>2, <2>3, <2>4, <2>5, FewerIsNoMajority
<1> QED
  BY <1>1 DEF Stuck, Chances

\* Fewer PREPARE_ACKs to come, and none newly counted: no new chance.
LEMMA ChancesShrink ==
  ASSUME TypeInv, GrantsAreUnique, TypeInv', GrantsAreUnique',
         NEW s \in Server, NEW i,
         Untouched(i)' \subseteq Untouched(i),
         AcksComing(s, i)' \subseteq AcksComing(s, i),
         Counted(s, i)' <= Counted(s, i)
  PROVE  Chances(s, i)' <= Chances(s, i)
<1>1. /\ Cardinality(Untouched(i)' \ {s}) <= Cardinality(Untouched(i) \ {s})
      /\ Cardinality(AcksComing(s, i)') <= Cardinality(AcksComing(s, i))
  BY ChancesType, FS_Subset
<1>2. /\ Cardinality(Untouched(i)' \ {s}) \in Nat
      /\ Cardinality(AcksComing(s, i)') \in Nat /\ Counted(s, i)' \in Nat
  <2>1. Untouched(i)' \ {s} \in SUBSET Server
    BY DEF Untouched
  <2>2. Counted(s, i)' \in Nat
    BY DEF Counted, TypeInv, TypeOK, ProposerTypeOK
  <2>3. IsFiniteSet(AcksComing(s, i)')
    BY ChancesType, FS_Subset
  <2> QED
    BY <2>1, <2>2, <2>3, GrantersFinite, FS_CardinalityType
<1> QED
  BY <1>1, <1>2, ChancesType DEF Chances

\* A grant moves from the acceptors that have not answered to the messages on
\* their way: the sum stays.
LEMMA ChanceGranted ==
  ASSUME TypeInv, GrantsAreUnique, NEW s \in Server, NEW i,
         NEW a \in Server, a # s, a \in Untouched(i), a \notin Untouched(i)',
         Untouched(i)' \subseteq Untouched(i), NEW n,
         AcksComing(s, i)' \subseteq AcksComing(s, i) \cup {n},
         Counted(s, i)' = Counted(s, i)
  PROVE  Chances(s, i)' <= Chances(s, i)
<1> DEFINE rest == (Untouched(i) \ {s}) \ {a}
           coming == AcksComing(s, i) \cup {n}
<1>1. /\ IsFiniteSet(rest)
      /\ Cardinality(rest) = Cardinality(Untouched(i) \ {s}) - 1
  BY ChancesType, FS_RemoveElement
<1>2. /\ IsFiniteSet(coming)
      /\ Cardinality(coming) <= Cardinality(AcksComing(s, i)) + 1
  <2>1. IsFiniteSet(AcksComing(s, i)) /\ Cardinality(AcksComing(s, i)) \in Nat
    BY ChancesType
  <2>2. /\ IsFiniteSet(coming)
        /\ Cardinality(coming) = IF n \in AcksComing(s, i)
                                 THEN Cardinality(AcksComing(s, i))
                                 ELSE Cardinality(AcksComing(s, i)) + 1
    BY <2>1, FS_AddElement
  <2> HIDE DEF coming
  <2> QED
    BY <2>1, <2>2
<1>3. /\ IsFiniteSet(Untouched(i)' \ {s})
      /\ Cardinality(Untouched(i)' \ {s}) <= Cardinality(rest)
  <2>1. Untouched(i)' \ {s} \in SUBSET rest
    OBVIOUS
  <2> QED
    BY <1>1, <2>1, FS_Subset
<1>4. /\ IsFiniteSet(AcksComing(s, i)')
      /\ Cardinality(AcksComing(s, i)') <= Cardinality(coming)
  <2>1. AcksComing(s, i)' \in SUBSET coming
    OBVIOUS
  <2> QED
    BY <1>2, <2>1, FS_Subset
<1>5. /\ Cardinality(rest) \in Nat /\ Cardinality(coming) \in Nat
      /\ Cardinality(Untouched(i)' \ {s}) \in Nat
      /\ Cardinality(AcksComing(s, i)') \in Nat
  BY <1>1, <1>2, <1>3, <1>4, FS_CardinalityType
<1>6. /\ Cardinality(Untouched(i) \ {s}) \in Nat
      /\ Cardinality(AcksComing(s, i)) \in Nat /\ Counted(s, i) \in Nat
  BY ChancesType
<1> HIDE DEF rest, coming
<1> QED
  BY <1>1, <1>2, <1>3, <1>4, <1>5, <1>6 DEF Chances

\* A message counted was one to come: the sum stays.
LEMMA ChanceCounted ==
  ASSUME TypeInv, GrantsAreUnique, NEW s \in Server, NEW i,
         Untouched(i)' = Untouched(i),
         NEW m \in AcksComing(s, i), m \notin AcksComing(s, i)',
         AcksComing(s, i)' \subseteq AcksComing(s, i),
         Counted(s, i)' = Counted(s, i) + 1
  PROVE  Chances(s, i)' <= Chances(s, i)
<1> DEFINE coming == AcksComing(s, i) \ {m}
<1>1. /\ IsFiniteSet(coming)
      /\ Cardinality(coming) = Cardinality(AcksComing(s, i)) - 1
  BY ChancesType, FS_RemoveElement
<1>2. /\ IsFiniteSet(AcksComing(s, i)')
      /\ Cardinality(AcksComing(s, i)') <= Cardinality(coming)
  <2>1. AcksComing(s, i)' \in SUBSET coming
    OBVIOUS
  <2> QED
    BY <1>1, <2>1, FS_Subset
<1>3. Cardinality(coming) \in Nat /\ Cardinality(AcksComing(s, i)') \in Nat
  BY <1>1, <1>2, FS_CardinalityType
<1>4. Cardinality(Untouched(i)' \ {s}) = Cardinality(Untouched(i) \ {s})
  OBVIOUS
<1> HIDE DEF coming
<1> QED
  BY <1>1, <1>2, <1>3, <1>4, ChancesType DEF Chances

\* An acceptor accepts only what an ACCEPT in its queue brings.
LEMMA NewVoteIsAsked ==
  ASSUME TypeInv, NEW a \in Server, AcceptorStep(a), NEW b \in Server,
         NEW i \in Instance, HasAccepted(b, i)'
  PROVE  \/ HasAccepted(b, i)
         \/ \E m \in acceptor_queue[a] : m.msg_type = "ACCEPT" /\ m.instance = i
<1> USE DEF TypeInv, TypeOK
<1>1. \A m \in acceptor_queue[a] :
        m \in AcceptorMessage /\ m.instance \in Instance /\ m.proposal \in Nat
  BY AcceptorMessageFields DEF NetworkTypeOK
<1>2. CASE PrepareFirst(a)
  <2>1. PICK m \in acceptor_queue[a] :
          RecordHistory(a, m.instance, m.proposal, NoProposal, None, None)
    BY <1>2 DEF PrepareFirst
  <2>2. [h_prep |-> m.proposal, h_accp |-> NoProposal, h_accv |-> None,
         cid |-> None] \in HistoryEntry
    BY <1>1, <2>1 DEF HistoryEntry, Promised
  <2>3. /\ accept_history'[a][m.instance].h_accp = NoProposal
        /\ \A c \in Server, j \in Instance :
             c # a \/ j # m.instance => accept_history'[c][j] = accept_history[c][j]
    BY <1>1, <2>1, <2>2, RecordEffect
  <2> QED
    BY <2>3 DEF HasAccepted, Touched
<1>3. CASE PrepareHigher(a)
  <2>1. PICK m \in acceptor_queue[a] :
          /\ Touched(a, m.instance)
          /\ LET h == accept_history[a][m.instance]
             IN  RecordHistory(a, m.instance, m.proposal, h.h_accp, h.h_accv, h.cid)
    BY <1>3 DEF PrepareHigher
  <2> DEFINE h == accept_history[a][m.instance]
  <2>2. [h_prep |-> m.proposal, h_accp |-> h.h_accp, h_accv |-> h.h_accv,
         cid |-> h.cid] \in HistoryEntry
    <3>1. /\ h \in HistoryEntry
          /\ h.h_accp # NoProposal =>
               h.h_accp \in Nat /\ h.h_accv \in Command /\ h.cid \in ClientId
          /\ h.h_accp = NoProposal => h.h_accv = None /\ h.cid = None
      BY <1>1, <2>1, HistoryFields
    <3> QED
      BY <1>1, <2>1, <3>1 DEF HistoryEntry, Promised, Accepted
  <2>3. /\ accept_history'[a][m.instance].h_accp = h.h_accp
        /\ \A c \in Server, j \in Instance :
             c # a \/ j # m.instance => accept_history'[c][j] = accept_history[c][j]
    BY <1>1, <2>1, <2>2, RecordEffect
  <2> QED
    BY <2>1, <2>3 DEF HasAccepted, Touched
<1>4. CASE Accept(a)
  <2>1. PICK m \in acceptor_queue[a] :
          /\ m.msg_type = "ACCEPT"
          /\ RecordHistory(a, m.instance, m.proposal, m.proposal, m.value, m.client_id)
    BY <1>4 DEF Accept
  <2>2. m.instance # i => accept_history'[b][i] = accept_history[b][i]
    BY <2>1 DEF RecordHistory, AcceptorTypeOK
  <2> QED
    BY <2>1, <2>2 DEF HasAccepted, Touched
<1>5. CASE accept_history' = accept_history
  BY <1>5 DEF HasAccepted, Touched
<1> QED
  BY <1>2, <1>3, <1>4, <1>5
     DEF AcceptorStep, DuplicateToAcceptor, PrepareIgnored, AcceptIgnored, Ignore

LEMMA AcceptorStaysStuck ==
  ASSUME AckInv, AckInv', NEW a \in Server, AcceptorStep(a),
         UNCHANGED proposerVars, NEW i \in Instance, Stuck(i)
  PROVE  Stuck(i)'
<1>0. /\ TypeInv /\ GrantsAreUnique /\ NoneToSelf
      /\ TypeInv' /\ GrantsAreUnique'
  BY DEF AckInv, IInv, TypeInv
<1>1. AcceptorEffect(a)
  BY <1>0, AcceptorStepEffect
<1>2. NoValueAt(i)'
  <2>1. NoValueAt(i)
    BY DEF Stuck
  <2>2. \A b \in Server : ~HasAccepted(b, i)'
    BY <1>0, <2>1, NewVoteIsAsked DEF NoValueAt
  <2>3. \A b \in Server : acceptor_queue'[b] \subseteq acceptor_queue[b]
    BY <1>1 DEF AcceptorEffect
  <2> QED
    BY <2>1, <2>2, <2>3 DEF NoValueAt, proposerVars
<1>3. ASSUME NEW s \in Server
      PROVE  Chances(s, i)' <= Chances(s, i)
  <2>1. Untouched(i)' \subseteq Untouched(i)
    BY <1>1 DEF AcceptorEffect, Untouched
  <2>2. Counted(s, i)' = Counted(s, i)
    BY DEF Counted, proposerVars
  <2>3. Counted(s, i)' <= Counted(s, i)
    <3>1. Counted(s, i) \in Nat
      BY <1>0, ChancesType
    <3> QED
      BY <2>2, <3>1
  <2>4. CASE AcksComing(s, i)' \subseteq AcksComing(s, i)
    BY <1>0, <2>1, <2>3, <2>4, ChancesShrink
  <2>5. CASE \E n \in AcksComing(s, i)' : n \notin AcksComing(s, i)
    <3>1. PICK k \in AcksComing(s, i)' : k \notin AcksComing(s, i)
      BY <2>5
    <3>2. k \in proposer_queue'[s] /\ k \notin proposer_queue[s]
      BY <3>1 DEF AcksComing, proposerVars
    <3>3. PICK m \in acceptor_queue[a], n \in ProposerMessage : Answers(a, m, n)
      BY <1>1, <3>2 DEF AcceptorEffect
    <3>4. k = n /\ s = m.origin_id
      BY <3>2, <3>3 DEF Answers
    <3>5. IsGrant(n) /\ n.instance = i
      BY <3>1, <3>4, ProposerMessageFields DEF AcksComing, IsGrant
    <3>6. a # s
      BY <1>0, <3>3, <3>4 DEF NoneToSelf
    <3>7. a \in Untouched(i) /\ a \notin Untouched(i)'
      BY <3>3, <3>5 DEF Answers, Untouched
    <3>8. AcksComing(s, i)' \subseteq AcksComing(s, i) \cup {n}
      BY <3>3 DEF Answers, AcksComing, proposerVars
    <3> QED
      BY <1>0, <2>1, <2>2, <3>6, <3>7, <3>8, ChanceGranted
  <2> QED
    BY <2>4, <2>5
<1>4. \A s \in Server : instance[s] <= instance'[s]
  BY <1>0, BoundAssumption DEF TypeInv, TypeOK, ProposerTypeOK, proposerVars
<1> QED
  BY <1>0, <1>2, <1>3, <1>4, StaysBelow

\* A proposer's step is nothing to the other proposers' rounds.
LEMMA OthersRounds ==
  ASSUME TypeInv, NEW s \in Server, ProposerStep(s), NEW t \in Server, t # s
  PROVE  /\ state'[t] = state[t] /\ instance'[t] = instance[t]
         /\ response_cnt'[t] = response_cnt[t]
<1> USE DEF TypeInv, TypeOK, ProposerTypeOK
<1>1. CASE ReceiveCommand(s) \/ SendPrepare(s) \/ SendAccept(s)
  BY <1>1 DEF ReceiveCommand, SendPrepare, SendAccept
<1>2. CASE ProposingTimesOut(s) \/ ProposingRejects(s) \/ AcceptingTimesOut(s)
  BY <1>2 DEF ProposingTimesOut, ProposingRejects, AcceptingTimesOut, FailRound
<1>3. CASE ProposingSkips(s) \/ AcceptingSkips(s) \/ AcceptingCounts(s)
  BY <1>3 DEF ProposingSkips, AcceptingSkips, AcceptingCounts
<1>4. CASE ProposingCounts(s) \/ ProposingLearns(s)
  BY <1>4 DEF ProposingCounts, ProposingLearns, CountResponse, FailRound
<1>5. CASE AcceptingResolves(s)
  BY <1>5 DEF AcceptingResolves, ExecuteLearnt
<1> QED
  BY <1>1, <1>2, <1>3, <1>4, <1>5 DEF ProposerStep

\* A response at a stuck instance is a PREPARE_ACK that was to come, and not the
\* one that makes the majority.
LEMMA ResponseAtStuck ==
  ASSUME AckInv, NEW s \in Server, NEW i \in Instance, Stuck(i),
         state[s] = "PROPOSING", instance[s] = i,
         NEW m \in proposer_queue[s], CountsInProposing(s, m)
  PROVE  m \in AcksComing(s, i) /\ ~Majority(response_cnt[s] + 1)
<1>1. TypeInv /\ GrantsAreUnique /\ AnswersAreTrue
  BY DEF AckInv, IInv, TypeInv
<1>2. m \in ProposerMessage /\ m \in Inbox(s) /\ m.instance = i
  BY <1>1 DEF TypeInv, TypeOK, NetworkTypeOK, Inbox, CountsInProposing,
              ForThisInstance
<1>3. m.msg_type # "PREPARE_NACK"
  <2>1. ASSUME m.msg_type = "PREPARE_NACK"
        PROVE  m.origin_id \in Server /\ HasAccepted(m.origin_id, i)
    BY <1>1, <1>2, <2>1 DEF AnswersAreTrue, CarriesRequest, Votes
  <2> QED
    BY <2>1 DEF Stuck, NoValueAt
<1>4. m \in AcksComing(s, i)
  BY <1>2, <1>3 DEF CountsInProposing, AcksComing, Known
<1>5. Cardinality(AcksComing(s, i)) \in Nat /\ Cardinality(AcksComing(s, i)) # 0
  BY <1>1, <1>4, ComingFinite, FS_EmptySet
<1>6. /\ Cardinality(Untouched(i) \ {s}) \in Nat
      /\ Counted(s, i) = response_cnt[s] /\ response_cnt[s] \in Nat
  BY <1>1, ChancesType DEF Counted, TypeInv, TypeOK, ProposerTypeOK
<1>7. /\ response_cnt[s] + 1 \in Nat /\ Chances(s, i) \in Nat
      /\ response_cnt[s] + 1 <= Chances(s, i)
  BY <1>5, <1>6 DEF Chances
<1>8. ~Majority(Chances(s, i))
  <2>1. instance[s] <= i
    BY BoundAssumption DEF Instance
  <2> QED
    BY <2>1 DEF Stuck, Chances
<1> QED
  BY <1>4, <1>7, <1>8, FewerIsNoMajority

LEMMA ProposerBringsNoValue ==
  ASSUME AckInv, NEW s \in Server, ProposerStep(s), UNCHANGED acceptorVars,
         NEW i \in Instance, Stuck(i)
  PROVE  NoValueAt(i)'
<1>1. TypeInv /\ NoValueAt(i)
  BY DEF AckInv, IInv, TypeInv, Stuck
<1>2. \A a \in Server : ~HasAccepted(a, i)'
  BY <1>1 DEF NoValueAt, HasAccepted, Touched, acceptorVars
<1>3. ASSUME NEW a \in Server, NEW m \in acceptor_queue'[a],
             m.msg_type = "ACCEPT", m.instance = i
      PROVE  FALSE
  <2>1. m \notin acceptor_queue[a] /\ CarriesRequest(m)
    BY <1>1, <1>3 DEF NoValueAt, CarriesRequest
  <2>2. state[s] = "ACCEPT" /\ instance[s] = i
    BY <1>1, <1>3, <2>1, SentIsOwn
  <2> QED
    BY <1>1, <2>2 DEF NoValueAt
<1>4. ASSUME NEW t \in Server, instance'[t] = i, state'[t] \in {"ACCEPT", "ACCEPTING"}
      PROVE  FALSE
  <2>1. ~ (instance[t] = i /\ state[t] \in {"ACCEPT", "ACCEPTING"})
    BY <1>1 DEF NoValueAt
  <2>2. t = s
    BY <1>1, <1>4, <2>1, OthersRounds
  <2>3. CASE ProposingLearns(s)
    <3>1. PICK m \in proposer_queue[s] : CountResponse(s, m)
      BY <2>3 DEF ProposingLearns
    <3>2. /\ state[s] = "PROPOSING" /\ instance[s] = i /\ CountsInProposing(s, m)
          /\ Majority(response_cnt[s] + 1)
      BY <1>4, <2>2, <2>3, <3>1 DEF ProposingLearns, CountResponse
    <3> QED
      BY <3>2, ResponseAtStuck
  <2>4. CASE SendAccept(s)
    BY <1>4, <2>1, <2>2, <2>4 DEF SendAccept
  <2>5. CASE AcceptingResolves(s)
    BY <1>1, <1>4, <2>2, <2>5
       DEF AcceptingResolves, ExecuteLearnt, TypeInv, TypeOK, ProposerTypeOK
  <2>6. CASE ReceiveCommand(s) \/ SendPrepare(s)
    BY <1>1, <1>4, <2>2, <2>6
       DEF ReceiveCommand, SendPrepare, TypeInv, TypeOK, ProposerTypeOK
  <2>7. CASE ProposingTimesOut(s) \/ ProposingRejects(s) \/ AcceptingTimesOut(s)
    BY <1>1, <1>4, <2>2, <2>7
       DEF ProposingTimesOut, ProposingRejects, AcceptingTimesOut, FailRound,
           TypeInv, TypeOK, ProposerTypeOK
  <2>8. CASE \/ ProposingSkips(s) \/ ProposingCounts(s)
             \/ AcceptingSkips(s) \/ AcceptingCounts(s)
    BY <1>4, <2>1, <2>2, <2>8
       DEF ProposingSkips, ProposingCounts, CountResponse, AcceptingSkips,
           AcceptingCounts
  <2> QED
    BY <2>3, <2>4, <2>5, <2>6, <2>7, <2>8 DEF ProposerStep
<1> QED
  BY <1>2, <1>3, <1>4 DEF NoValueAt

\* Only ProposingCounts raises a count of PREPARE_ACKs.
LEMMA CountedKeeps ==
  ASSUME TypeInv, NEW s \in Server, ProposerStep(s), ~ProposingCounts(s), NEW i
  PROVE  Counted(s, i)' <= Counted(s, i)
<1> USE DEF TypeInv, TypeOK, ProposerTypeOK
<1>1. Counted(s, i) \in Nat
  BY DEF Counted
<1>2. CASE Counted(s, i)' = 0 \/ Counted(s, i)' = Counted(s, i)
  BY <1>1, <1>2
<1>3. CASE ReceiveCommand(s) \/ SendPrepare(s) \/ SendAccept(s)
  BY <1>2, <1>3 DEF ReceiveCommand, SendPrepare, SendAccept, Counted
<1>4. CASE ProposingTimesOut(s) \/ ProposingRejects(s) \/ AcceptingTimesOut(s)
  BY <1>2, <1>4
     DEF ProposingTimesOut, ProposingRejects, AcceptingTimesOut, FailRound, Counted
<1>5. CASE ProposingSkips(s) \/ AcceptingSkips(s) \/ AcceptingCounts(s)
  BY <1>2, <1>5 DEF ProposingSkips, AcceptingSkips, AcceptingCounts, Counted
<1>6. CASE ProposingLearns(s)
  BY <1>2, <1>6 DEF ProposingLearns, FailRound, Counted
<1>7. CASE AcceptingResolves(s)
  BY <1>2, <1>7 DEF AcceptingResolves, ExecuteLearnt, Counted
<1> QED
  BY <1>3, <1>4, <1>5, <1>6, <1>7 DEF ProposerStep

LEMMA ProposerStaysStuck ==
  ASSUME AckInv, AckInv', NEW s \in Server, ProposerStep(s),
         UNCHANGED acceptorVars, NEW i \in Instance, Stuck(i)
  PROVE  Stuck(i)'
<1>0. TypeInv /\ GrantsAreUnique /\ TypeInv' /\ GrantsAreUnique'
  BY DEF AckInv, IInv, TypeInv
<1>1. Untouched(i)' = Untouched(i)
  BY DEF Untouched, Touched, acceptorVars
<1>2. ASSUME NEW t \in Server
      PROVE  /\ AcksComing(t, i)' \subseteq AcksComing(t, i)
             /\ proposer_msg_history[t] \subseteq proposer_msg_history'[t]
  BY <1>0, ProposerInbox DEF AcksComing
<1>3. ASSUME NEW t \in Server, Counted(t, i)' <= Counted(t, i)
      PROVE  Chances(t, i)' <= Chances(t, i)
  BY <1>0, <1>1, <1>2, <1>3, ChancesShrink
<1>4. ASSUME NEW t \in Server, t # s
      PROVE  Chances(t, i)' <= Chances(t, i)
  <2>1. Counted(t, i)' = Counted(t, i) /\ Counted(t, i) \in Nat
    BY <1>0, <1>4, OthersRounds DEF Counted, TypeInv, TypeOK, ProposerTypeOK
  <2> QED
    BY <1>3, <2>1
<1>5. ASSUME ~ProposingCounts(s) \/ instance[s] # i
      PROVE  Chances(s, i)' <= Chances(s, i)
  <2>1. CASE ~ProposingCounts(s)
    BY <1>0, <1>3, <2>1, CountedKeeps
  <2>2. CASE ProposingCounts(s) /\ instance[s] # i
    <3>1. Counted(s, i) = 0 /\ Counted(s, i)' = 0
      BY <2>2 DEF Counted, ProposingCounts, CountResponse
    <3> QED
      BY <1>3, <3>1
  <2> QED
    BY <1>5, <2>1, <2>2
<1>6. ASSUME ProposingCounts(s), instance[s] = i
      PROVE  Chances(s, i)' <= Chances(s, i)
  <2>1. PICK m \in proposer_queue[s] : CountResponse(s, m)
    BY <1>6 DEF ProposingCounts
  <2>2. state[s] = "PROPOSING" /\ CountsInProposing(s, m)
    BY <1>6, <2>1 DEF ProposingCounts, CountResponse
  <2>3. m \in AcksComing(s, i)
    BY <1>6, <2>2, ResponseAtStuck
  <2>4. m \notin AcksComing(s, i)'
    <3>1. m \in proposer_msg_history'[s]
      BY <1>0, <2>1
         DEF CountResponse, HandleMessage, TypeInv, TypeOK, ProposerTypeOK
    <3> QED
      BY <3>1 DEF AcksComing
  <2>5. Counted(s, i)' = Counted(s, i) + 1
    BY <1>0, <1>6, <2>1, <2>2
       DEF Counted, ProposingCounts, CountResponse, TypeInv, TypeOK, ProposerTypeOK
  <2> QED
    BY <1>0, <1>1, <1>2, <2>3, <2>4, <2>5, ChanceCounted
<1>7. \A t \in Server : instance[t] <= instance'[t]
  <2>1. CASE AcceptingResolves(s)
    <3>1. \/ instance' = instance
          \/ instance' = [instance EXCEPT ![s] = @ + 1]
      BY <2>1 DEF AcceptingResolves, ExecuteLearnt
    <3>2. \A t \in Server : instance[t] \in Int
      BY <1>0, BoundAssumption DEF TypeInv, TypeOK, ProposerTypeOK
    <3>3. instance \in [Server -> 0 .. MaxInstance]
      BY <1>0 DEF TypeInv, TypeOK, ProposerTypeOK
    <3> QED
      BY <3>1, <3>2, <3>3
  <2>2. CASE instance' = instance
    BY <1>0, <2>2 DEF TypeInv, TypeOK, ProposerTypeOK
  <2> QED
    BY <2>1, <2>2
       DEF ProposerStep, ReceiveCommand, SendPrepare, ProposingTimesOut,
           ProposingRejects, ProposingSkips, ProposingCounts, ProposingLearns,
           CountResponse, SendAccept, AcceptingTimesOut, AcceptingSkips,
           AcceptingCounts
<1>8. NoValueAt(i)'
  BY ProposerBringsNoValue
<1>9. \A t \in Server : Chances(t, i)' <= Chances(t, i)
  BY <1>4, <1>5, <1>6
<1> QED
  BY <1>0, <1>7, <1>8, <1>9, StaysBelow

\* A lost message, or no step at all.
LEMMA DropStaysStuck ==
  ASSUME AckInv, AckInv', NEW i \in Instance, Stuck(i),
         UNCHANGED <<acceptorVars, proposerVars>>,
         \A t \in Server : /\ acceptor_queue'[t] \subseteq acceptor_queue[t]
                           /\ proposer_queue'[t] \subseteq proposer_queue[t]
  PROVE  Stuck(i)'
<1>0. TypeInv /\ GrantsAreUnique /\ TypeInv' /\ GrantsAreUnique'
  BY DEF AckInv, IInv, TypeInv
<1>1. NoValueAt(i)'
  <2>1. NoValueAt(i)
    BY DEF Stuck
  <2>2. \A a \in Server : HasAccepted(a, i)' <=> HasAccepted(a, i)
    BY DEF HasAccepted, Touched, acceptorVars
  <2> QED
    BY <2>1, <2>2 DEF NoValueAt, proposerVars
<1>2. ASSUME NEW t \in Server
      PROVE  Chances(t, i)' <= Chances(t, i)
  <2>1. Untouched(i)' = Untouched(i)
    BY DEF Untouched, Touched, acceptorVars
  <2>2. AcksComing(t, i)' \subseteq AcksComing(t, i)
    BY DEF AcksComing, proposerVars
  <2>3. Counted(t, i)' = Counted(t, i)
    BY DEF Counted, proposerVars
  <2>4. Counted(t, i)' <= Counted(t, i)
    <3>1. Counted(t, i) \in Nat
      BY <1>0, ChancesType
    <3> QED
      BY <2>3, <3>1
  <2> QED
    BY <1>0, <2>1, <2>2, <2>4, ChancesShrink
<1>3. \A t \in Server : instance[t] <= instance'[t]
  BY <1>0 DEF TypeInv, TypeOK, ProposerTypeOK, proposerVars
<1> QED
  BY <1>0, <1>1, <1>2, <1>3, StaysBelow

\* Livelock is for good.  When the acceptors have spread their one usable
\* PREPARE_ACK so thinly that no proposer can reach a majority, no later
\* number, retry, late answer, loss or duplicate gives the instance a value.
THEOREM StuckForeverHolds == Spec => StuckForever
<1>1. ASSUME AckInv, AckInv', [Next]_vars, NEW i \in Instance, Stuck(i)
      PROVE  Stuck(i)'
  <2>1. CASE UNCHANGED vars
    <3>1. /\ UNCHANGED <<acceptorVars, proposerVars>>
          /\ acceptor_queue' = acceptor_queue /\ proposer_queue' = proposer_queue
      BY <2>1 DEF vars, networkVars
    <3> QED
      BY <1>1, <3>1, DropStaysStuck
  <2>2. ASSUME NEW s \in Server, DropToAcceptor(s) \/ DropToProposer(s),
               UNCHANGED <<acceptorVars, proposerVars>>
        PROVE  Stuck(i)'
    <3>1. \A t \in Server : /\ acceptor_queue'[t] \subseteq acceptor_queue[t]
                            /\ proposer_queue'[t] \subseteq proposer_queue[t]
      BY <1>1, <2>2, DropValues DEF AckInv, IInv, TypeInv
    <3> QED
      BY <1>1, <2>2, <3>1, DropStaysStuck
  <2> QED
    BY <1>1, <2>1, <2>2, AcceptorStaysStuck, ProposerStaysStuck DEF Next
<1>2. AckInv /\ AckInv' /\ [Next]_vars
        => [\A i \in Instance : Stuck(i) => Stuck(i)']_vars
  BY <1>1
<1> QED
  BY <1>2, AckInvHolds, PTL DEF Spec, StuckForever

----------------------------------------------------------------------------
(* What a step does to the logs, the lock sets and the answers *)

logVars == <<instance, instance_resolutions, lock_set, client_acks>>

\* Only a resolution changes them, and only a resolution can end a process.
LEMMA QuietStep ==
  ASSUME TypeInv, NEW s \in Server, ProposerStep(s), ~AcceptingResolves(s)
  PROVE  /\ UNCHANGED logVars
         /\ state[s] # "DEAD" /\ state'[s] # "DEAD"
         /\ \A t \in Server \ {s} : state'[t] = state[t] /\ learnt'[t] = learnt[t]
BY DEF ProposerStep, ReceiveCommand, SendPrepare, ProposingTimesOut,
       ProposingRejects, ProposingSkips, ProposingCounts, ProposingLearns,
       CountResponse, SendAccept, AcceptingTimesOut, AcceptingSkips,
       AcceptingCounts, FailRound, logVars, TypeInv, TypeOK, ProposerTypeOK

\* A resolution records the learnt request, for which a majority has voted.
LEMMA ResolveEffect ==
  ASSUME AckInv, NEW s \in Server, AcceptingResolves(s)
  PROVE  /\ state[s] = "ACCEPTING" /\ HasRequest(s)
         /\ instance[s] \in Instance /\ learnt[s] \in Request
         /\ OwnRequest(s) \in Request
         /\ instance_resolutions' =
              [instance_resolutions EXCEPT ![s][instance[s]] = learnt[s]]
         /\ client_acks' =
              IF learnt[s] # OwnRequest(s) THEN client_acks
              ELSE [client_acks EXCEPT ![s] =
                      Append(@, [instance |-> instance[s],
                                 value |-> learnt[s].command,
                                 client_id |-> learnt[s].client_id])]
         /\ ExecuteLearnt(s)
<1> USE DEF AckInv
<1>1. PICK m \in proposer_queue[s] :
        /\ CountsInAccepting(s, m) /\ AnswerClient(s, m)
        /\ instance_resolutions' =
             [instance_resolutions EXCEPT ![s][instance[s]] =
                [command |-> learnt[s].command, client_id |-> m.client_id]]
  BY DEF AcceptingResolves
<1>2. /\ state[s] = "ACCEPTING" /\ Majority(response_cnt[s] + 1)
      /\ ExecuteLearnt(s)
  BY DEF AcceptingResolves
<1>3. /\ HasRequest(s) /\ instance[s] \in Instance /\ learnt[s] \in Request
      /\ OwnRequest(s) \in Request
  BY <1>2, OwnRequestType DEF IInv, TypeOK, BusyHasRequest
<1>4. m.client_id = learnt[s].client_id
  BY <1>1, <1>2, ResolvedIsChosen
<1>5. [command |-> learnt[s].command, client_id |-> m.client_id] = learnt[s]
  BY <1>3, <1>4, RequestFields
<1> QED
  BY <1>1, <1>2, <1>3, <1>4, <1>5 DEF AnswerClient

LEMMA InstanceType ==
  ASSUME AckInv, NEW s \in Server
  PROVE  instance[s] \in Int /\ \A i \in Instance : i \in Int
BY BoundAssumption DEF AckInv, IInv, TypeOK, ProposerTypeOK, Instance

\* The same, variable by variable, for the two outcomes.
LEMMA ResolveFields ==
  ASSUME AckInv, NEW s \in Server, AcceptingResolves(s)
  PROVE  /\ \A t \in Server : t # s =>
              /\ state'[t] = state[t] /\ learnt'[t] = learnt[t]
              /\ instance'[t] = instance[t] /\ lock_set'[t] = lock_set[t]
              /\ client_acks'[t] = client_acks[t]
         /\ \A t \in Server : \A k \in Instance :
              instance_resolutions'[t][k] =
                IF t = s /\ k = instance[s] THEN learnt[s]
                ELSE instance_resolutions[t][k]
         /\ \/ /\ Executable(s, learnt[s].command)
               /\ lock_set'[s] =
                    IF learnt[s].command.command_type = "LOCK"
                    THEN lock_set[s] \cup {learnt[s].command.resource_id}
                    ELSE lock_set[s] \ {learnt[s].command.resource_id}
               /\ instance'[s] = instance[s] + 1
               /\ state'[s] # "DEAD" /\ state'[s] # "ACCEPTING"
               /\ learnt[s] = OwnRequest(s) => state'[s] = "IDLE"
               /\ learnt[s] # OwnRequest(s) => state'[s] = "READY"
               /\ learnt'[s] = OwnRequest(s)
            \/ /\ ~Executable(s, learnt[s].command)
               /\ UNCHANGED <<lock_set, instance, learnt>>
               /\ state'[s] = "DEAD"
<1>1. /\ instance[s] \in Instance
      /\ instance_resolutions' =
           [instance_resolutions EXCEPT ![s][instance[s]] = learnt[s]]
      /\ ExecuteLearnt(s)
  BY ResolveEffect
<1>0. \A t \in Server \ {s} : client_acks'[t] = client_acks[t]
  <2>1. PICK m \in proposer_queue[s] : AnswerClient(s, m)
    BY DEF AcceptingResolves
  <2> QED
    BY <2>1 DEF AnswerClient, AckInv, IInv, TypeOK, ProposerTypeOK
<1>2. \A t \in Server : \A k \in Instance :
        instance_resolutions'[t][k] =
          IF t = s /\ k = instance[s] THEN learnt[s]
          ELSE instance_resolutions[t][k]
  BY <1>1 DEF AckInv, IInv, TypeOK, ProposerTypeOK
<1>3. CASE /\ Executable(s, learnt[s].command)
           /\ Execute(s, learnt[s].command)
           /\ instance' = [instance EXCEPT ![s] = @ + 1]
           /\ learnt' = [learnt EXCEPT ![s] = OwnRequest(s)]
           /\ state' = [state EXCEPT ![s] =
                          IF learnt[s] = OwnRequest(s) THEN "IDLE" ELSE "READY"]
  BY <1>0, <1>1, <1>2, <1>3 DEF Execute, AckInv, IInv, TypeOK, ProposerTypeOK
<1>4. CASE /\ ~Executable(s, learnt[s].command)
           /\ state' = [state EXCEPT ![s] = "DEAD"]
           /\ UNCHANGED <<lock_set, instance, learnt>>
  BY <1>0, <1>1, <1>2, <1>4 DEF AckInv, IInv, TypeOK, ProposerTypeOK
<1> QED
  BY <1>1, <1>3, <1>4 DEF ExecuteLearnt

\* The answers of the proposer that resolves.
LEMMA ResolveAcks ==
  ASSUME AckInv, NEW s \in Server, AcceptingResolves(s)
  PROVE  \/ learnt[s] # OwnRequest(s) /\ client_acks'[s] = client_acks[s]
         \/ /\ learnt[s] = OwnRequest(s)
            /\ Answered(s)' = Answered(s) + 1
            /\ DOMAIN client_acks'[s] = DOMAIN client_acks[s] \cup {Answered(s) + 1}
            /\ client_acks'[s][Answered(s) + 1].instance = instance[s]
            /\ \A k \in DOMAIN client_acks[s] :
                 client_acks'[s][k] = client_acks[s][k]
<1>1. client_acks \in [Server -> Seq(ClientAck)]
  BY DEF AckInv, IInv, TypeOK, ProposerTypeOK
<1>2. CASE learnt[s] # OwnRequest(s)
  BY <1>2, ResolveEffect
<1>3. CASE learnt[s] = OwnRequest(s)
  <2> DEFINE new == [instance |-> instance[s], value |-> learnt[s].command,
                     client_id |-> learnt[s].client_id]
  <2>1. client_acks'[s] = Append(client_acks[s], new)
    BY <1>1, <1>3, ResolveEffect
  <2>2. client_acks[s] \in Seq(ClientAck)
    BY <1>1
  <2>3. new.instance = instance[s]
    OBVIOUS
  <2> HIDE DEF new
  <2>4. /\ Len(client_acks'[s]) = Len(client_acks[s]) + 1
        /\ DOMAIN client_acks'[s] =
             DOMAIN client_acks[s] \cup {Len(client_acks[s]) + 1}
        /\ client_acks'[s][Len(client_acks[s]) + 1] = new
        /\ \A k \in DOMAIN client_acks[s] : client_acks'[s][k] = client_acks[s][k]
    BY <2>1, <2>2
  <2> QED
    BY <1>3, <2>3, <2>4 DEF Answered
<1> QED
  BY <1>2, <1>3

----------------------------------------------------------------------------
(* The resources that a prefix of the log leaves locked *)

LEMMA HeldUnchanged ==
  ASSUME NEW s \in Server, NEW i \in Int,
         \A k \in Instance :
           k < i => instance_resolutions'[s][k] = instance_resolutions[s][k]
  PROVE  HeldBefore(s, i)' = HeldBefore(s, i)
<1>1. \A k \in Instance, resource \in Resource :
        k < i => /\ Locks(s, k, resource)' <=> Locks(s, k, resource)
                 /\ Concerns(s, k, resource)' <=> Concerns(s, k, resource)
  BY DEF Locks, Concerns, Resolved
<1> QED
  BY <1>1 DEF HeldBefore, LastBefore

\* One more resolution locks or releases its resource.
LEMMA HeldAfter ==
  ASSUME NEW s \in Server, NEW i \in Instance, NEW r \in Request,
         instance_resolutions'[s][i] = r,
         \A k \in Instance :
           k < i => instance_resolutions'[s][k] = instance_resolutions[s][k]
  PROVE  HeldBefore(s, i + 1)' =
           IF r.command.command_type = "LOCK"
           THEN HeldBefore(s, i) \cup {r.command.resource_id}
           ELSE HeldBefore(s, i) \ {r.command.resource_id}
<1> DEFINE R == r.command.resource_id
<1>1. \A k \in Instance : k \in Int
  BY BoundAssumption DEF Instance
<1>2. R \in Resource /\ r # None
  BY NoneAssumption DEF Request, Command
<1>3. \A k \in Instance, resource \in Resource :
        k < i => /\ Locks(s, k, resource)' <=> Locks(s, k, resource)
                 /\ Concerns(s, k, resource)' <=> Concerns(s, k, resource)
  BY DEF Locks, Concerns, Resolved
<1>4. \A resource \in Resource :
        /\ Concerns(s, i, resource)' <=> resource = R
        /\ Locks(s, i, resource)' <=>
             resource = R /\ r.command.command_type = "LOCK"
  BY <1>2 DEF Locks, Concerns, Resolved
<1>5. ASSUME NEW resource \in Resource, resource # R
      PROVE  resource \in HeldBefore(s, i + 1)' <=> resource \in HeldBefore(s, i)
  <2>1. \A k \in Instance : k < i =>
          (LastBefore(s, k, i + 1, resource)' <=> LastBefore(s, k, i, resource))
    BY <1>1, <1>3, <1>4, <1>5 DEF LastBefore
  <2>2. \A k \in Instance :
          LastBefore(s, k, i + 1, resource)' => k < i \/ k = i
    BY <1>1 DEF LastBefore
  <2>3. \A k \in Instance : LastBefore(s, k, i, resource) => k < i
    BY DEF LastBefore
  <2> QED
    BY <1>3, <1>4, <1>5, <2>1, <2>2, <2>3 DEF HeldBefore
<1>6. CASE r.command.command_type = "LOCK"
  <2>1. Locks(s, i, R)' /\ LastBefore(s, i, i + 1, R)'
    BY <1>1, <1>2, <1>4, <1>6 DEF LastBefore
  <2>2. R \in HeldBefore(s, i + 1)'
    BY <1>2, <2>1 DEF HeldBefore
  <2> QED
    BY <1>5, <1>6, <2>2 DEF HeldBefore
<1>7. CASE r.command.command_type # "LOCK"
  <2>1. \A k \in Instance :
          LastBefore(s, k, i + 1, R)' => k = i
    BY <1>1, <1>2, <1>4 DEF LastBefore
  <2>2. R \notin HeldBefore(s, i + 1)'
    BY <1>2, <1>4, <1>7, <2>1 DEF HeldBefore
  <2> QED
    BY <1>5, <1>7, <2>2 DEF HeldBefore
<1> QED
  BY <1>6, <1>7

\* Two logs that agree before i leave the same resources locked.
LEMMA HeldAgree ==
  ASSUME NEW s \in Server, NEW t \in Server, NEW i \in Int,
         \A k \in Instance :
           k < i => instance_resolutions[s][k] = instance_resolutions[t][k]
  PROVE  HeldBefore(s, i) = HeldBefore(t, i)
<1>1. \A k \in Instance, resource \in Resource :
        k < i => /\ Locks(s, k, resource) <=> Locks(t, k, resource)
                 /\ Concerns(s, k, resource) <=> Concerns(t, k, resource)
  BY DEF Locks, Concerns, Resolved
<1> QED
  BY <1>1 DEF HeldBefore, LastBefore

\* Two proposers that have both resolved what is before i.
LEMMA PrefixesAgree ==
  ASSUME IInv, ResolvedInOrder, NEW s \in Server, NEW t \in Server, NEW i \in Int,
         i <= instance[s], i <= instance[t]
  PROVE  /\ \A k \in Instance :
              k < i => instance_resolutions[s][k] = instance_resolutions[t][k]
         /\ HeldBefore(s, i) = HeldBefore(t, i)
<1>1. \A k \in Instance : k < i => Resolved(s, k) /\ Resolved(t, k)
  BY BoundAssumption DEF ResolvedInOrder, Instance, IInv, TypeOK, ProposerTypeOK
<1>2. \A k \in Instance :
        k < i => instance_resolutions[s][k] = instance_resolutions[t][k]
  BY <1>1, IInvImpliesAgreement DEF Agreement
<1> QED
  BY <1>2, HeldAgree

----------------------------------------------------------------------------
(* A server resolves the instances in order *)

LEMMA ResolvesInOrder ==
  ASSUME AckInv, ResolvedInOrder, NEW s \in Server, AcceptingResolves(s)
  PROVE  ResolvedInOrder'
<1>a. \A t \in Server : state'[t] = "DEAD" => instance'[t] \in Instance
  BY ResolveFields, ResolveEffect DEF ResolvedInOrder
<1> SUFFICES ASSUME NEW t \in Server, NEW i \in Instance
             PROVE  Resolved(t, i)' <=>
                      i < instance'[t] \/ (i = instance'[t] /\ state'[t] = "DEAD")
  BY <1>a DEF ResolvedInOrder, Resolved
<1>1. i \in Int /\ instance[t] \in Int /\ instance[s] \in Int
  BY BoundAssumption DEF Instance, AckInv, IInv, TypeOK, ProposerTypeOK
<1>2. Resolved(t, i) <=> i < instance[t] \/ (i = instance[t] /\ state[t] = "DEAD")
  BY DEF ResolvedInOrder
<1>3. state[s] = "ACCEPTING" /\ learnt[s] # None
  BY ResolveEffect, NoneAssumption
<1>4. instance_resolutions'[t][i] =
        IF t = s /\ i = instance[s] THEN learnt[s] ELSE instance_resolutions[t][i]
  BY ResolveFields, ZenonT(60)
<1>5. CASE t # s
  <2>1. \A u \in Server \ {s} : state'[u] = state[u] /\ instance'[u] = instance[u]
    BY ResolveFields, ZenonT(60)
  <2> QED
    BY <1>2, <1>4, <1>5, <2>1 DEF Resolved
<1>6. CASE t = s
  <2>1. \/ instance'[s] = instance[s] + 1 /\ state'[s] # "DEAD"
        \/ instance'[s] = instance[s] /\ state'[s] = "DEAD"
    BY ResolveFields
  <2> QED
    BY <1>1, <1>2, <1>3, <1>4, <1>6, <2>1 DEF Resolved
<1> QED
  BY <1>5, <1>6

\* The instance a proposer resolves is a new one for it.
LEMMA NotYetResolved ==
  ASSUME TypeInv, ResolvedInOrder, NEW s \in Server, state[s] # "DEAD",
         instance[s] \in Instance
  PROVE  ~Resolved(s, instance[s])
BY BoundAssumption DEF ResolvedInOrder, Instance

\* Each resolution is new for its proposer, so it moves no earlier one.
LEMMA ResolvesNew ==
  ASSUME AckInv, ResolvedInOrder, NEW s \in Server, AcceptingResolves(s),
         NEW t \in Server
  PROVE  /\ ~Resolved(s, instance[s])
         /\ \A k \in Instance :
              Resolved(t, k) =>
                /\ instance_resolutions'[t][k] = instance_resolutions[t][k]
                /\ Resolved(t, k)'
                /\ t = s => k < instance[s]
         /\ \A k \in Instance :
              k < instance[t] \/ (t # s /\ k = instance[t]) =>
                instance_resolutions'[t][k] = instance_resolutions[t][k]
<1>1. state[s] = "ACCEPTING" /\ instance[s] \in Instance
  BY ResolveEffect
<1>2. ~Resolved(s, instance[s])
  BY <1>1, NotYetResolved DEF AckInv, IInv, TypeInv
<1>3. \A k \in Instance : instance_resolutions'[t][k] =
        IF t = s /\ k = instance[s] THEN learnt[s] ELSE instance_resolutions[t][k]
  BY ResolveFields
<1>4. instance[s] \in Int
  BY <1>1, BoundAssumption DEF Instance
<1> QED
  BY <1>1, <1>2, <1>3, <1>4 DEF Resolved, ResolvedInOrder

\* An answer is given where the log holds the request, after the earlier answers.
LEMMA ResolvesAcksInOrder ==
  ASSUME AckInv, ResolvedInOrder, AcksInOrder, NEW s \in Server,
         AcceptingResolves(s)
  PROVE  AcksInOrder'
<1>1. client_acks \in [Server -> Seq(ClientAck)]
  BY DEF AckInv, IInv, TypeOK, ProposerTypeOK
<1>2. ASSUME NEW t \in Server, NEW k \in DOMAIN client_acks[t]
      PROVE  client_acks[t][k].instance \in Instance
  <2>1. client_acks[t] \in Seq(ClientAck)
    BY <1>1
  <2>2. client_acks[t][k] \in ClientAck
    BY <2>1
  <2> QED
    BY <2>2 DEF ClientAck
<1>3. \A t \in Server : \A k \in DOMAIN client_acks[t] :
        /\ Resolved(t, client_acks[t][k].instance)
        /\ instance_resolutions[t][client_acks[t][k].instance] = Script[t][k]
  BY DEF AcksInOrder
<1>4. ASSUME NEW t \in Server, NEW k \in DOMAIN client_acks[t]
      PROVE  /\ instance_resolutions'[t][client_acks[t][k].instance] = Script[t][k]
             /\ instance_resolutions'[t][client_acks[t][k].instance] # None
             /\ t = s => client_acks[t][k].instance < instance[s]
  BY <1>2, <1>3, ResolvesNew DEF Resolved
<1>5. CASE client_acks'[s] = client_acks[s]
  <2>1. \A t \in Server : client_acks'[t] = client_acks[t]
    BY <1>5, ResolveFields
  <2>2. \A t \in Server : Answered(t) <= Len(Script[t])
    BY DEF AcksInOrder
  <2> QED
    BY <1>4, <2>1, <2>2 DEF AcksInOrder, Answered, Resolved
<1>6. CASE learnt[s] = OwnRequest(s) /\ client_acks'[s] # client_acks[s]
  <2> DEFINE n == Answered(s) + 1
  <2>1. /\ Answered(s)' = n
        /\ DOMAIN client_acks'[s] = DOMAIN client_acks[s] \cup {n}
        /\ client_acks'[s][n].instance = instance[s]
        /\ \A k \in DOMAIN client_acks[s] : client_acks'[s][k] = client_acks[s][k]
    BY <1>6, ResolveAcks
  <2>2. /\ instance_resolutions'[s][instance[s]] = Script[s][n]
        /\ Script[s][n] # None /\ n <= Len(Script[s]) /\ n \in Nat
        /\ \A k \in DOMAIN client_acks[s] : k < n
    <3>1. /\ HasRequest(s) /\ OwnRequest(s) \in Request
          /\ instance[s] \in Instance /\ learnt[s] = OwnRequest(s)
      BY <1>6, ResolveEffect
    <3>2. instance_resolutions'[s][instance[s]] = learnt[s]
      BY <3>1, ResolveFields
    <3>3. /\ client_acks[s] \in Seq(ClientAck)
          /\ Script[s] \in Seq(Request)
      BY <1>1, ScriptAssumption
    <3> QED
      BY <3>1, <3>2, <3>3, NoneAssumption DEF OwnRequest, HasRequest, Answered
  <2>3. \A t \in Server \ {s} : client_acks'[t] = client_acks[t]
    BY ResolveFields
  <2> HIDE DEF n
  <2> SUFFICES ASSUME NEW t \in Server
               PROVE  /\ Answered(t)' <= Len(Script[t])
                      /\ \A k \in DOMAIN client_acks'[t] :
                           /\ instance_resolutions'[t][client_acks'[t][k].instance]
                                = Script[t][k]
                           /\ instance_resolutions'[t][client_acks'[t][k].instance]
                                # None
                           /\ \A j \in DOMAIN client_acks'[t] : j < k =>
                                client_acks'[t][j].instance
                                  < client_acks'[t][k].instance
    BY DEF AcksInOrder, Resolved
  <2>4. CASE t # s
    <3>1. client_acks'[t] = client_acks[t]
      BY <2>3, <2>4
    <3> QED
      BY <1>4, <3>1 DEF AcksInOrder, Answered
  <2>5. CASE t = s
    <3>1. Answered(s)' <= Len(Script[s])
      BY <2>1, <2>2
    <3>2. ASSUME NEW k \in DOMAIN client_acks'[s]
          PROVE  /\ instance_resolutions'[s][client_acks'[s][k].instance]
                      = Script[s][k]
                 /\ instance_resolutions'[s][client_acks'[s][k].instance] # None
      BY <1>4, <2>1, <2>2
    <3>3. ASSUME NEW k \in DOMAIN client_acks'[s], NEW j \in DOMAIN client_acks'[s],
                 j < k
          PROVE  client_acks'[s][j].instance < client_acks'[s][k].instance
      <4>1. CASE k = n
        BY <1>4, <2>1, <2>2, <3>3, <4>1
      <4>2. CASE k # n
        <5>1. k \in DOMAIN client_acks[s] /\ k < n /\ k \in Int
          BY <1>1, <2>1, <2>2, <4>2
        <5>2. j \in DOMAIN client_acks[s]
          BY <1>1, <2>1, <2>2, <3>3, <5>1
        <5> QED
          BY <2>1, <3>3, <5>1, <5>2 DEF AcksInOrder
      <4> QED
        BY <4>1, <4>2
    <3> QED
      BY <2>5, <3>1, <3>2, <3>3
  <2> QED
    BY <2>4, <2>5
<1> QED
  BY <1>5, <1>6, ResolveAcks

----------------------------------------------------------------------------
(* The lock set is what the log leaves locked *)

LEMMA ResolvesExecuted ==
  ASSUME AckInv, ResolvedInOrder, HeldIsExecuted, NEW s \in Server,
         AcceptingResolves(s)
  PROVE  HeldIsExecuted'
<1> SUFFICES ASSUME NEW t \in Server
             PROVE  lock_set'[t] = HeldBefore(t, instance[t])'
  BY DEF HeldIsExecuted
<1>1. /\ instance[t] \in Int /\ instance[s] \in Instance /\ learnt[s] \in Request
      /\ instance[s] \in Int
  BY ResolveEffect, InstanceType
<1>2. PICK i \in Int : i = instance[t]
  BY <1>1
<1>3. lock_set[t] = HeldBefore(t, i)
  BY <1>2 DEF HeldIsExecuted
<1>4. \A k \in Instance :
        k < i => instance_resolutions'[t][k] = instance_resolutions[t][k]
  BY <1>2, ResolvesNew
<1>5. HeldBefore(t, i)' = HeldBefore(t, i)
  BY <1>4, HeldUnchanged
<1>6. CASE instance'[t] = instance[t] /\ lock_set'[t] = lock_set[t]
  BY <1>2, <1>3, <1>5, <1>6
<1>7. CASE /\ t = s /\ instance'[s] = instance[s] + 1
           /\ lock_set'[s] =
                IF learnt[s].command.command_type = "LOCK"
                THEN lock_set[s] \cup {learnt[s].command.resource_id}
                ELSE lock_set[s] \ {learnt[s].command.resource_id}
  <2>1. PICK r \in Request : r = learnt[s]
    BY <1>1
  <2>2. instance_resolutions'[t][i] = r /\ i \in Instance
    BY <1>1, <1>2, <1>7, <2>1, ResolveFields
  <2>3. HeldBefore(t, i + 1)' =
          IF r.command.command_type = "LOCK"
          THEN HeldBefore(t, i) \cup {r.command.resource_id}
          ELSE HeldBefore(t, i) \ {r.command.resource_id}
    BY <1>4, <2>2, HeldAfter
  <2>4. instance'[t] = i + 1
    BY <1>2, <1>7
  <2> QED
    BY <1>2, <1>3, <1>7, <2>1, <2>3, <2>4
<1>8. t # s => instance'[t] = instance[t] /\ lock_set'[t] = lock_set[t]
  BY ResolveFields
<1> QED
  BY <1>6, <1>7, <1>8, ResolveFields

\* What is executed is legal, and what is not ends its process.
LEMMA ResolvesLegally ==
  ASSUME AckInv, ResolvedInOrder, HeldIsExecuted, ExecutedLegally,
         NEW s \in Server, AcceptingResolves(s)
  PROVE  ExecutedLegally'
<1>1. /\ state[s] = "ACCEPTING" /\ instance[s] \in Instance
      /\ learnt[s] \in Request /\ instance[s] \in Int
  BY ResolveEffect, InstanceType
<1>2. \A t \in Server : instance[t] \in Int /\ instance'[t] \in Int
  <2>1. \A t \in Server : instance[t] \in Int
    BY InstanceType
  <2>2. \A t \in Server : instance'[t] = instance[t] \/ instance'[t] = instance[t] + 1
    BY ResolveFields
  <2> QED
    BY <2>1, <2>2
<1> SUFFICES ASSUME NEW t \in Server, NEW i \in Instance,
                    instance_resolutions'[t][i] # None
             PROVE  LegalAt(t, i, instance_resolutions[t][i].command)'
                      <=> i < instance'[t]
  BY DEF ExecutedLegally, Resolved
<1>3. i \in Int
  BY BoundAssumption DEF Instance
<1>4. PICK c : c = instance_resolutions'[t][i].command
  OBVIOUS
<1>5. i <= instance[t]
  <2>1. CASE t = s /\ i = instance[s]
    BY <1>2, <2>1
  <2>2. CASE ~(t = s /\ i = instance[s])
    <3>1. instance_resolutions'[t][i] = instance_resolutions[t][i]
      BY <2>2, ResolveFields, ZenonT(60)
    <3> QED
      BY <1>2, <1>3, <3>1 DEF ResolvedInOrder, Resolved
  <2> QED
    BY <2>1, <2>2
<1>6. \A k \in Instance :
        k < i => instance_resolutions'[t][k] = instance_resolutions[t][k]
  <2>1. \A k \in Instance : k < i => k < instance[t]
    BY <1>2, <1>3, <1>5, BoundAssumption DEF Instance
  <2> QED
    BY <2>1, ResolvesNew
<1>7. LegalAt(t, i, c)' <=> LegalAt(t, i, c)
  BY <1>3, <1>6, HeldUnchanged DEF LegalAt
<1>8. CASE t = s /\ i = instance[s]
  <2>1. c = learnt[s].command
    BY <1>4, <1>8, ResolveFields
  <2>2. LegalAt(s, i, c) <=> Executable(s, learnt[s].command)
    BY <1>8, <2>1 DEF LegalAt, Executable, HeldIsExecuted
  <2>3. Executable(s, learnt[s].command) <=> i < instance'[s]
    <3>1. \/ Executable(s, learnt[s].command) /\ instance'[s] = instance[s] + 1
          \/ ~Executable(s, learnt[s].command) /\ instance'[s] = instance[s]
      BY ResolveFields
    <3> QED
      BY <1>1, <1>8, <3>1
  <2> QED
    BY <1>4, <1>7, <1>8, <2>2, <2>3
<1>9. CASE ~(t = s /\ i = instance[s])
  <2>1. instance_resolutions'[t][i] = instance_resolutions[t][i]
    BY <1>9, ResolveFields, ZenonT(60)
  <2>2. Resolved(t, i) /\ (LegalAt(t, i, c) <=> i < instance[t])
    BY <1>4, <2>1 DEF Resolved, ExecutedLegally
  <2>3. i < instance'[t] <=> i < instance[t]
    <3>1. CASE t = s
      <4>1. instance'[s] = instance[s] + 1 \/ instance'[s] = instance[s]
        BY ResolveFields
      <4>2. i < instance[s]
        BY <1>1, <1>3, <1>5, <1>9, <3>1
      <4> QED
        BY <1>1, <1>3, <3>1, <4>1, <4>2
    <3>2. t # s => instance'[t] = instance[t]
      BY ResolveFields
    <3> QED
      BY <3>1, <3>2
  <2> QED
    BY <1>4, <1>7, <2>2, <2>3
<1> QED
  BY <1>8, <1>9

----------------------------------------------------------------------------
(* What a busy proposer goes for *)

LEMMA ProposerNacksHandled ==
  ASSUME TypeInv, NacksAreHandled, NEW s \in Server, ProposerStep(s)
  PROVE  NacksAreHandled'
<1> SUFFICES ASSUME NEW t \in Server
             PROVE  /\ pre_nacks'[t] \subseteq proposer_msg_history'[t]
                    /\ state'[t] = "PROPOSING" =>
                         \A m \in pre_nacks'[t] : m.instance = instance'[t]
  BY DEF NacksAreHandled
<1>1. proposer_msg_history[t] \subseteq proposer_msg_history'[t]
  BY ProposerInbox
<1>2. /\ pre_nacks[t] \subseteq proposer_msg_history[t]
      /\ state[t] = "PROPOSING" => \A m \in pre_nacks[t] : m.instance = instance[t]
  BY DEF NacksAreHandled
<1>3. CASE ProposingCounts(s) \/ ProposingLearns(s)
  <2>1. PICK m \in proposer_queue[s] : CountResponse(s, m)
    BY <1>3 DEF ProposingCounts, ProposingLearns
  <2>2. /\ \A n \in pre_nacks'[t] : n \in pre_nacks[t] \/ (t = s /\ n = m)
        /\ m.instance = instance[s] /\ instance' = instance
        /\ m \in proposer_msg_history'[s]
    BY <2>1 DEF CountResponse, CountsInProposing, HandleMessage,
                ForThisInstance, TypeInv, TypeOK, ProposerTypeOK
  <2>3. state'[t] = "PROPOSING" => state[t] = "PROPOSING"
    BY <1>3 DEF ProposingCounts, ProposingLearns, FailRound, TypeInv, TypeOK,
                ProposerTypeOK
  <2> QED
    BY <1>1, <1>2, <2>2, <2>3
<1>4. CASE SendPrepare(s)
  <2>1. /\ pre_nacks'[t] = IF t = s THEN {} ELSE pre_nacks[t]
        /\ t # s => state'[t] = state[t]
        /\ instance' = instance
    BY <1>4 DEF SendPrepare, TypeInv, TypeOK, ProposerTypeOK
  <2> QED
    BY <1>1, <1>2, <2>1
<1>5. CASE ~(ProposingCounts(s) \/ ProposingLearns(s) \/ SendPrepare(s))
  <2>1. pre_nacks' = pre_nacks
    BY <1>5 DEF ProposerStep, ReceiveCommand, ProposingTimesOut,
                ProposingRejects, ProposingSkips, SendAccept, AcceptingTimesOut,
                AcceptingSkips, AcceptingCounts, AcceptingResolves
  <2>2. state'[t] = "PROPOSING" =>
          state[t] = "PROPOSING" /\ instance'[t] = instance[t]
    BY <1>5 DEF ProposerStep, ReceiveCommand, ProposingTimesOut, FailRound,
                ProposingRejects, ProposingSkips, SendAccept, AcceptingTimesOut,
                AcceptingSkips, AcceptingCounts, AcceptingResolves,
                ExecuteLearnt, TypeInv, TypeOK, ProposerTypeOK
  <2> QED
    BY <1>1, <1>2, <2>1, <2>2
<1> QED
  BY <1>3, <1>4, <1>5

\* What is accepted stays accepted.
LEMMA AcceptedGrows ==
  ASSUME IInv, [Next]_vars, NEW i \in Instance, NEW r \in Request, IsAccepted(r, i)
  PROVE  IsAccepted(r, i)'
<1>1. r = [command |-> r.command, client_id |-> r.client_id]
  BY RequestFields
<1>2. PICK v, c : v = r.command /\ c = r.client_id
  OBVIOUS
<1>3. PICK a \in Server : a \in Votes(i, v, c)
  BY <1>2 DEF IsAccepted, Votes
<1>4. a \in Votes(i, v, c)'
  BY <1>3, VotesGrow
<1> QED
  BY <1>1, <1>2, <1>4 DEF IsAccepted, Votes

\* The value of a NACK has been accepted.
LEMMA NackIsAccepted ==
  ASSUME AckInv, NEW s \in Server, NEW m \in Inbox(s), CarriesRequest(m),
         m.instance \in Instance
  PROVE  IsAccepted(Carried(m), m.instance)
BY DEF AckInv, AnswersAreTrue, Votes, IsAccepted, Carried

\* A proposer that has won its round goes for what it has learnt earlier, or for
\* an accepted value.
LEMMA LearnsOwnOrAccepted ==
  ASSUME AckInv, NacksAreHandled, NEW s \in Server, ProposingLearns(s)
  PROVE  /\ learnt'[s] = learnt[s] \/ IsAccepted(learnt'[s], instance[s])
         /\ instance[s] \in Instance
         /\ UNCHANGED <<instance, client_acks>>
         /\ state[s] = "PROPOSING" /\ state'[s] \in {"ACCEPT", "READY"}
         /\ \A t \in Server : t # s => learnt'[t] = learnt[t] /\ state'[t] = state[t]
<1> USE DEF AckInv, IInv, TypeOK, ProposerTypeOK
<1>1. PICK m \in proposer_queue[s] : CountResponse(s, m)
  BY DEF ProposingLearns
<1>2. PICK request \in Learned(s, pre_nacks'[s]) :
        /\ learnt' = [learnt EXCEPT ![s] = request]
        /\ \/ state' = [state EXCEPT ![s] = "ACCEPT"]
           \/ state' = [state EXCEPT ![s] = "READY"]
  BY DEF ProposingLearns, FailRound
<1>3. state[s] = "PROPOSING" /\ instance[s] \in Instance
  BY DEF ProposingLearns, BusyHasRequest
<1>4. learnt'[s] = request
  BY <1>2
<1>5. CASE request # learnt[s]
  <2>1. PICK n \in pre_nacks'[s] : request = Carried(n)
    BY <1>2, <1>5 DEF Learned, Highest, Carried
  <2>2. n \in pre_nacks[s] \/ (n = m /\ m.msg_type = "PREPARE_NACK")
    BY <1>1, <2>1 DEF CountResponse
  <2>3. n \in Inbox(s) /\ n.instance = instance[s]
    BY <1>1, <1>3, <2>2 DEF Inbox, NacksAreHandled, CountResponse,
                            CountsInProposing, ForThisInstance
  <2>4. CarriesRequest(n)
    <3>1. pre_nacks[s] \subseteq Nack
      OBVIOUS
    <3>2. n \in Nack => n.msg_type = "PREPARE_NACK"
      BY DEF Nack, MessageOf
    <3> QED
      BY <2>2, <3>1, <3>2 DEF CarriesRequest
  <2> QED
    BY <1>1, <1>2, <1>3, <1>4, <2>1, <2>3, <2>4, NackIsAccepted DEF CountResponse
<1> QED
  BY <1>1, <1>2, <1>3, <1>4, <1>5 DEF CountResponse

\* One step of a proposer does not lose sight of the request it serves.
LEMMA ProposerLearnt ==
  ASSUME AckInv, LearntIsOwnOrAccepted, NacksAreHandled, BusyHasRequest',
         NEW s \in Server, ProposerStep(s), UNCHANGED acceptorVars
  PROVE  LearntIsOwnOrAccepted'
<1> USE DEF AckInv, IInv
<1> SUFFICES ASSUME NEW t \in Server, state'[t] \notin {"IDLE", "DEAD"}
             PROVE  \/ learnt'[t] = OwnRequest(t)'
                    \/ /\ instance'[t] \in Instance
                       /\ IsAccepted(learnt'[t], instance'[t])
  BY DEF LearntIsOwnOrAccepted, IsAccepted, HasAccepted, Touched, acceptorVars
<1>1. \A r, i : IsAccepted(r, i)' <=> IsAccepted(r, i)
  BY DEF IsAccepted, HasAccepted, Touched, acceptorVars
<1>2. state[t] \notin {"IDLE", "DEAD"} =>
        \/ learnt[t] = OwnRequest(t)
        \/ instance[t] \in Instance /\ IsAccepted(learnt[t], instance[t])
  BY DEF LearntIsOwnOrAccepted
<1>3. CASE AcceptingResolves(s)
  <2>1. CASE t # s
    <3>1. /\ state'[t] = state[t] /\ learnt'[t] = learnt[t]
          /\ instance'[t] = instance[t] /\ client_acks'[t] = client_acks[t]
      BY <1>3, <2>1, ResolveFields
    <3> QED
      BY <1>2, <3>1 DEF OwnRequest, Answered
  <2>2. CASE t = s
    <3>1. state'[s] # "DEAD" /\ state'[s] # "IDLE"
      BY <2>2
    <3>2. learnt[s] # OwnRequest(s) /\ learnt'[s] = OwnRequest(s)
      BY <1>3, <3>1, ResolveFields
    <3>3. client_acks'[s] = client_acks[s]
      BY <1>3, <3>2, ResolveAcks
    <3> QED
      BY <2>2, <3>2, <3>3 DEF OwnRequest, Answered
  <2> QED
    BY <2>1, <2>2
<1>4. CASE ReceiveCommand(s)
  <2>1. /\ learnt'[t] = IF t = s THEN OwnRequest(t) ELSE learnt[t]
        /\ state[t] = state'[t] \/ t = s
        /\ client_acks' = client_acks /\ instance' = instance
    BY <1>4 DEF ReceiveCommand, TypeOK, ProposerTypeOK
  <2> QED
    BY <1>2, <2>1 DEF OwnRequest, Answered
<1>5. CASE ProposingLearns(s)
  <2>1. /\ learnt'[s] = learnt[s] \/ IsAccepted(learnt'[s], instance[s])
        /\ UNCHANGED <<instance, client_acks>> /\ instance[s] \in Instance
        /\ state[s] = "PROPOSING"
        /\ t # s => learnt'[t] = learnt[t] /\ state'[t] = state[t]
    BY <1>5, LearnsOwnOrAccepted
  <2> QED
    BY <1>2, <2>1 DEF OwnRequest, Answered
<1>6. CASE ~(AcceptingResolves(s) \/ ReceiveCommand(s) \/ ProposingLearns(s))
  <2>1. UNCHANGED <<learnt, instance, client_acks>>
    BY <1>6 DEF ProposerStep, SendPrepare, ProposingTimesOut, ProposingRejects,
                ProposingSkips, ProposingCounts, CountResponse, SendAccept,
                AcceptingTimesOut, AcceptingSkips, AcceptingCounts
  <2>2. state[t] \notin {"IDLE", "DEAD"}
    BY <1>6 DEF ProposerStep, SendPrepare, ProposingTimesOut, ProposingRejects,
                ProposingSkips, ProposingCounts, CountResponse, SendAccept,
                AcceptingTimesOut, AcceptingSkips, AcceptingCounts, FailRound,
                TypeOK, ProposerTypeOK
  <2> QED
    BY <1>2, <2>1, <2>2 DEF OwnRequest, Answered
<1> QED
  BY <1>3, <1>4, <1>5, <1>6

\* A request that a server is serving stays its own until it is answered, in the
\* instance where it circulates.
LEMMA AskedStaysAsked ==
  ASSUME AckInv, NEW s \in Server, ProposerStep(s),
         NEW r \in Request, NEW i \in Instance, Circulates(r, i),
         NEW t \in Server, IsPending(t, r, i) \/ IsAcked(t, r, i)
  PROVE  (IsPending(t, r, i) \/ IsAcked(t, r, i))'
<1> USE DEF AckInv, IInv
<1>1. CASE AcceptingResolves(s)
  <2>1. CASE t # s
    <3>1. /\ state'[t] = state[t] /\ instance'[t] = instance[t]
          /\ client_acks'[t] = client_acks[t]
      BY <1>1, <2>1, ResolveFields
    <3> QED
      BY <3>1 DEF IsPending, IsAcked, OwnRequest, Answered
  <2>2. CASE t = s /\ IsAcked(s, r, i)
    <3>1. \A k \in DOMAIN client_acks[s] :
            k \in DOMAIN client_acks'[s] /\ client_acks'[s][k] = client_acks[s][k]
      BY <1>1, ResolveAcks
    <3>2. IsAcked(s, r, i)'
      BY <2>2, <3>1 DEF IsAcked
    <3> QED
      BY <2>2, <3>2
  <2>3. CASE t = s /\ IsPending(s, r, i)
    <3>1. state[s] = "ACCEPTING" /\ learnt[s] \in Request /\ instance[s] = i
      BY <1>1, <2>3, ResolveEffect DEF IsPending
    <3>2. Circulates(learnt[s], i)
      BY <3>1 DEF Circulates, IsProposed
    <3>3. learnt[s] = r /\ OwnRequest(s) = r
      BY <2>3, <3>1, <3>2 DEF OneValue, IsPending
    <3>4. /\ Answered(s) + 1 \in DOMAIN client_acks'[s]
          /\ client_acks'[s][Answered(s) + 1].instance = instance[s]
      BY <1>1, <3>3, ResolveAcks
    <3>5. PICK k : k = Answered(s) + 1
      OBVIOUS
    <3>6. /\ k \in DOMAIN client_acks'[s] /\ client_acks'[s][k].instance = i
          /\ Script[s][k] = r
      BY <3>1, <3>3, <3>4, <3>5 DEF OwnRequest
    <3>7. IsAcked(s, r, i)'
      BY <3>6 DEF IsAcked
    <3> QED
      BY <2>3, <3>7
  <2> QED
    BY <2>1, <2>2, <2>3
<1>2. CASE ~AcceptingResolves(s)
  <2>1. UNCHANGED logVars
    BY <1>2, QuietStep DEF TypeInv
  <2>2. state[t] \notin {"IDLE", "DEAD"} => state'[t] \notin {"IDLE", "DEAD"}
    BY <1>2 DEF ProposerStep, ReceiveCommand, SendPrepare, ProposingTimesOut,
                ProposingRejects, ProposingSkips, ProposingCounts,
                ProposingLearns, CountResponse, SendAccept, AcceptingTimesOut,
                AcceptingSkips, AcceptingCounts, FailRound, TypeOK,
                ProposerTypeOK
  <2> QED
    BY <2>1, <2>2 DEF logVars, IsPending, IsAcked, OwnRequest, Answered
<1> QED
  BY <1>1, <1>2

LEMMA ProposerOnlyAsked ==
  ASSUME AckInv, OnlyAsked, LearntIsOwnOrAccepted, NacksAreHandled, IInv',
         NEW s \in Server, ProposerStep(s), UNCHANGED acceptorVars
  PROVE  OnlyAsked'
<1> SUFFICES ASSUME NEW i \in Instance, NEW r \in Request, Circulates(r, i)'
             PROVE  \E t \in Server : (IsPending(t, r, i) \/ IsAcked(t, r, i))'
  BY DEF OnlyAsked
<1>1. CASE Circulates(r, i)
  <2>1. PICK t \in Server : IsPending(t, r, i) \/ IsAcked(t, r, i)
    BY <1>1 DEF OnlyAsked
  <2> QED
    BY <1>1, <2>1, AskedStaysAsked
<1>2. CASE ~Circulates(r, i)
  <2>1. ProposingLearns(s) /\ i = instance[s] /\ r = learnt'[s]
    BY <1>2, ProposerValues DEF AckInv, IInv, TypeInv
  <2>2. /\ learnt'[s] = learnt[s] \/ IsAccepted(learnt'[s], instance[s])
        /\ UNCHANGED <<instance, client_acks>>
        /\ state[s] = "PROPOSING" /\ state'[s] \in {"ACCEPT", "READY"}
    BY <2>1, LearnsOwnOrAccepted
  <2>3. learnt[s] = OwnRequest(s) \/ IsAccepted(learnt[s], instance[s])
    BY <2>2 DEF LearntIsOwnOrAccepted
  <2>4. r = OwnRequest(s)
    BY <1>2, <2>1, <2>2, <2>3 DEF Circulates
  <2>5. IsPending(s, r, i)'
    BY <2>1, <2>2, <2>4 DEF IsPending, OwnRequest, Answered
  <2> QED
    BY <2>5
<1> QED
  BY <1>1, <1>2

----------------------------------------------------------------------------
(* The invariant *)

LEMMA LogInvInit == Init => LogInv
<1> SUFFICES ASSUME Init PROVE LogInv
  OBVIOUS
<1>1. AckInv
  BY AckInvInit
<1> USE DEF Init, NetworkInit, AcceptorInit, ProposerInit
<1>2. \A i \in Instance, r \in Request : ~Circulates(r, i)
  BY DEF Circulates, IsAccepted, HasAccepted, Touched, IsSentToAcceptor,
         IsSentToProposer, IsNacked, IsProposed, IsResolved, Resolved
<1>3. OnlyAsked /\ LearntIsOwnOrAccepted /\ NacksAreHandled
  BY <1>2 DEF OnlyAsked, LearntIsOwnOrAccepted, NacksAreHandled
<1>4. ResolvedInOrder
  BY BoundAssumption DEF ResolvedInOrder, Resolved, Instance
<1>5. AcksInOrder
  BY ScriptAssumption DEF AcksInOrder, Answered
<1>6. HeldIsExecuted /\ ExecutedLegally
  BY DEF HeldIsExecuted, ExecutedLegally, HeldBefore, Locks, Concerns, Resolved
<1> QED
  BY <1>1, <1>3, <1>4, <1>5, <1>6 DEF LogInv

\* A step that resolves nothing leaves the logs as they are.
LEMMA QuietLogs ==
  ASSUME ResolvedInOrder, AcksInOrder, HeldIsExecuted, ExecutedLegally,
         UNCHANGED logVars,
         \A t \in Server : state'[t] = "DEAD" <=> state[t] = "DEAD"
  PROVE  ResolvedInOrder' /\ AcksInOrder' /\ HeldIsExecuted' /\ ExecutedLegally'
<1>1. ResolvedInOrder'
  BY DEF ResolvedInOrder, Resolved, logVars
<1>2. AcksInOrder'
  BY DEF AcksInOrder, Answered, Resolved, logVars
<1>3. \A t, i : HeldBefore(t, i)' = HeldBefore(t, i)
  BY DEF HeldBefore, Locks, LastBefore, Concerns, Resolved, logVars
<1>4. HeldIsExecuted'
  BY <1>3 DEF HeldIsExecuted, logVars
<1>5. ExecutedLegally'
  BY <1>3 DEF ExecutedLegally, LegalAt, Resolved, logVars
<1> QED
  BY <1>1, <1>2, <1>4, <1>5

LEMMA LogInvProposer ==
  ASSUME LogInv, NEW s \in Server, ProposerStep(s), UNCHANGED acceptorVars
  PROVE  LogInv'
<1> USE DEF LogInv
<1>1. AckInv' /\ IInv' /\ BusyHasRequest' /\ TypeInv
  BY AckInvNext DEF Next, AckInv, IInv, TypeInv
<1>2. OnlyAsked' /\ LearntIsOwnOrAccepted' /\ NacksAreHandled'
  BY <1>1, ProposerOnlyAsked, ProposerLearnt, ProposerNacksHandled
<1>3. CASE AcceptingResolves(s)
  BY <1>1, <1>2, <1>3, ResolvesInOrder, ResolvesAcksInOrder, ResolvesExecuted,
     ResolvesLegally
<1>4. CASE ~AcceptingResolves(s)
  BY <1>1, <1>2, <1>4, QuietStep, QuietLogs
<1> QED
  BY <1>3, <1>4

LEMMA LogInvOther ==
  ASSUME LogInv, [Next]_vars, UNCHANGED proposerVars,
         \A r \in Request, i \in Instance : Circulates(r, i)' => Circulates(r, i)
  PROVE  LogInv'
<1> USE DEF LogInv
<1>1. AckInv'
  BY AckInvNext
<1>2. OnlyAsked'
  BY DEF OnlyAsked, IsPending, IsAcked, OwnRequest, Answered, proposerVars
<1>3. LearntIsOwnOrAccepted'
  <2> SUFFICES ASSUME NEW s \in Server, state[s] \notin {"IDLE", "DEAD"},
                      learnt[s] # OwnRequest(s)
               PROVE  instance[s] \in Instance /\ IsAccepted(learnt[s], instance[s])'
    BY DEF LearntIsOwnOrAccepted, OwnRequest, Answered, proposerVars
  <2>1. instance[s] \in Instance /\ IsAccepted(learnt[s], instance[s])
    BY DEF LearntIsOwnOrAccepted
  <2>2. PICK r \in Request, i \in Instance : r = learnt[s] /\ i = instance[s]
    BY <2>1 DEF AckInv, IInv, BusyHasRequest
  <2>3. IsAccepted(r, i)'
    BY <2>1, <2>2, AcceptedGrows DEF AckInv
  <2> QED
    BY <2>2, <2>3 DEF proposerVars
<1>4. NacksAreHandled'
  BY DEF NacksAreHandled, proposerVars
<1>5. ResolvedInOrder' /\ AcksInOrder' /\ HeldIsExecuted' /\ ExecutedLegally'
  BY QuietLogs DEF logVars, proposerVars
<1> QED
  BY <1>1, <1>2, <1>3, <1>4, <1>5

LEMMA LogInvNext ==
  ASSUME LogInv, [Next]_vars
  PROVE  LogInv'
<1>1. TypeInv /\ IInv
  BY DEF LogInv, AckInv, IInv, TypeInv
<1>2. ASSUME NEW s \in Server, ProposerStep(s), UNCHANGED acceptorVars
      PROVE  LogInv'
  BY <1>2, LogInvProposer
<1>3. ASSUME NEW a \in Server, AcceptorStep(a), UNCHANGED proposerVars
      PROVE  LogInv'
  BY <1>1, <1>3, AcceptorValues, LogInvOther
<1>4. ASSUME NEW s \in Server, DropToAcceptor(s) \/ DropToProposer(s),
             UNCHANGED <<acceptorVars, proposerVars>>
      PROVE  LogInv'
  BY <1>1, <1>4, DropValues, LogInvOther
<1>5. CASE UNCHANGED vars
  <2>1. \A r, i : Circulates(r, i)' <=> Circulates(r, i)
    BY <1>5 DEF Circulates, IsAccepted, HasAccepted, Touched, IsSentToAcceptor,
                IsSentToProposer, IsNacked, IsProposed, IsResolved, Resolved,
                CarriesRequest, Carried, vars, networkVars, acceptorVars,
                proposerVars
  <2> QED
    BY <1>5, <2>1, LogInvOther DEF vars
<1> QED
  BY <1>2, <1>3, <1>4, <1>5 DEF Next

\* Every server has resolved a prefix of the instances, in order and legally; its
\* lock set is what this prefix leaves locked, its answers are where the log holds
\* the requests, and every request in the log was asked at that very instance.
THEOREM LogInvHolds == Spec => []LogInv
BY LogInvInit, LogInvNext, PTL DEF Spec

----------------------------------------------------------------------------
(* What follows for the replicas *)

\* A command that one replica has executed, another does not refuse.
LEMMA NoneGetsPastDeath ==
  ASSUME LogInv, NEW s \in Server, state[s] = "DEAD", NEW t \in Server
  PROVE  instance[t] <= instance[s]
<1>1. PICK i \in Instance : i = instance[s]
  BY DEF LogInv, ResolvedInOrder
<1>2. i \in Int /\ instance[t] \in Int
  BY InstanceType DEF LogInv
<1> SUFFICES ASSUME i < instance[t] PROVE FALSE
  BY <1>1, <1>2
<1>3. Resolved(s, i) /\ Resolved(t, i)
  BY <1>1, <1>2 DEF LogInv, ResolvedInOrder
<1>4. PICK c : /\ c = instance_resolutions[s][i].command
               /\ c = instance_resolutions[t][i].command
  BY <1>3, IInvImpliesAgreement DEF Agreement, LogInv, AckInv
<1>5. LegalAt(t, i, c) /\ ~LegalAt(s, i, c)
  <2>1. ASSUME NEW u \in Server, Resolved(u, i)
        PROVE  LegalAt(u, i, instance_resolutions[u][i].command) <=> i < instance[u]
    BY <2>1 DEF LogInv, ExecutedLegally
  <2>2. LegalAt(t, i, c)
    BY <1>2, <1>3, <1>4, <2>1
  <2>3. ~(i < instance[s])
    BY <1>1, <1>2
  <2>4. ~LegalAt(s, i, c)
    BY <1>3, <1>4, <2>1, <2>3
  <2> QED
    BY <2>2, <2>4
<1>6. HeldBefore(s, i) = HeldBefore(t, i)
  BY <1>1, <1>2, PrefixesAgree DEF LogInv, AckInv
<1> QED
  BY <1>5, <1>6 DEF LegalAt

\* An assertion of execute_command that fails in one replica fails in every one
\* that gets so far: none of them gets past the instance.
THEOREM DeathIsReplicatedHolds == Spec => []DeathIsReplicated
<1>1. LogInv => DeathIsReplicated
  <2> SUFFICES ASSUME LogInv, NEW s \in Server, NEW t \in Server, state[s] = "DEAD"
               PROVE  /\ instance[t] <= instance[s]
                      /\ Resolved(t, instance[s]) => state[t] = "DEAD"
    BY DEF DeathIsReplicated
  <2>1. instance[t] <= instance[s]
    BY NoneGetsPastDeath
  <2>2. instance[s] \in Instance /\ instance[s] \in Int /\ instance[t] \in Int
    BY InstanceType DEF LogInv, ResolvedInOrder
  <2>3. Resolved(t, instance[s]) => state[t] = "DEAD"
    BY <2>1, <2>2 DEF LogInv, ResolvedInOrder
  <2> QED
    BY <2>1, <2>3
<1> QED
  BY <1>1, LogInvHolds, PTL

----------------------------------------------------------------------------
(* The group implements the abstract log *)

\* The log shows what any server has resolved.
LogShows ==
  /\ \A i \in Instance :
       /\ \A s \in Server : Resolved(s, i) => Log[i] = instance_resolutions[s][i]
       /\ (\A s \in Server : ~Resolved(s, i)) => Log[i] = None
  /\ Log = [i \in Instance |-> Log[i]]

LEMMA LogShowsResolved == IInv => LogShows
<1> SUFFICES ASSUME IInv PROVE LogShows
  OBVIOUS
<1>1. Agreement
  BY IInvImpliesAgreement
<1>2. ASSUME NEW i \in Instance, NEW s \in Server, Resolved(s, i)
      PROVE  Log[i] = instance_resolutions[s][i]
  <2> DEFINE t == CHOOSE u \in Server : Resolved(u, i)
  <2>1. t \in Server /\ Resolved(t, i)
    BY <1>2
  <2>2. Log[i] = instance_resolutions[t][i]
    BY <1>2 DEF Log
  <2> HIDE DEF t
  <2> QED
    BY <1>1, <1>2, <2>1, <2>2 DEF Agreement
<1>3. ASSUME NEW i \in Instance, \A s \in Server : ~Resolved(s, i)
      PROVE  Log[i] = None
  BY <1>3 DEF Log
<1>4. Log = [i \in Instance |-> Log[i]]
  BY DEF Log
<1> QED
  BY <1>2, <1>3, <1>4 DEF LogShows

LEMMA LogUnchanged ==
  ASSUME IInv, IInv', instance_resolutions' = instance_resolutions
  PROVE  Log' = Log
<1>1. LogShows /\ LogShows'
  BY LogShowsResolved, PTL
<1>2. ASSUME NEW i \in Instance PROVE Log'[i] = Log[i]
  BY <1>1 DEF LogShows, Resolved
<1> QED
  BY <1>1, <1>2 DEF LogShows

\* A resolution writes the learnt request at its instance, if it is not there yet.
LEMMA LogAfterResolving ==
  ASSUME LogInv, IInv', NEW s \in Server, AcceptingResolves(s)
  PROVE  /\ Log' = [Log EXCEPT ![instance[s]] = learnt[s]]
         /\ \/ Log[instance[s]] = None /\ \A t \in Server : ~Resolved(t, instance[s])
            \/ Log[instance[s]] = learnt[s] /\ Log[instance[s]] # None
<1>1. LogShows /\ LogShows'
  BY LogShowsResolved, PTL DEF LogInv, AckInv
<1>2. /\ instance[s] \in Instance /\ learnt[s] \in Request /\ learnt[s] # None
      /\ state[s] = "ACCEPTING"
  BY ResolveEffect, NoneAssumption DEF LogInv
<1>3. \A t \in Server : \A k \in Instance : instance_resolutions'[t][k] =
        IF t = s /\ k = instance[s] THEN learnt[s] ELSE instance_resolutions[t][k]
  BY ResolveFields DEF LogInv
<1>4. ASSUME NEW i \in Instance
      PROVE  Log'[i] = IF i = instance[s] THEN learnt[s] ELSE Log[i]
  <2>1. CASE i = instance[s]
    BY <1>1, <1>2, <1>3, <2>1 DEF LogShows, Resolved
  <2>2. CASE i # instance[s]
    <3>1. \A t \in Server : instance_resolutions'[t][i] = instance_resolutions[t][i]
      BY <1>3, <2>2
    <3> QED
      BY <1>1, <2>2, <3>1 DEF LogShows, Resolved
  <2> QED
    BY <2>1, <2>2
<1>5. Log' = [Log EXCEPT ![instance[s]] = learnt[s]]
  BY <1>1, <1>2, <1>4 DEF LogShows
<1>6. ASSUME NEW t \in Server, Resolved(t, instance[s])
      PROVE  Log[instance[s]] = learnt[s] /\ Log[instance[s]] # None
  <2>1. PICK i \in Instance : i = instance[s]
    BY <1>2
  <2>2. instance_resolutions[t][i] \in Request /\ Resolved(t, i)
    BY <1>6, <2>1
       DEF Resolved, LogInv, AckInv, IInv, TypeOK, ProposerTypeOK
  <2>3. Circulates(instance_resolutions[t][i], i) /\ Circulates(learnt[s], i)
    BY <1>2, <2>1, <2>2 DEF Circulates, IsResolved, IsProposed
  <2>4. instance_resolutions[t][i] = learnt[s]
    BY <1>2, <2>2, <2>3 DEF LogInv, AckInv, IInv, OneValue
  <2> QED
    BY <1>1, <1>2, <2>1, <2>2, <2>4 DEF LogShows
<1> QED
  BY <1>1, <1>2, <1>5, <1>6 DEF LogShows

\* The first server to resolve an instance decides it, for a request that a
\* server is asking for at this very instance.
LEMMA DecidesPending ==
  ASSUME LogInv, NEW s \in Server, AcceptingResolves(s),
         \A t \in Server : ~Resolved(t, instance[s])
  PROVE  \E t \in Server : /\ instance[t] = instance[s] /\ HasRequest(t)
                           /\ learnt[s] = OwnRequest(t)
<1>1. PICK i \in Instance, r \in Request : i = instance[s] /\ r = learnt[s]
  BY ResolveEffect DEF LogInv
<1>2. Circulates(r, i)
  BY <1>1, ResolveEffect DEF Circulates, IsProposed, LogInv
<1>3. PICK t \in Server : IsPending(t, r, i) \/ IsAcked(t, r, i)
  BY <1>2 DEF LogInv, OnlyAsked
<1>4. ~IsAcked(t, r, i)
  BY <1>1 DEF IsAcked, LogInv, AcksInOrder
<1> QED
  BY <1>1, <1>3, <1>4 DEF IsPending, LogInv, AckInv, IInv, BusyHasRequest

\* A resolution executes its request, as the abstract log has it.
LEMMA ResolvesExecutes ==
  ASSUME LogInv, NEW s \in Server, AcceptingResolves(s), state'[s] # "DEAD"
  PROVE  Abstract!Execute(s, learnt[s])
<1>1. /\ HasRequest(s) /\ ExecuteLearnt(s)
      /\ learnt[s] \in Request
  BY ResolveEffect DEF LogInv
<1>2. /\ Executable(s, learnt[s].command)
      /\ Execute(s, learnt[s].command)
      /\ instance' = [instance EXCEPT ![s] = @ + 1]
  BY <1>1 DEF ExecuteLearnt, LogInv, AckInv, IInv, TypeOK, ProposerTypeOK
<1>3. learnt[s].command.command_type \in CommandType
  BY <1>1 DEF Request, Command
<1>4. /\ Abstract!Legal(learnt[s].command, lock_set[s])
      /\ lock_set' = [lock_set EXCEPT ![s] =
                        Abstract!After(learnt[s].command, @)]
  BY <1>2, <1>3 DEF Abstract!Legal, Abstract!After, Executable, Execute,
                    CommandType
<1>5. [t \in Server |-> Answered(t)]' =
        [[t \in Server |-> Answered(t)] EXCEPT ![s] =
           IF learnt[s] \in Abstract!Pending(s) THEN @ + 1 ELSE @]
  <2>1. learnt[s] \in Abstract!Pending(s) <=> learnt[s] = OwnRequest(s)
    BY <1>1 DEF Abstract!Pending, HasRequest, OwnRequest
  <2>2. Answered(s)' = IF learnt[s] = OwnRequest(s) THEN Answered(s) + 1
                                                    ELSE Answered(s)
    BY ResolveAcks DEF LogInv, Answered
  <2>3. \A t \in Server : t # s => client_acks'[t] = client_acks[t]
    BY ResolveFields DEF LogInv
  <2> QED
    BY <2>1, <2>2, <2>3 DEF Answered
<1> QED
  BY <1>2, <1>4, <1>5 DEF Abstract!Execute

LEMMA ResolvesImplements ==
  ASSUME LogInv, IInv', NEW s \in Server, AcceptingResolves(s), state'[s] # "DEAD"
  PROVE  Abstract!Next
<1>1. /\ instance[s] \in Abstract!Position
      /\ Abstract!Execute(s, learnt[s])
  BY ResolveEffect, ResolvesExecutes DEF LogInv, Abstract!Position, Instance
<1>2. /\ Log' = [Log EXCEPT ![instance[s]] = learnt[s]]
      /\ \/ Log[instance[s]] = None /\ \A t \in Server : ~Resolved(t, instance[s])
         \/ Log[instance[s]] = learnt[s] /\ Log[instance[s]] # None
  BY LogAfterResolving
<1>3. CASE Log[instance[s]] = None /\ \A t \in Server : ~Resolved(t, instance[s])
  <2>1. PICK t \in Server : /\ instance[t] = instance[s] /\ HasRequest(t)
                            /\ learnt[s] = OwnRequest(t)
    BY <1>3, DecidesPending
  <2>2. learnt[s] \in Abstract!Pending(t)
    BY <2>1 DEF Abstract!Pending, HasRequest, OwnRequest
  <2>3. Abstract!Decide(s)
    BY <1>1, <1>2, <1>3, <2>1, <2>2 DEF Abstract!Decide
  <2> QED
    BY <2>3 DEF Abstract!Next
<1>4. CASE Log[instance[s]] = learnt[s] /\ Log[instance[s]] # None
  <2>1. Log' = Log
    <3>1. LogShows
      BY LogShowsResolved DEF LogInv, AckInv
    <3> QED
      BY <1>2, <1>4, <3>1 DEF LogShows
  <2>2. Abstract!Follow(s)
    BY <1>1, <1>4, <2>1 DEF Abstract!Follow
  <2> QED
    BY <2>2 DEF Abstract!Next
<1> QED
  BY <1>2, <1>3, <1>4

LEMMA NextImplements ==
  ASSUME LogInv, IInv', NoProposerDies', [Next]_vars
  PROVE  [Abstract!Next]_(Abstract!vars)
<1>1. CASE UNCHANGED logVars
  <2>1. Log' = Log
    BY <1>1, LogUnchanged DEF logVars, LogInv, AckInv
  <2> QED
    BY <1>1, <2>1 DEF Abstract!vars, logVars, Answered
<1>2. ASSUME NEW s \in Server, ProposerStep(s)
      PROVE  [Abstract!Next]_(Abstract!vars)
  <2>1. CASE AcceptingResolves(s)
    BY <2>1, ResolvesImplements DEF NoProposerDies
  <2>2. CASE ~AcceptingResolves(s)
    BY <1>1, <1>2, <2>2, QuietStep DEF LogInv, AckInv, IInv, TypeInv
  <2> QED
    BY <2>1, <2>2
<1> QED
  BY <1>1, <1>2 DEF Next, vars, proposerVars, logVars

LEMMA InitImplements == Init => Abstract!Init
<1> SUFFICES ASSUME Init PROVE Abstract!Init
  OBVIOUS
<1>1. Log = [i \in Instance |-> None]
  BY DEF Log, Resolved, Init, ProposerInit
<1>2. \A s \in Server : Answered(s) = 0
  BY DEF Answered, Init, ProposerInit
<1> QED
  BY <1>1, <1>2 DEF Abstract!Init, Abstract!Position, Instance, Init, ProposerInit

\* The replicas implement one log of requests in every execution in which no
\* assertion of execute_command fails, whatever the clients ask: each request in
\* it was asked by a server that had reached the same instance, all servers
\* execute it in order, and each answers its own requests, once.
THEOREM LegalExecutionsImplement ==
  Spec /\ []NoProposerDies => ImplementsLockLog
<1>1. LogInv => IInv
  BY DEF LogInv, AckInv
<1> QED
  BY <1>1, InitImplements, NextImplements, LogInvHolds, PTL
     DEF Spec, ImplementsLockLog, Abstract!Spec

----------------------------------------------------------------------------
(* Clients that behave: the values of the log are legal *)

LEMMA Least ==
  ASSUME NEW S \in SUBSET Nat, S # {}
  PROVE  \E n \in S : \A m \in S : n <= m
<1>1. PICK n \in S : \A m \in S : ~(<<m, n>> \in OpToRel(<, Nat))
  BY NatLessThanWellFounded, WFMin
<1>2. ASSUME NEW m \in S, m < n PROVE FALSE
  <2>1. <<m, n>> \in {ss \in Nat \X Nat : ss[1] < ss[2]}
    BY <1>2
  <2>2. <<m, n>> \in OpToRel(<, Nat)
    BY <2>1 DEF OpToRel
  <2> QED
    BY <1>1, <2>2
<1> QED
  BY <1>2

\* The legal values are the same for every server that has got so far.
LegalityAgrees ==
  \A s, t \in Server : \A i \in Instance : \A r \in Request :
    i <= instance[s] /\ i <= instance[t] /\ LegalValue(s, i, r)
      => LegalValue(t, i, r)

LEMMA LegalityIsCommon == LogInv => LegalityAgrees
<1> SUFFICES ASSUME LogInv, NEW s \in Server, NEW t \in Server, NEW i \in Instance,
                    NEW r \in Request, i <= instance[s], i <= instance[t],
                    LegalValue(s, i, r)
             PROVE  LegalValue(t, i, r)
  BY DEF LegalityAgrees
<1>1. /\ \A k \in Instance :
           k < i => instance_resolutions[s][k] = instance_resolutions[t][k]
      /\ HeldBefore(s, i) = HeldBefore(t, i)
  BY PrefixesAgree, InstanceType DEF LogInv, AckInv
<1>2. FreeToLock(s, i, r) => FreeToLock(t, i, r)
  BY <1>1 DEF FreeToLock
<1>3. ASSUME OwnToRelease(s, i, r) PROVE OwnToRelease(t, i, r)
  <2>1. PICK k \in Instance :
          /\ Locks(s, k, r.command.resource_id)
          /\ LastBefore(s, k, i, r.command.resource_id)
          /\ instance_resolutions[s][k].client_id = r.client_id
    BY <1>3 DEF OwnToRelease
  <2>2. k < i
    BY <2>1 DEF LastBefore
  <2>3. \A j \in Instance : j < i =>
          (Concerns(s, j, r.command.resource_id)
             <=> Concerns(t, j, r.command.resource_id))
    BY <1>1 DEF Concerns, Resolved
  <2>4. LastBefore(t, k, i, r.command.resource_id)
    BY <2>1, <2>3 DEF LastBefore
  <2>5. Locks(t, k, r.command.resource_id)
    BY <1>1, <2>1, <2>2 DEF Locks, Concerns, Resolved
  <2> QED
    BY <1>1, <2>1, <2>2, <2>4, <2>5 DEF OwnToRelease
<1> QED
  BY <1>2, <1>3 DEF LegalValue

\* Two locks of a resource that nothing comes between are the same one.
LEMMA LastIsOne ==
  ASSUME LogInv, NEW s \in Server, NEW i \in Int, NEW resource,
         NEW k \in Instance, LastBefore(s, k, i, resource), Locks(s, k, resource),
         NEW j \in Instance, LastBefore(s, j, i, resource), Locks(s, j, resource)
  PROVE  j = k
<1>1. j \in Int /\ k \in Int
  BY InstanceType DEF LogInv
<1> QED
  BY <1>1 DEF LastBefore, Locks

\* An answered request is in the log.
LEMMA AckFacts ==
  ASSUME LogInv, NEW s \in Server, NEW k \in DOMAIN client_acks[s]
  PROVE  /\ client_acks[s][k].instance \in Instance
         /\ k \in DOMAIN Script[s] /\ k \in Int /\ k <= Answered(s)
         /\ Script[s][k] \in Request
         /\ Resolved(s, client_acks[s][k].instance)
         /\ instance_resolutions[s][client_acks[s][k].instance] = Script[s][k]
         /\ client_acks[s][k].value = Script[s][k].command
<1>1. client_acks[s] \in Seq(ClientAck) /\ Script[s] \in Seq(Request)
  BY ScriptAssumption DEF LogInv, AckInv, IInv, TypeOK, ProposerTypeOK
<1>2. client_acks[s][k] \in ClientAck
  BY <1>1
<1>3. client_acks[s][k].instance \in Instance
  BY <1>2 DEF ClientAck
<1>4. k \in 1 .. Answered(s) /\ Answered(s) <= Len(Script[s]) /\ Answered(s) \in Nat
  BY <1>1 DEF LogInv, AcksInOrder, Answered
<1>5. k \in DOMAIN Script[s] /\ Script[s][k] \in Request
  BY <1>1, <1>4
<1>6. client_acks[s][k].value = Script[s][k].command
  BY DEF LogInv, AckInv, AckedIsChosen
<1> QED
  BY <1>3, <1>4, <1>5, <1>6 DEF LogInv, AcksInOrder

\* The first command about a resource that a client of s has locked releases it,
\* and is a request of s.
LEMMA FirstIsRelease ==
  ASSUME LegalInv, ClientsBehave, NEW s \in Server, NEW k \in DOMAIN Script[s],
         NEW t \in Server, NEW p \in Instance, NEW i \in Int, i <= instance[t],
         NEW resource, Locks(t, p, resource), p < i,
         instance_resolutions[t][p] = Script[s][k],
         ~LastBefore(t, p, i, resource)
  PROVE  \E m \in Instance : \E u \in Request :
           /\ p < m /\ m < i
           /\ u.command.command_type = "UNLOCK" /\ u.command.resource_id = resource
           /\ u.client_id = Script[s][k].client_id
           /\ IsPending(s, u, m) \/ IsAcked(s, u, m)
<1> DEFINE S == {j \in Instance : p < j /\ j < i /\ Concerns(t, j, resource)}
<1>1. S # {} /\ S \in SUBSET Nat /\ \A j \in Instance : j \in Int
  BY BoundAssumption DEF LastBefore, Instance
<1>2. PICK m \in S : \A j \in S : m <= j
  BY <1>1, Least
<1>3. m \in Instance /\ p < m /\ m < i /\ Concerns(t, m, resource)
  BY <1>2
<1>4. \A j \in Instance : p < j /\ j < m => ~Concerns(t, j, resource)
  BY <1>1, <1>2
<1> HIDE DEF S
<1>5. LastBefore(t, p, m, resource)
  BY <1>3, <1>4 DEF LastBefore
<1>6. PICK u \in Request : u = instance_resolutions[t][m]
  BY <1>3 DEF Concerns, Resolved, LegalInv, LogInv, AckInv, IInv, TypeOK,
              ProposerTypeOK
<1>7. Circulates(u, m) /\ u.command.resource_id = resource
  BY <1>3, <1>6 DEF Circulates, IsResolved, Concerns
<1>8. m <= instance[t]
  BY <1>1, <1>3, InstanceType DEF LegalInv, LogInv
<1>9. LegalValue(t, m, u)
  BY <1>3, <1>7, <1>8 DEF LegalInv, ValuesAreLegal
<1>10. resource \in HeldBefore(t, m)
  BY <1>5, <1>6, <1>7 DEF HeldBefore, Request, Command
<1>11. u.command.command_type # "LOCK"
  BY <1>7, <1>9, <1>10 DEF LegalValue, FreeToLock
<1>12. u.command.command_type = "UNLOCK"
  BY <1>6, <1>11 DEF Request, Command, CommandType
<1>13. PICK j \in Instance :
         /\ Locks(t, j, resource) /\ LastBefore(t, j, m, resource)
         /\ instance_resolutions[t][j].client_id = u.client_id
  BY <1>7, <1>9, <1>11 DEF LegalValue, OwnToRelease
<1>14. j = p
  BY <1>1, <1>3, <1>5, <1>13, LastIsOne DEF LegalInv
<1>15. u.client_id = Script[s][k].client_id
  BY <1>13, <1>14
<1>16. PICK w \in Server : IsPending(w, u, m) \/ IsAcked(w, u, m)
  BY <1>3, <1>6, <1>7 DEF LegalInv, LogInv, OnlyAsked
<1>17. PICK l \in DOMAIN Script[w] : Script[w][l] = u
  <2>1. CASE IsAcked(w, u, m)
    BY <2>1, AckFacts DEF IsAcked, LegalInv
  <2>2. CASE IsPending(w, u, m)
    <3>1. HasRequest(w) /\ OwnRequest(w) = u
      BY <2>2 DEF IsPending, LegalInv, LogInv, AckInv, IInv, BusyHasRequest
    <3>2. Answered(w) + 1 \in DOMAIN Script[w]
      <4>1. client_acks[w] \in Seq(ClientAck) /\ Script[w] \in Seq(Request)
        BY ScriptAssumption
           DEF LegalInv, LogInv, AckInv, IInv, TypeOK, ProposerTypeOK
      <4> QED
        BY <3>1, <4>1 DEF HasRequest, Answered
    <3> QED
      BY <3>1, <3>2 DEF OwnRequest
  <2> QED
    BY <1>16, <2>1, <2>2
<1>18. w = s
  BY <1>15, <1>17 DEF ClientsBehave
<1> QED
  BY <1>3, <1>7, <1>12, <1>15, <1>16, <1>18

\* The own request of a proposer that has won and is not blocked is legal.
LEMMA OwnIsLegal ==
  ASSUME LegalInv, ClientsBehave, NEW s \in Server, HasRequest(s),
         NEW i \in Instance, i = instance[s], NEW r \in Request, r = OwnRequest(s),
         ~Blocked(s, r)
  PROVE  LegalValue(s, i, r)
<1> USE DEF LegalInv
<1>1. CASE r.command.command_type = "LOCK"
  BY <1>1 DEF LegalValue, FreeToLock, Blocked, LogInv, HeldIsExecuted
<1>2. CASE r.command.command_type # "LOCK"
  <2> DEFINE k == Answered(s) + 1
             R == r.command.resource_id
  <2>1. /\ client_acks[s] \in Seq(ClientAck) /\ Script[s] \in Seq(Request)
    BY ScriptAssumption DEF LogInv, AckInv, IInv, TypeOK, ProposerTypeOK
  <2>2. /\ k \in DOMAIN Script[s] /\ Script[s][k] = r /\ k \in Int
        /\ \A j \in DOMAIN Script[s] : j < k => j \in DOMAIN client_acks[s]
        /\ \A j \in DOMAIN client_acks[s] : j < k
    BY <2>1 DEF HasRequest, OwnRequest, Answered
  <2>3. r.command.command_type = "UNLOCK"
    BY <1>2 DEF Request, Command, CommandType
  <2> HIDE DEF k
  <2>4. PICK j \in DOMAIN Script[s] :
          /\ j < k
          /\ Script[s][j].command.command_type = "LOCK"
          /\ Script[s][j].command.resource_id = R
          /\ Script[s][j].client_id = r.client_id
          /\ \A l \in DOMAIN Script[s] :
               j < l /\ l < k => Script[s][l] # r
    BY <2>2, <2>3 DEF ClientsBehave
  <2>5. j \in DOMAIN client_acks[s]
    BY <2>2, <2>4
  <2>6. PICK p \in Instance : p = client_acks[s][j].instance
    BY <2>5, AckFacts
  <2>7. /\ Resolved(s, p) /\ instance_resolutions[s][p] = Script[s][j] /\ j \in Int
    BY <2>5, <2>6, AckFacts
  <2>8. p < i /\ Locks(s, p, R)
    BY <2>4, <2>7 DEF LogInv, ResolvedInOrder, NoProposerDies, Locks, Concerns
  <2>9. ASSUME NEW m \in Instance, NEW u \in Request, p < m, m < i,
               u.command.command_type = "UNLOCK", u.command.resource_id = R,
               u.client_id = r.client_id, IsPending(s, u, m) \/ IsAcked(s, u, m)
        PROVE  FALSE
    <3>1. ~IsPending(s, u, m)
      BY <2>9, InstanceType DEF IsPending, LogInv
    <3>2. PICK l \in DOMAIN client_acks[s] :
            client_acks[s][l].instance = m /\ Script[s][l] = u
      BY <2>9, <3>1 DEF IsAcked
    <3>3. l \in Int /\ l \in DOMAIN Script[s] /\ m \in Int /\ p \in Int
      BY <3>2, AckFacts, InstanceType DEF LogInv
    <3>4. ~(l < j)
      BY <2>5, <2>6, <2>9, <3>2, <3>3 DEF LogInv, AcksInOrder
    <3>5. l # j
      BY <2>6, <2>9, <3>2, <3>3
    <3>6. j < l /\ l < k
      BY <2>2, <2>7, <3>2, <3>3, <3>4, <3>5
    <3>7. u = r
      BY <2>3, <2>9 DEF Request, Command
    <3> QED
      BY <2>4, <3>2, <3>3, <3>6, <3>7
  <2>10. LastBefore(s, p, i, R)
    BY <2>4, <2>7, <2>8, <2>9, FirstIsRelease, InstanceType DEF LogInv
  <2> QED
    BY <1>2, <2>4, <2>7, <2>8, <2>10 DEF LegalValue, OwnToRelease
<1> QED
  BY <1>1, <1>2

\* A blocked proposer brings nothing.
LEMMA BlockedBringsNothing ==
  ASSUME TypeInv, NEW s \in Server, ProposingLearns(s), state'[s] # "ACCEPT",
         UNCHANGED acceptorVars,
         NEW r \in Request, NEW i \in Instance, Circulates(r, i)'
  PROVE  Circulates(r, i)
<1> USE DEF TypeInv, TypeOK, ProposerTypeOK
<1>1. PICK m \in proposer_queue[s] : CountResponse(s, m)
  BY DEF ProposingLearns
<1>2. state' = [state EXCEPT ![s] = "READY"]
  BY DEF ProposingLearns, FailRound
<1>3. /\ \A t \in Server : proposer_queue'[t] \subseteq proposer_queue[t]
      /\ acceptor_queue' = acceptor_queue
      /\ UNCHANGED <<instance, instance_resolutions>>
      /\ \A t \in Server : t # s => /\ pre_nacks'[t] = pre_nacks[t]
                                    /\ learnt'[t] = learnt[t]
      /\ \A t \in Server : t # s => state'[t] = state[t]
      /\ state'[s] = "READY"
  BY <1>1, <1>2, ProposerInbox
     DEF ProposerStep, ProposingLearns, CountResponse, HandleMessage
<1>4. IsAccepted(r, i)' => IsAccepted(r, i)
  BY DEF IsAccepted, HasAccepted, Touched, acceptorVars
<1>5. IsSentToAcceptor(r, i)' => IsSentToAcceptor(r, i)
  BY <1>3 DEF IsSentToAcceptor, Carried, CarriesRequest
<1>6. IsSentToProposer(r, i)' => IsSentToProposer(r, i)
  BY <1>3 DEF IsSentToProposer, Carried, CarriesRequest
<1>7. IsNacked(r, i)' => IsNacked(r, i)
  BY <1>3 DEF IsNacked, Carried
<1>8. IsProposed(r, i)' => IsProposed(r, i)
  BY <1>3 DEF IsProposed
<1>9. IsResolved(r, i)' => IsResolved(r, i)
  BY <1>3 DEF IsResolved, Resolved
<1> QED
  BY <1>4, <1>5, <1>6, <1>7, <1>8, <1>9 DEF Circulates

\* A new value is legal for the proposer that brings it.
LEMMA NewValueIsLegal ==
  ASSUME LegalInv, ClientsBehave, NEW s \in Server, ProposerStep(s),
         UNCHANGED acceptorVars, TypeInv',
         NEW r \in Request, NEW i \in Instance, Circulates(r, i)', ~Circulates(r, i)
  PROVE  /\ i = instance[s] /\ LegalValue(s, i, r) /\ ~AcceptingResolves(s)
<1> USE DEF LegalInv, LogInv, AckInv, IInv
<1>1. ProposingLearns(s) /\ i = instance[s] /\ r = learnt'[s]
  BY ProposerValues DEF TypeInv
<1>2. /\ learnt'[s] = learnt[s] \/ IsAccepted(learnt'[s], instance[s])
      /\ state[s] = "PROPOSING"
  BY <1>1, LearnsOwnOrAccepted
<1>3. learnt[s] = OwnRequest(s) \/ IsAccepted(learnt[s], instance[s])
  BY <1>2 DEF LearntIsOwnOrAccepted
<1>4. r = OwnRequest(s) /\ HasRequest(s)
  BY <1>1, <1>2, <1>3 DEF Circulates, BusyHasRequest
<1>5. state'[s] = "ACCEPT"
  BY <1>1, BlockedBringsNothing DEF TypeInv
<1>6. ~Blocked(s, r)
  <2>1. PICK request \in Learned(s, pre_nacks'[s]) :
          /\ learnt' = [learnt EXCEPT ![s] = request]
          /\ \/ ~Blocked(s, request)
             \/ state' = [state EXCEPT ![s] = "READY"]
    BY <1>1 DEF ProposingLearns, FailRound
  <2>2. learnt'[s] = request
    BY <2>1 DEF TypeOK, ProposerTypeOK
  <2>3. state' # [state EXCEPT ![s] = "READY"]
    BY <1>5 DEF TypeOK, ProposerTypeOK
  <2> QED
    BY <1>1, <2>1, <2>2, <2>3
<1> QED
  BY <1>1, <1>2, <1>4, <1>6, OwnIsLegal DEF AcceptingResolves

\* No step changes what a server has resolved before its instance, nor takes it
\* back to an earlier one.
LEMMA PrefixKept ==
  ASSUME LogInv, NEW s \in Server, ProposerStep(s), NEW t \in Server
  PROVE  /\ instance'[t] \in Int /\ instance[t] <= instance'[t]
         /\ \A k \in Instance : k < instance[t] =>
              instance_resolutions'[t][k] = instance_resolutions[t][k]
<1>1. CASE AcceptingResolves(s)
  <2>1. \/ instance'[t] = instance[t] \/ instance'[t] = instance[t] + 1
    BY <1>1, ResolveFields DEF LogInv
  <2> QED
    BY <1>1, <2>1, InstanceType, ResolvesNew DEF LogInv
<1>2. CASE ~AcceptingResolves(s)
  BY <1>2, QuietStep, InstanceType DEF logVars, LogInv, AckInv, IInv, TypeInv
<1> QED
  BY <1>1, <1>2

LEMMA LegalityKept ==
  ASSUME LogInv, NEW s \in Server, ProposerStep(s), NEW t \in Server,
         NEW i \in Instance, i <= instance[t], NEW r \in Request, LegalValue(t, i, r)
  PROVE  LegalValue(t, i, r)' /\ i <= instance'[t]
<1>1. /\ i \in Int /\ instance[t] \in Int /\ \A k \in Instance : k \in Int
      /\ instance[t] <= instance'[t]
      /\ \A k \in Instance : k < i =>
           instance_resolutions'[t][k] = instance_resolutions[t][k]
  BY PrefixKept, InstanceType DEF LogInv
<1>2. HeldBefore(t, i)' = HeldBefore(t, i)
  BY <1>1, HeldUnchanged
<1>3. FreeToLock(t, i, r) => FreeToLock(t, i, r)'
  BY <1>2 DEF FreeToLock
<1>4. OwnToRelease(t, i, r) => OwnToRelease(t, i, r)'
  BY <1>1 DEF OwnToRelease, Locks, LastBefore, Concerns, Resolved
<1>5. i <= instance'[t]
  BY <1>1, PrefixKept
<1> QED
  BY <1>3, <1>4, <1>5 DEF LegalValue

LEMMA ProposerValuesAreLegal ==
  ASSUME LegalInv, ClientsBehave, NEW s \in Server, ProposerStep(s),
         UNCHANGED acceptorVars, LogInv'
  PROVE  ValuesAreLegal'
<1> USE DEF LegalInv
<1> SUFFICES ASSUME NEW t \in Server, NEW i \in Instance, NEW r \in Request,
                    i <= instance'[t], Circulates(r, i)'
             PROVE  LegalValue(t, i, r)'
  BY DEF ValuesAreLegal
<1>1. TypeInv /\ TypeInv' /\ LegalityAgrees'
  BY LegalityIsCommon, PTL DEF LogInv, AckInv, IInv, TypeInv
<1>2. PICK u \in Server : i <= instance[u] /\ LegalValue(u, i, r)
  <2>1. CASE Circulates(r, i)
    <3>1. PICK u \in Server : Owns(u, i)
      BY <2>1 DEF LogInv, AckInv, IInv, OwnerBringsValue
    <3>2. i <= instance[u]
      BY <3>1, OwnerBegun, InstanceType DEF Ahead, LogInv, AckInv, IInv
    <3> QED
      BY <2>1, <3>2 DEF ValuesAreLegal
  <2>2. CASE ~Circulates(r, i)
    BY <1>1, <2>2, NewValueIsLegal, InstanceType DEF LogInv
  <2> QED
    BY <2>1, <2>2
<1>3. LegalValue(u, i, r)' /\ i <= instance'[u]
  BY <1>2, LegalityKept
<1> QED
  BY <1>1, <1>3 DEF LegalityAgrees

\* A legal value is executable, so the proposer that resolves it goes on.
LEMMA ProposerSurvives ==
  ASSUME LegalInv, NEW s \in Server, ProposerStep(s)
  PROVE  NoProposerDies'
<1> USE DEF LegalInv
<1>1. CASE AcceptingResolves(s)
  <2>1. /\ \A t \in Server : t # s => state'[t] = state[t]
        /\ state'[s] = "DEAD" => ~Executable(s, learnt[s].command)
    BY <1>1, ResolveFields DEF LogInv
  <2>2. PICK i \in Instance, r \in Request : i = instance[s] /\ r = learnt[s]
    BY <1>1, ResolveEffect DEF LogInv
  <2>3. Circulates(r, i) /\ i <= instance[s]
    <3>1. state[s] = "ACCEPTING"
      BY <1>1, ResolveEffect DEF LogInv
    <3>2. IsProposed(r, i)
      BY <2>2, <3>1 DEF IsProposed
    <3>3. i <= instance[s]
      BY <2>2, InstanceType DEF LogInv
    <3> QED
      BY <3>2, <3>3 DEF Circulates
  <2>4. LegalValue(s, i, r)
    BY <2>3 DEF ValuesAreLegal
  <2>5. lock_set[s] = HeldBefore(s, i)
    BY <2>2 DEF LogInv, HeldIsExecuted
  <2>6. Executable(s, r.command)
    <3>1. CASE r.command.command_type = "LOCK"
      BY <2>4, <2>5, <3>1 DEF LegalValue, FreeToLock, Executable
    <3>2. CASE r.command.command_type # "LOCK"
      <4>1. r.command.resource_id \in HeldBefore(s, i)
        BY <2>4, <3>2 DEF LegalValue, OwnToRelease, HeldBefore, Request, Command
      <4> QED
        BY <2>5, <3>2, <4>1 DEF Executable
    <3> QED
      BY <3>1, <3>2
  <2> QED
    BY <2>1, <2>2, <2>6 DEF NoProposerDies
<1>2. CASE ~AcceptingResolves(s)
  BY <1>2, QuietStep DEF NoProposerDies, LogInv, AckInv, IInv, TypeInv
<1> QED
  BY <1>1, <1>2

LEMMA LegalInvInit == Init => LegalInv
<1> SUFFICES ASSUME Init PROVE LegalInv
  OBVIOUS
<1>1. \A i \in Instance, r \in Request : ~Circulates(r, i)
  BY DEF Init, NetworkInit, AcceptorInit, ProposerInit, Circulates, IsAccepted,
         HasAccepted, Touched, IsSentToAcceptor, IsSentToProposer, IsNacked,
         IsProposed, IsResolved, Resolved
<1>2. NoProposerDies
  BY DEF Init, ProposerInit, NoProposerDies
<1> QED
  BY <1>1, <1>2, LogInvInit DEF LegalInv, ValuesAreLegal

LEMMA LegalInvOther ==
  ASSUME LegalInv, LogInv', UNCHANGED proposerVars,
         \A r \in Request, i \in Instance : Circulates(r, i)' => Circulates(r, i)
  PROVE  LegalInv'
<1>1. NoProposerDies'
  BY DEF LegalInv, NoProposerDies, proposerVars
<1>2. ValuesAreLegal'
  BY DEF LegalInv, ValuesAreLegal, LegalValue, FreeToLock, OwnToRelease,
         HeldBefore, Locks, LastBefore, Concerns, Resolved, proposerVars
<1> QED
  BY <1>1, <1>2 DEF LegalInv

LEMMA LegalInvNext ==
  ASSUME ClientsBehave, LegalInv, [Next]_vars
  PROVE  LegalInv'
<1>1. LogInv' /\ TypeInv
  BY LogInvNext DEF LegalInv, LogInv, AckInv, IInv, TypeInv
<1>2. ASSUME NEW s \in Server, ProposerStep(s), UNCHANGED acceptorVars
      PROVE  LegalInv'
  BY <1>1, <1>2, ProposerValuesAreLegal, ProposerSurvives DEF LegalInv
<1>3. ASSUME NEW a \in Server, AcceptorStep(a), UNCHANGED proposerVars
      PROVE  LegalInv'
  BY <1>1, <1>3, AcceptorValues, LegalInvOther
<1>4. ASSUME NEW s \in Server, DropToAcceptor(s) \/ DropToProposer(s),
             UNCHANGED <<acceptorVars, proposerVars>>
      PROVE  LegalInv'
  BY <1>1, <1>4, DropValues, LegalInvOther
<1>5. CASE UNCHANGED vars
  <2>1. \A r, i : Circulates(r, i)' <=> Circulates(r, i)
    BY <1>5 DEF Circulates, IsAccepted, HasAccepted, Touched, IsSentToAcceptor,
                IsSentToProposer, IsNacked, IsProposed, IsResolved, Resolved,
                CarriesRequest, Carried, vars, networkVars, acceptorVars,
                proposerVars
  <2> QED
    BY <1>1, <1>5, <2>1, LegalInvOther DEF vars
<1> QED
  BY <1>2, <1>3, <1>4, <1>5 DEF Next

\* When the clients behave, the log stays legal and no replica ends.
THEOREM LegalInvHolds ==
  ASSUME ClientsBehave PROVE Spec => []LegalInv
<1>1. LegalInv /\ [Next]_vars => LegalInv'
  BY LegalInvNext
<1> QED
  BY <1>1, LegalInvInit, PTL DEF Spec

\* When the clients release only what they have asked for, no assertion of
\* execute_command fails in any replica, whatever the network loses or delays.
THEOREM NoProposerDiesHolds ==
  ASSUME ClientsBehave PROVE Spec => []NoProposerDies
<1>1. LegalInv => NoProposerDies
  BY DEF LegalInv
<1> QED
  BY <1>1, LegalInvHolds, PTL

\* And then the replicas implement the one legal log.
THEOREM ImplementsLockLogHolds ==
  ASSUME ClientsBehave PROVE Spec => ImplementsLockLog
BY NoProposerDiesHolds, LegalExecutionsImplement, PTL

\* The earlier of two answered locks of a resource has been released, or its
\* client is asking for the release.
LEMMA EarlierIsReleased ==
  ASSUME LegalInv, ClientsBehave, NEW resource \in Resource,
         NEW s \in Server, Holds(s, resource), NEW t \in Server,
         NEW k \in AcksAbout(s, resource),
         client_acks[s][k].value.command_type = "LOCK",
         \A j \in AcksAbout(s, resource) : j <= k,
         NEW l \in AcksAbout(t, resource),
         client_acks[t][l].value.command_type = "LOCK"
  PROVE  client_acks[t][l].instance <= client_acks[s][k].instance
<1> USE DEF LegalInv
<1>1. PICK p \in Instance, q \in Instance :
        p = client_acks[s][k].instance /\ q = client_acks[t][l].instance
  BY AckFacts DEF AcksAbout
<1>2. /\ k \in DOMAIN Script[s] /\ k \in DOMAIN client_acks[s]
      /\ Resolved(s, p) /\ instance_resolutions[s][p] = Script[s][k]
      /\ Script[s][k].command.command_type = "LOCK"
      /\ Script[s][k].command.resource_id = resource
  BY <1>1, AckFacts DEF AcksAbout
<1>3. /\ Resolved(t, q) /\ instance_resolutions[t][q] = Script[t][l]
      /\ Script[t][l] \in Request
      /\ Script[t][l].command.command_type = "LOCK"
      /\ Script[t][l].command.resource_id = resource
  BY <1>1, AckFacts DEF AcksAbout
<1>4. p \in Int /\ q \in Int /\ instance[t] \in Int /\ q < instance[t]
  BY <1>3, InstanceType DEF LogInv, ResolvedInOrder, NoProposerDies
<1> SUFFICES ASSUME p < q PROVE FALSE
  BY <1>1, <1>4
<1>5. Resolved(t, p)
  BY <1>4 DEF LogInv, ResolvedInOrder
<1>6. instance_resolutions[t][p] = Script[s][k] /\ Locks(t, p, resource)
  <2>1. instance_resolutions[t][p] = instance_resolutions[s][p]
    BY <1>2, <1>5, IInvImpliesAgreement DEF Agreement, LogInv, AckInv
  <2> QED
    BY <1>2, <1>5, <2>1 DEF Locks, Concerns
<1>7. resource \notin HeldBefore(t, q)
  <2>1. Circulates(Script[t][l], q)
    BY <1>3 DEF Circulates, IsResolved
  <2>2. q <= instance[t]
    BY <1>4
  <2>3. LegalValue(t, q, Script[t][l])
    BY <1>3, <2>1, <2>2 DEF ValuesAreLegal
  <2> QED
    BY <1>3, <2>3 DEF LegalValue, FreeToLock
<1>8. ~LastBefore(t, p, q, resource)
  BY <1>6, <1>7 DEF HeldBefore
<1>9. PICK m \in Instance, u \in Request :
        /\ p < m /\ m < q
        /\ u.command.command_type = "UNLOCK" /\ u.command.resource_id = resource
        /\ IsPending(s, u, m) \/ IsAcked(s, u, m)
  BY <1>2, <1>4, <1>6, <1>8, FirstIsRelease
<1>10. CASE IsPending(s, u, m)
  <2>1. /\ state[s] # "IDLE" /\ HasRequest(s) /\ OwnRequest(s) = u
    BY <1>10 DEF IsPending, LogInv, AckInv, IInv, BusyHasRequest
  <2>2. u.command = [command_type |-> "UNLOCK", resource_id |-> resource]
    BY <1>9 DEF Request, Command
  <2> QED
    BY <2>1, <2>2 DEF Holds
<1>11. CASE IsAcked(s, u, m)
  <2>1. PICK j \in DOMAIN client_acks[s] :
          client_acks[s][j].instance = m /\ Script[s][j] = u
    BY <1>11 DEF IsAcked
  <2>2. j \in Int /\ k \in Int /\ client_acks[s][j].value = u.command
    BY <1>2, <2>1, AckFacts
  <2>3. j <= k
    BY <1>9, <2>1, <2>2 DEF AcksAbout
  <2>4. m \in Int
    BY InstanceType DEF LogInv
  <2>5. CASE j = k
    BY <1>1, <1>4, <1>9, <2>1, <2>4, <2>5
  <2>6. CASE j < k
    <3>1. m < p
      BY <1>1, <1>2, <2>1, <2>6 DEF LogInv, AcksInOrder
    <3> QED
      BY <1>4, <1>9, <2>4, <3>1
  <2> QED
    BY <2>2, <2>3, <2>5, <2>6
<1> QED
  BY <1>9, <1>10, <1>11

\* Clients of two servers never hold one lock at once, whatever is lost, delayed
\* or duplicated, and whoever stops, although each server decides on its own copy
\* of the lock set.
THEOREM MutualExclusionHolds ==
  ASSUME ClientsBehave PROVE Spec => []MutualExclusion
<1>1. ASSUME LegalInv, NEW resource \in Resource,
             NEW s \in Server, NEW t \in Server,
             Holds(s, resource), Holds(t, resource)
      PROVE  s = t
  <2>1. PICK k \in AcksAbout(s, resource) :
          /\ client_acks[s][k].value.command_type = "LOCK"
          /\ \A j \in AcksAbout(s, resource) : j <= k
    BY <1>1 DEF Holds
  <2>2. PICK l \in AcksAbout(t, resource) :
          /\ client_acks[t][l].value.command_type = "LOCK"
          /\ \A j \in AcksAbout(t, resource) : j <= l
    BY <1>1 DEF Holds
  <2>3. client_acks[t][l].instance <= client_acks[s][k].instance
    BY <1>1, <2>1, <2>2, EarlierIsReleased
  <2>4. client_acks[s][k].instance <= client_acks[t][l].instance
    BY <1>1, <2>1, <2>2, EarlierIsReleased
  <2>5. PICK p \in Instance : /\ p = client_acks[s][k].instance
                              /\ p = client_acks[t][l].instance
    <3>1. /\ client_acks[s][k].instance \in Instance
          /\ client_acks[t][l].instance \in Instance
      BY <1>1, AckFacts DEF AcksAbout, LegalInv
    <3> QED
      BY <1>1, <2>3, <2>4, <3>1, InstanceType DEF LegalInv, LogInv
  <2>6. /\ k \in DOMAIN Script[s] /\ l \in DOMAIN Script[t]
        /\ Resolved(s, p) /\ instance_resolutions[s][p] = Script[s][k]
        /\ Resolved(t, p) /\ instance_resolutions[t][p] = Script[t][l]
    BY <1>1, <2>5, AckFacts DEF AcksAbout, LegalInv
  <2>7. Script[s][k] = Script[t][l]
    BY <1>1, <2>6, IInvImpliesAgreement DEF Agreement, LegalInv, LogInv, AckInv
  <2> QED
    BY <1>1, <2>6, <2>7 DEF ClientsBehave
<1>2. LegalInv => MutualExclusion
  BY <1>1 DEF MutualExclusion
<1> QED
  BY <1>2, LegalInvHolds, PTL

----------------------------------------------------------------------------
(* The checks of the logs: validate_lock_file *)

\* HeldBefore follows the log, one resolution at a time.
LEMMA HeldNext ==
  ASSUME LogInv, NEW s \in Server, NEW i \in Instance, Resolved(s, i)
  PROVE  LET c == instance_resolutions[s][i].command
         IN  HeldBefore(s, i + 1) =
               IF c.command_type = "LOCK" THEN HeldBefore(s, i) \cup {c.resource_id}
                                          ELSE HeldBefore(s, i) \ {c.resource_id}
<1> DEFINE c == instance_resolutions[s][i].command
           R == c.resource_id
<1>1. \A k \in Instance : k \in Int
  BY InstanceType DEF LogInv
<1>2. R \in Resource
  BY DEF LogInv, AckInv, IInv, TypeOK, ProposerTypeOK, Resolved, Request, Command
<1>3. Concerns(s, i, R)
  BY DEF Concerns
<1>4. ASSUME NEW resource \in Resource, resource # R
      PROVE  resource \in HeldBefore(s, i + 1) <=> resource \in HeldBefore(s, i)
  <2>1. ~Concerns(s, i, resource)
    BY <1>4 DEF Concerns
  <2>2. \A k \in Instance :
          k # i => (LastBefore(s, k, i + 1, resource) <=> LastBefore(s, k, i, resource))
    BY <1>1, <2>1 DEF LastBefore
  <2>3. \A k \in Instance : Locks(s, k, resource) => k # i
    BY <2>1 DEF Locks
  <2> QED
    BY <2>2, <2>3 DEF HeldBefore
<1>5. \A k \in Instance : LastBefore(s, k, i + 1, R) <=> k = i
  BY <1>1, <1>3 DEF LastBefore
<1>6. R \in HeldBefore(s, i + 1) <=> c.command_type = "LOCK"
  BY <1>2, <1>3, <1>5 DEF HeldBefore, Locks
<1>7. HeldBefore(s, i) \subseteq Resource /\ HeldBefore(s, i + 1) \subseteq Resource
  BY DEF HeldBefore
<1> HIDE DEF c, R
<1>8. HeldBefore(s, i + 1) = IF c.command_type = "LOCK" THEN HeldBefore(s, i) \cup {R}
                                                         ELSE HeldBefore(s, i) \ {R}
  BY <1>2, <1>4, <1>6, <1>7
<1> QED
  BY <1>8 DEF c, R

\* While no proposer ends, a log has a line for each instance before its own.
LEMMA LogIs ==
  ASSUME LegalInv, NEW s \in Server
  PROVE  /\ instance[s] \in Nat
         /\ LogOf(s) = [k \in 1 .. instance[s] |->
              [instance |-> k - 1, command |-> instance_resolutions[s][k - 1].command]]
         /\ Len(LogOf(s)) = instance[s] /\ DOMAIN LogOf(s) = 1 .. instance[s]
         /\ \A k \in 1 .. instance[s] :
              /\ k - 1 \in Instance /\ Resolved(s, k - 1)
              /\ instance_resolutions[s][k - 1] \in Request
<1>1. instance[s] \in 0 .. MaxInstance /\ MaxInstance \in Nat
  BY BoundAssumption DEF LegalInv, LogInv, AckInv, IInv, TypeOK, ProposerTypeOK
<1>2. \A i \in Instance : Resolved(s, i) <=> i < instance[s]
  BY DEF LegalInv, LogInv, ResolvedInOrder, NoProposerDies
<1>3. {i \in Instance : Resolved(s, i)} = 0 .. instance[s] - 1
  BY <1>1, <1>2 DEF Instance
<1>4. Cardinality(0 .. instance[s] - 1) = instance[s]
  <2>1. /\ 0 \in Int /\ instance[s] - 1 \in Int
        /\ (IF 0 > instance[s] - 1 THEN 0 ELSE (instance[s] - 1) - 0 + 1) = instance[s]
    BY <1>1
  <2> QED
    BY <2>1, FS_Interval
<1>5. LogOf(s) = [k \in 1 .. instance[s] |->
        [instance |-> k - 1, command |-> instance_resolutions[s][k - 1].command]]
  BY <1>3, <1>4 DEF LogOf
<1>6. \A k \in 1 .. instance[s] : k - 1 \in Instance /\ k - 1 < instance[s]
  BY <1>1 DEF Instance
<1>7. instance_resolutions[s] \in [Instance -> Request \cup {None}]
  BY DEF LegalInv, LogInv, AckInv, IInv, TypeOK, ProposerTypeOK
<1>8. Len(LogOf(s)) = instance[s] /\ DOMAIN LogOf(s) = 1 .. instance[s]
  BY <1>1, <1>5
<1> QED
  BY <1>1, <1>2, <1>5, <1>6, <1>7, <1>8 DEF Resolved

\* The lock_set of the checker after k lines is what k instances leave locked: the
\* one solution of its recursion, since two solutions would differ first at some k.
LEMMA LockSetIsHeld ==
  ASSUME LegalInv, NEW s \in Server
  PROVE  \A k \in 0 .. instance[s] : LockSet(LogOf(s))[k] = HeldBefore(s, k)
<1> DEFINE file == LogOf(s)
           n == instance[s]
           After(f, k) ==
             IF k = 0 THEN {}
             ELSE IF file[k].command.command_type = "LOCK"
                  THEN f[k - 1] \cup {file[k].command.resource_id}
                  ELSE f[k - 1] \ {file[k].command.resource_id}
           held == [k \in 0 .. n |-> HeldBefore(s, k)]
           locked == CHOOSE f : f = [k \in 0 .. n |-> After(f, k)]
<1>1. n \in Nat /\ Len(file) = n
  BY LogIs
<1>2. \A k \in 0 .. n : HeldBefore(s, k) = After(held, k)
  <2>1. HeldBefore(s, 0) = {}
    BY InstanceType, BoundAssumption DEF HeldBefore, LastBefore, Instance, LegalInv, LogInv
  <2>2. ASSUME NEW k \in 1 .. n PROVE HeldBefore(s, k) = After(held, k)
    <3>1. /\ k - 1 \in Instance /\ Resolved(s, k - 1)
          /\ file[k].command = instance_resolutions[s][k - 1].command
      BY LogIs
    <3>2. k # 0 /\ k - 1 \in 0 .. n /\ (k - 1) + 1 = k
      BY <1>1
    <3>3. held[k - 1] = HeldBefore(s, k - 1)
      BY <3>2
    <3>. HIDE DEF held, file
    <3> QED
      BY <3>1, <3>2, <3>3, HeldNext DEF LegalInv
  <2>3. \A k \in 0 .. n : k = 0 \/ k \in 1 .. n
    BY <1>1
  <2>. HIDE DEF held, n, file
  <2> QED
    BY <2>1, <2>2, <2>3
<1>3. held = [k \in 0 .. n |-> After(held, k)]
  BY <1>2
<1>4. locked = [k \in 0 .. n |-> After(locked, k)]
  BY <1>3
<1>5. LockSet(file) = locked
  BY <1>1 DEF LockSet
<1> HIDE DEF locked, held
<1>6. ASSUME NEW k \in 0 .. n, locked[k] # held[k] PROVE FALSE
  <2> DEFINE Differ == {j \in 0 .. n : locked[j] # held[j]}
  <2>1. Differ \in SUBSET Nat /\ Differ # {}
    BY <1>1, <1>6
  <2>2. PICK m \in Differ : \A j \in Differ : m <= j
    <3> HIDE DEF Differ
    <3> QED
      BY <2>1, Least
  <2>3. m \in 0 .. n /\ locked[m] # held[m]
    BY <2>2
  <2>4. locked[m] = After(locked, m) /\ held[m] = After(held, m)
    <3> HIDE DEF After
    <3> QED
      BY <1>3, <1>4, <2>3
  <2>5. m # 0
    BY <2>3, <2>4
  <2>6. m - 1 \in 0 .. n /\ ~(m <= m - 1)
    BY <1>1, <2>3, <2>5
  <2>7. locked[m - 1] = held[m - 1]
    BY <2>2, <2>6
  <2> QED
    BY <2>3, <2>4, <2>5, <2>7
<1> QED
  BY <1>5, <1>6 DEF held

\* No log locks a resource twice, or releases one that is free: what
\* validate_lock_file accepts is what execute_command lets pass.
THEOREM LogsValidateHolds ==
  ASSUME ClientsBehave PROVE Spec => []LogsValidate
<1>1. ASSUME LegalInv, NEW s \in Server, NEW k \in DOMAIN LogOf(s)
      PROVE  LogOf(s)[k].command.command_type = "LOCK"
               <=> LogOf(s)[k].command.resource_id \notin LockSet(LogOf(s))[k - 1]
  <2>1. /\ k \in 1 .. instance[s] /\ instance[s] \in Nat
        /\ k - 1 \in Instance /\ Resolved(s, k - 1)
        /\ LogOf(s)[k].command = instance_resolutions[s][k - 1].command
    BY <1>1, LogIs
  <2>2. k - 1 \in 0 .. instance[s] /\ k - 1 < instance[s]
    BY <2>1
  <2>3. LockSet(LogOf(s))[k - 1] = HeldBefore(s, k - 1)
    BY <1>1, <2>2, LockSetIsHeld
  <2>4. LegalAt(s, k - 1, instance_resolutions[s][k - 1].command)
    BY <1>1, <2>1, <2>2 DEF LegalInv, LogInv, ExecutedLegally
  <2> QED
    BY <2>1, <2>3, <2>4 DEF LegalAt
<1>2. LegalInv => LogsValidate
  BY <1>1 DEF LogsValidate, validate_lock_file
<1> QED
  BY <1>2, LegalInvHolds, PTL

----------------------------------------------------------------------------
(* The checks of the logs: validate_client_file *)

\* Adding up occurrences, file by file and in any order, counts the elements of the
\* disjoint sets that are as large.
LEMMA SumOfParts ==
  ASSUME NEW files, IsFiniteSet(DOMAIN files), NEW command, NEW Part,
         \A c \in DOMAIN files :
           /\ IsFiniteSet(Part[c])
           /\ Cardinality(Part[c]) = Occurrences(files[c], command),
         \A c, d \in DOMAIN files : Part[c] \cap Part[d] # {} => c = d
  PROVE  cli_dist(files, command) = Cardinality(UNION {Part[c] : c \in DOMAIN files})
<1> DEFINE S == DOMAIN files
           All(s) == UNION {Part[c] : c \in s}
           Some(s) == CHOOSE x \in s : TRUE
           Total(f, s) ==
             IF s = {} THEN 0 ELSE Occurrences(files[Some(s)], command) + f[s \ {Some(s)}]
           counted == [s \in SUBSET S |-> Cardinality(All(s))]
           iter == CHOOSE f : f = [s \in SUBSET S |-> Total(f, s)]
<1>1. cli_dist(files, command) = iter[S]
  BY DEF cli_dist, MapThenSumSet, MapThenFoldSet
<1>2. ASSUME NEW s \in SUBSET S PROVE IsFiniteSet(All(s)) /\ IsFiniteSet(s)
  <2>1. IsFiniteSet(s)
    BY FS_Subset
  <2>2. IsFiniteSet({Part[c] : c \in s})
    <3>1. [c \in s |-> Part[c]] \in Surjection(s, {Part[c] : c \in s})
      BY DEF Surjection
    <3> QED
      BY <2>1, <3>1, FS_Surjection
  <2> QED
    BY <2>1, <2>2, FS_UNION
<1>3. ASSUME NEW s \in SUBSET S, s # {}
      PROVE  /\ Some(s) \in s /\ s \ {Some(s)} \in SUBSET S
             /\ Cardinality(s \ {Some(s)}) = Cardinality(s) - 1
             /\ Cardinality(s) \in Nat /\ Cardinality(s) - 1 \in Nat
  <2>1. Some(s) \in s
    BY <1>3
  <2> HIDE DEF Some
  <2>2. IsFiniteSet(s) /\ IsFiniteSet(s \ {Some(s)})
    BY <1>2
  <2> QED
    BY <2>1, <2>2, FS_RemoveElement, FS_CardinalityType
<1> HIDE DEF Some
<1>4. ASSUME NEW s \in SUBSET S PROVE Cardinality(All(s)) = Total(counted, s)
  <2>1. CASE s = {}
    BY <2>1, FS_EmptySet
  <2>2. CASE s # {}
    <3> DEFINE x == Some(s)
               rest == s \ {x}
    <3>1. x \in s /\ rest \in SUBSET S /\ x \notin rest
      BY <1>3, <2>2
    <3>2. IsFiniteSet(All(rest)) /\ IsFiniteSet(Part[x])
      BY <1>2, <3>1
    <3>3. All(s) = Part[x] \cup All(rest) /\ Part[x] \cap All(rest) = {}
      <4> HIDE DEF x
      <4> QED
        BY <3>1
    <3>4. Cardinality(All(s)) = Cardinality(Part[x]) + Cardinality(All(rest))
      <4> HIDE DEF x, All, rest
      <4>1. /\ Cardinality(Part[x] \cup All(rest)) =
                 Cardinality(Part[x]) + Cardinality(All(rest))
                   - Cardinality(Part[x] \cap All(rest))
            /\ Cardinality(Part[x]) \in Nat /\ Cardinality(All(rest)) \in Nat
        BY <3>2, FS_Union, FS_CardinalityType
      <4>2. Cardinality(Part[x] \cap All(rest)) = 0
        BY <3>3, FS_EmptySet
      <4> QED
        BY <3>3, <4>1, <4>2
    <3>5. counted[rest] = Cardinality(All(rest))
      BY <3>1
    <3>6. Cardinality(Part[x]) = Occurrences(files[x], command)
      BY <3>1
    <3> HIDE DEF counted, All
    <3> QED
      BY <2>2, <3>4, <3>5, <3>6
  <2> QED
    BY <2>1, <2>2
<1>5. counted = [s \in SUBSET S |-> Total(counted, s)]
  BY <1>4
<1>6. iter = [s \in SUBSET S |-> Total(iter, s)]
  BY <1>5
<1>7. counted[S] = Cardinality(All(S))
  OBVIOUS
<1> HIDE DEF counted, iter
<1>8. ASSUME NEW s \in SUBSET S, iter[s] # counted[s] PROVE FALSE
  <2> DEFINE Differ == {t \in SUBSET S : iter[t] # counted[t]}
             Sizes == {Cardinality(t) : t \in Differ}
  <2>1. Sizes \in SUBSET Nat /\ Sizes # {}
    <3>1. \A u \in SUBSET S : Cardinality(u) \in Nat
      BY <1>2, FS_CardinalityType
    <3> QED
      BY <1>8, <3>1
  <2>2. PICK m \in Sizes : \A n \in Sizes : m <= n
    <3> HIDE DEF Sizes
    <3> QED
      BY <2>1, Least
  <2>3. PICK t \in SUBSET S : iter[t] # counted[t] /\ Cardinality(t) = m
    BY <2>2
  <2>4. iter[t] = Total(iter, t) /\ counted[t] = Total(counted, t)
    <3> HIDE DEF Total
    <3> QED
      BY <1>5, <1>6, <2>3
  <2>5. t # {}
    BY <2>3, <2>4
  <2>6. t \ {Some(t)} \in SUBSET S /\ Cardinality(t \ {Some(t)}) = m - 1 /\ m \in Nat
    BY <1>3, <2>3, <2>5
  <2>7. t \ {Some(t)} \notin Differ
    <3> SUFFICES ASSUME t \ {Some(t)} \in Differ PROVE FALSE
      OBVIOUS
    <3>1. m - 1 \in Sizes
      BY <2>6
    <3> HIDE DEF Sizes
    <3> QED
      BY <2>2, <2>6, <3>1
  <2>8. iter[t \ {Some(t)}] = counted[t \ {Some(t)}]
    BY <2>6, <2>7
  <2> QED
    BY <2>3, <2>4, <2>5, <2>8
<1> QED
  BY <1>1, <1>2, <1>7, <1>8

\* The longest log is one, and no other is longer.
LEMMA LongestIs ==
  ASSUME LegalInv
  PROVE  LET L == Longest([s \in Server |-> LogOf(s)])
         IN  L \in Server /\ \A t \in Server : instance[t] <= instance[L]
<1> DEFINE files == [s \in Server |-> LogOf(s)]
           best == {s \in Server : \A t \in Server : Len(files[t]) <= Len(files[s])}
           Rest == {MaxInstance - instance[s] : s \in Server}
<1>1. \A s \in Server : /\ Len(files[s]) = instance[s] /\ s \in Nat
                        /\ instance[s] \in 0 .. MaxInstance
  <2>1. instance \in [Server -> 0 .. MaxInstance]
    BY DEF LegalInv, LogInv, AckInv, IInv, TypeOK, ProposerTypeOK
  <2>2. \A s \in Server : s \in Nat
    BY GroupAssumption DEF Server
  <2> QED
    BY <2>1, <2>2, LogIs
<1>2. MaxInstance \in Nat /\ 0 \in Server
  BY BoundAssumption, GroupAssumption DEF Server
<1>3. PICK m \in Rest : \A n \in Rest : m <= n
  <2>1. Rest \in SUBSET Nat /\ Rest # {}
    BY <1>1, <1>2
  <2> HIDE DEF Rest
  <2> QED
    BY <2>1, Least
<1>4. PICK s \in Server : \A t \in Server : instance[t] <= instance[s]
  <2>1. PICK s \in Server : m = MaxInstance - instance[s]
    BY <1>3
  <2>2. \A t \in Server : MaxInstance - instance[s] <= MaxInstance - instance[t]
    BY <1>3, <2>1
  <2>3. \A t \in Server : instance[t] <= instance[s]
    BY <1>1, <1>2, <2>2
  <2> QED
    BY <2>3
<1>5. best \in SUBSET Nat /\ best # {}
  BY <1>1, <1>4
<1>6. \E l \in best : \A t \in best : l <= t
  <2> HIDE DEF best
  <2> QED
    BY <1>5, Least
<1>7. Longest(files) = CHOOSE l \in best : \A t \in best : l <= t
  BY DEF Longest
<1>8. Longest(files) \in best
  <2> HIDE DEF best
  <2> QED
    BY <1>6, <1>7
<1> QED
  BY <1>1, <1>8

\* Every log is the beginning of one that is as long or longer.
LEMMA LogsAgree ==
  ASSUME LegalInv, NEW s \in Server, NEW t \in Server, instance[s] <= instance[t],
         NEW k \in DOMAIN LogOf(s)
  PROVE  k <= Len(LogOf(t)) /\ LogOf(s)[k] = LogOf(t)[k]
<1>1. /\ k \in 1 .. instance[s] /\ k \in 1 .. instance[t] /\ k <= Len(LogOf(t))
      /\ k - 1 \in Instance /\ Resolved(s, k - 1) /\ Resolved(t, k - 1)
  BY LogIs
<1>2. instance_resolutions[s][k - 1] = instance_resolutions[t][k - 1]
  BY <1>1, IInvImpliesAgreement DEF Agreement, LegalInv, LogInv, AckInv
<1>3. /\ LogOf(s)[k] = [instance |-> k - 1, command |-> instance_resolutions[s][k - 1].command]
      /\ LogOf(t)[k] = [instance |-> k - 1, command |-> instance_resolutions[t][k - 1].command]
  BY <1>1, LogIs
<1> QED
  BY <1>1, <1>2, <1>3

\* An answered request is a line of the log of its server, another one for each.
LEMMA AnsweredIsLogged ==
  ASSUME LegalInv, NEW c \in Server, Answered(c) = Len(Script[c]),
         NEW k \in DOMAIN Script[c]
  PROVE  /\ k \in DOMAIN client_acks[c] /\ k \in Int
         /\ client_acks[c][k].instance \in Instance
         /\ client_acks[c][k].instance < instance[c]
         /\ client_acks[c][k].instance + 1 \in 1 .. instance[c]
         /\ instance_resolutions[c][client_acks[c][k].instance] = Script[c][k]
<1>1. k \in DOMAIN client_acks[c]
  <2>1. client_acks[c] \in Seq(ClientAck) /\ Script[c] \in Seq(Request)
    BY ScriptAssumption
       DEF LegalInv, LogInv, AckInv, IInv, TypeOK, ProposerTypeOK
  <2> QED
    BY <2>1 DEF Answered
<1>2. /\ client_acks[c][k].instance \in Instance /\ k \in Int
      /\ Resolved(c, client_acks[c][k].instance)
      /\ instance_resolutions[c][client_acks[c][k].instance] = Script[c][k]
  BY <1>1, AckFacts DEF LegalInv
<1>3. client_acks[c][k].instance < instance[c]
  BY <1>2 DEF LegalInv, LogInv, ResolvedInOrder, NoProposerDies
<1>4. instance[c] \in Nat /\ \A i \in Instance : i \in Nat
  BY LogIs, BoundAssumption DEF Instance
<1>5. client_acks[c][k].instance + 1 \in 1 .. instance[c]
  BY <1>2, <1>3, <1>4
<1> QED
  BY <1>1, <1>2, <1>3, <1>5

\* When every client has its answers, each line of a log is an answered request.
LEMMA LoggedIsAnswered ==
  ASSUME LegalInv, \A c \in Server : Answered(c) = Len(Script[c]),
         NEW s \in Server, NEW p \in 1 .. instance[s]
  PROVE  \E c \in Server : \E k \in DOMAIN Script[c] :
           /\ client_acks[c][k].instance = p - 1
           /\ Script[c][k] = instance_resolutions[s][p - 1]
<1> DEFINE r == instance_resolutions[s][p - 1]
<1>1. p - 1 \in Instance /\ Resolved(s, p - 1) /\ r \in Request
  BY LogIs
<1>2. Circulates(r, p - 1)
  BY <1>1 DEF Circulates, IsResolved
<1>3. PICK c \in Server : IsPending(c, r, p - 1) \/ IsAcked(c, r, p - 1)
  BY <1>1, <1>2 DEF LegalInv, LogInv, OnlyAsked
<1>4. ~IsPending(c, r, p - 1)
  <2>1. Len(Script[c]) \in Nat
    BY ScriptAssumption
  <2> QED
    BY <2>1 DEF IsPending, LegalInv, LogInv, AckInv, IInv, BusyHasRequest, HasRequest
<1>5. PICK k \in DOMAIN client_acks[c] :
        client_acks[c][k].instance = p - 1 /\ Script[c][k] = r
  BY <1>3, <1>4 DEF IsAcked
<1>6. k \in DOMAIN Script[c]
  BY AckFacts DEF LegalInv
<1> QED
  BY <1>5, <1>6

LEMMA EveryRequestIsLogged ==
  ASSUME LegalInv, ClientsBehave, \A c \in Server : Answered(c) = Len(Script[c]),
         NEW L \in Server, \A t \in Server : instance[t] <= instance[L],
         NEW command
  PROVE  Occurrences(LogOf(L), command) = cli_dist(Script, command)
<1> DEFINE Asked(c) == {k \in DOMAIN Script[c] : Script[c][k].command = command}
           Line(c, k) == client_acks[c][k].instance + 1
           Part == [c \in Server |-> {Line(c, k) : k \in Asked(c)}]
           Lines == {p \in DOMAIN LogOf(L) : LogOf(L)[p].command = command}
<1>1. ASSUME NEW c \in Server, NEW d \in Server,
             NEW k \in DOMAIN Script[c], NEW l \in DOMAIN Script[d],
             client_acks[c][k].instance = client_acks[d][l].instance
      PROVE  c = d /\ k = l
  <2>1. instance_resolutions[c][client_acks[c][k].instance] =
          instance_resolutions[d][client_acks[c][k].instance]
    <3>1. /\ client_acks[c][k].instance \in Instance
          /\ Resolved(c, client_acks[c][k].instance)
          /\ Resolved(d, client_acks[c][k].instance)
      BY <1>1, AckFacts, AnsweredIsLogged DEF LegalInv
    <3> QED
      BY <3>1, IInvImpliesAgreement DEF Agreement, LegalInv, LogInv, AckInv
  <2>2. Script[c][k] = Script[d][l]
    BY <1>1, <2>1, AnsweredIsLogged
  <2>3. c = d
    BY <2>2 DEF ClientsBehave
  <2>4. /\ k \in DOMAIN client_acks[c] /\ l \in DOMAIN client_acks[c]
        /\ k \in Int /\ l \in Int /\ client_acks[c][k].instance \in Int
    BY <1>1, <2>3, AnsweredIsLogged, InstanceType DEF LegalInv, LogInv
  <2>5. ~(k < l) /\ ~(l < k)
    BY <1>1, <2>3, <2>4 DEF LegalInv, LogInv, AcksInOrder
  <2> QED
    BY <2>3, <2>4, <2>5
<1>2. ASSUME NEW c \in Server
      PROVE  /\ IsFiniteSet(Part[c])
             /\ Cardinality(Part[c]) = Occurrences(Script[c], command)
  <2> DEFINE f == [k \in Asked(c) |-> Line(c, k)]
  <2>1. IsFiniteSet(Asked(c))
    <3>1. DOMAIN Script[c] = 1 .. Len(Script[c]) /\ Len(Script[c]) \in Int /\ 1 \in Int
      BY ScriptAssumption
    <3>2. Asked(c) \in SUBSET (1 .. Len(Script[c]))
      BY <3>1
    <3> QED
      BY <3>1, <3>2, FS_Interval, FS_Subset
  <2>2. f \in Surjection(Asked(c), Part[c])
    BY DEF Surjection
  <2>3. f \in Injection(Asked(c), Part[c])
    <3>1. \A k, l \in Asked(c) : Line(c, k) = Line(c, l) => k = l
      <4>1. \A k \in Asked(c) : client_acks[c][k].instance \in Int
        BY AnsweredIsLogged, InstanceType DEF LegalInv, LogInv
      <4> QED
        BY <1>1, <4>1
    <3> QED
      BY <2>2, <3>1 DEF Surjection, Injection, IsInjective
  <2>4. Occurrences(Script[c], command) = Cardinality(Asked(c))
    BY DEF Occurrences
  <2> HIDE DEF Part, Asked, f
  <2> QED
    BY <2>1, <2>2, <2>3, <2>4, FS_Surjection
<1>3. \A c, d \in Server : Part[c] \cap Part[d] # {} => c = d
  <2> SUFFICES ASSUME NEW c \in Server, NEW d \in Server,
                      NEW k \in Asked(c), NEW l \in Asked(d), Line(c, k) = Line(d, l)
               PROVE  c = d
    OBVIOUS
  <2>1. client_acks[c][k].instance \in Int /\ client_acks[d][l].instance \in Int
    BY AnsweredIsLogged, InstanceType DEF LegalInv, LogInv
  <2> QED
    BY <1>1, <2>1
<1>4. UNION {Part[c] : c \in Server} = Lines
  <2>1. ASSUME NEW c \in Server, NEW k \in Asked(c) PROVE Line(c, k) \in Lines
    <3>1. /\ Line(c, k) \in 1 .. instance[c] /\ client_acks[c][k].instance \in Int
          /\ instance_resolutions[c][client_acks[c][k].instance] = Script[c][k]
      BY AnsweredIsLogged, InstanceType DEF LegalInv, LogInv
    <3>2. LogOf(c)[Line(c, k)].command = command /\ Line(c, k) \in DOMAIN LogOf(c)
      <4>1. Line(c, k) - 1 = client_acks[c][k].instance
        BY <3>1
      <4> HIDE DEF Line
      <4> QED
        BY <3>1, <4>1, LogIs
    <3>3. LogOf(c)[Line(c, k)] = LogOf(L)[Line(c, k)] /\ Line(c, k) <= Len(LogOf(L))
      BY <3>2, LogsAgree
    <3>4. Line(c, k) \in DOMAIN LogOf(L)
      BY <3>1, <3>3, LogIs
    <3> QED
      BY <3>2, <3>3, <3>4
  <2>2. ASSUME NEW p \in Lines
        PROVE  \E c \in Server : \E k \in Asked(c) : p = Line(c, k)
    <3>1. p \in 1 .. instance[L] /\ instance_resolutions[L][p - 1].command = command
      BY LogIs
    <3>2. PICK c \in Server : \E k \in DOMAIN Script[c] :
            /\ client_acks[c][k].instance = p - 1
            /\ Script[c][k] = instance_resolutions[L][p - 1]
      BY <3>1, LoggedIsAnswered
    <3>3. PICK k \in DOMAIN Script[c] :
            client_acks[c][k].instance = p - 1 /\ Script[c][k].command = command
      BY <3>1, <3>2
    <3>4. k \in Asked(c) /\ p = Line(c, k)
      BY <3>1, <3>3
    <3> QED
      BY <3>4
  <2> HIDE DEF Lines, Asked, Line
  <2> QED
    BY <2>1, <2>2
<1>5. Occurrences(LogOf(L), command) = Cardinality(Lines)
  BY DEF Occurrences
<1>6. DOMAIN Script = Server
  BY ScriptAssumption
<1> HIDE DEF Part, Lines
<1> QED
  BY <1>2, <1>3, <1>4, <1>5, <1>6, ServerFinite, SumOfParts

\* When every client has its answers, the longest log has each of their commands as
\* often as their files, and the other logs are the beginning of it: what
\* validate_client_file asserts.
THEOREM ClientFilesValidateHolds ==
  ASSUME ClientsBehave PROVE Spec => []ClientFilesValidate
<1> DEFINE files == [s \in Server |-> LogOf(s)]
           L == Longest(files)
<1>1. ASSUME LegalInv, \A c \in Server : Answered(c) = Len(Script[c])
      PROVE  validate_client_file(Script, files)
  <2>1. L \in Server /\ \A t \in Server : instance[t] <= instance[L]
    BY <1>1, LongestIs
  <2>2. DOMAIN files = Server /\ DOMAIN Script = Server
        /\ \A s \in Server : files[s] = LogOf(s)
    BY ScriptAssumption
  <2> HIDE DEF files, L
  <2>3. \A command : Occurrences(files[L], command) = cli_dist(Script, command)
    BY <1>1, <2>1, <2>2, EveryRequestIsLogged
  <2>4. \A s \in Server : \A k \in DOMAIN files[s] :
          k <= Len(files[L]) /\ files[s][k] = files[L][k]
    BY <1>1, <2>1, <2>2, LogsAgree
  <2> QED
    BY <2>2, <2>3, <2>4 DEF validate_client_file, L
<1>2. LegalInv => ClientFilesValidate
  BY <1>1 DEF ClientFilesValidate
<1> QED
  BY <1>2, LegalInvHolds, PTL
=============================================================================
