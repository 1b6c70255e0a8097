------------------------------ MODULE Acceptor ------------------------------
(***************************************************************************)
(* The acceptor process of server.py (initialize_acceptor): one loop that  *)
(* takes a message from acceptor_queue, discards it if its signature was   *)
(* seen before, and answers a PREPARE or an ACCEPT.                        *)
(***************************************************************************)
EXTENDS Network

VARIABLES
  accept_history,        \* [Server -> [Instance -> HistoryEntry or None]]
  acceptor_msg_history   \* [Server -> SUBSET AcceptorMessage], the signatures

acceptorVars == <<accept_history, acceptor_msg_history>>

\* accept_history[instance] = (h_prep, h_accp, h_accv, cid): a promise only, or
\* a promise and the command accepted last.
Promised ==
  [h_prep : Nat, h_accp : {NoProposal}, h_accv : {None}, cid : {None}]
Accepted ==
  [h_prep : Nat, h_accp : Nat, h_accv : Command, cid : ClientId]
HistoryEntry == Promised \cup Accepted

ASSUME NoHistoryAssumption == None \notin HistoryEntry

AcceptorTypeOK ==
  /\ accept_history \in [Server -> [Instance -> HistoryEntry \cup {None}]]
  /\ acceptor_msg_history \in [Server -> SUBSET AcceptorMessage]

AcceptorInit ==
  /\ accept_history = [a \in Server |-> [i \in Instance |-> None]]
  /\ acceptor_msg_history = [a \in Server |-> {}]

\* "p_instance in accept_history"
Touched(a, i) == accept_history[a][i] # None

\* The acceptor has accepted a value at this instance: h_accp != -1.
HasAccepted(a, i) ==
  Touched(a, i) /\ accept_history[a][i].h_accp # NoProposal

RecordHistory(a, i, prep, accp, accv, client) ==
  accept_history' =
    [accept_history EXCEPT ![a][i] =
       [h_prep |-> prep, h_accp |-> accp, h_accv |-> accv, cid |-> client]]

\* Take m from the queue and add its signature to msg_history.  The signature
\* holds every field, so a message is its own signature.
TakeFresh(a, m) ==
  /\ m \in acceptor_queue[a] \ acceptor_msg_history[a]
  /\ AcceptorTakes(a, m)
  /\ acceptor_msg_history' =
       [acceptor_msg_history EXCEPT ![a] = @ \cup {m}]

Ignore == UNCHANGED <<accept_history, proposer_queue>>

\* A message whose signature is known is dropped.
DuplicateToAcceptor(a) ==
  \E m \in acceptor_queue[a] \cap acceptor_msg_history[a] :
    /\ AcceptorTakes(a, m)
    /\ UNCHANGED acceptor_msg_history
    /\ Ignore

----------------------------------------------------------------------------
(* PREPARE *)

\* The first message of this instance.  The answer carries the asking client
\* as its value and leaves client_id at its default.
FirstAnswer(a, m) ==
  NewMessage("PREPARE_ACK", m.proposal, m.instance, m.client_id, a,
             NoClientId, NoProposal)

PrepareFirst(a) ==
  \E m \in acceptor_queue[a] :
    /\ m.msg_type = "PREPARE" /\ ~Touched(a, m.instance)
    /\ TakeFresh(a, m)
    /\ ResponseProposer(m.origin_id, FirstAnswer(a, m))
    /\ RecordHistory(a, m.instance, m.proposal, NoProposal, None, None)

\* Mutant: a higher PREPARE is always answered with a NACK.
LaterAnswerAlwaysNack(a, m) ==
  LET h == accept_history[a][m.instance]
  IN  NewMessage("PREPARE_NACK", m.proposal, m.instance, h.h_accv, a, h.cid,
                 h.h_accp)

\* Mutant: the repeated PREPARE_ACK is one like the first.
LaterAnswerUsable(a, m) ==
  LET h == accept_history[a][m.instance]
  IN  IF h.h_accp # NoProposal
      THEN NewMessage("PREPARE_NACK", m.proposal, m.instance, h.h_accv, a,
                      h.cid, h.h_accp)
      ELSE NewMessage("PREPARE_ACK", m.proposal, m.instance, m.client_id, a,
                      NoClientId, NoProposal)

\* A higher number than the one promised.  The answer carries what the
\* history holds: a NACK with the accepted command and client, or an ACK whose
\* value and client_id are both None.
LaterAnswer(a, m) ==
  LET h == accept_history[a][m.instance]
  IN  NewMessage(IF h.h_accp # NoProposal THEN "PREPARE_NACK" ELSE "PREPARE_ACK",
                 m.proposal, m.instance, h.h_accv, a, h.cid, h.h_accp)

PrepareHigher(a) ==
  \E m \in acceptor_queue[a] :
    /\ m.msg_type = "PREPARE" /\ Touched(a, m.instance)
    /\ m.proposal > accept_history[a][m.instance].h_prep
    /\ TakeFresh(a, m)
    /\ ResponseProposer(m.origin_id, LaterAnswer(a, m))
    /\ LET h == accept_history[a][m.instance]
       IN  RecordHistory(a, m.instance, m.proposal, h.h_accp, h.h_accv, h.cid)

\* Any other PREPARE gets no answer at all.
PrepareIgnored(a) ==
  \E m \in acceptor_queue[a] :
    /\ m.msg_type = "PREPARE" /\ Touched(a, m.instance)
    /\ m.proposal <= accept_history[a][m.instance].h_prep
    /\ TakeFresh(a, m)
    /\ Ignore

----------------------------------------------------------------------------
(* ACCEPT *)

\* "p_proposal >= h_prep", or no history for the instance.
Acceptable(a, m) ==
  Touched(a, m.instance) =>
    m.proposal >= accept_history[a][m.instance].h_prep

AcceptAnswer(a, m) ==
  NewMessage("ACCEPT_ACK", m.proposal, m.instance, m.value, a, m.client_id,
             NoProposal)

Accept(a) ==
  \E m \in acceptor_queue[a] :
    /\ m.msg_type = "ACCEPT" /\ Acceptable(a, m)
    /\ TakeFresh(a, m)
    /\ ResponseProposer(m.origin_id, AcceptAnswer(a, m))
    /\ RecordHistory(a, m.instance, m.proposal, m.proposal, m.value, m.client_id)

\* A lower number gets no answer.
AcceptIgnored(a) ==
  \E m \in acceptor_queue[a] :
    /\ m.msg_type = "ACCEPT" /\ ~Acceptable(a, m)
    /\ TakeFresh(a, m)
    /\ Ignore

AcceptorStep(a) ==
  \/ DuplicateToAcceptor(a)
  \/ PrepareFirst(a) \/ PrepareHigher(a) \/ PrepareIgnored(a)
  \/ Accept(a) \/ AcceptIgnored(a)
=============================================================================
