-------------------------- MODULE PaxosInvariants --------------------------
(***************************************************************************)
(* Why the group agrees: the inductive invariant behind Agreement.         *)
(*                                                                         *)
(* An acceptor that has no history for an instance answers one PREPARE     *)
(* with a PREPARE_ACK that has a client_id; each later PREPARE_ACK of the  *)
(* same instance has none, and the proposer that takes it gives up its     *)
(* round.  So each acceptor grants an instance to one proposer, for good.  *)
(* Only a proposer granted a majority, the owner, can bring a value of its *)
(* own into the instance; every other value is copied from a NACK.         *)
(***************************************************************************)
EXTENDS PaxosGroup

IsGrant(m) == m.msg_type = "PREPARE_ACK" /\ m.client_id = NoClientId

\* What proposer s has received or will receive, unless it is lost.
Inbox(s) == proposer_queue[s] \cup proposer_msg_history[s]

\* The acceptors whose grant of instance i proposer s has counted, and the
\* proposers that a majority has granted it.
Granters(s, i) ==
  {a \in Server : \E m \in proposer_msg_history[s] :
                    IsGrant(m) /\ m.origin_id = a /\ m.instance = i}
Owns(s, i) == Majority(Cardinality(Granters(s, i)))

\* A grant is given once, by an acceptor that then has a history.
GrantsAreUnique ==
  /\ \A s, t \in Server : \A m \in Inbox(s), n \in Inbox(t) :
       IsGrant(m) /\ IsGrant(n) /\ m.origin_id = n.origin_id
                  /\ m.instance = n.instance => s = t /\ m = n
  /\ \A s \in Server : \A m \in Inbox(s) :
       IsGrant(m) => Touched(m.origin_id, m.instance)

\* Proposer s has sent nothing for instance i yet.
Ahead(s, i) == i > instance[s] \/ (i = instance[s] /\ state[s] = "IDLE")

\* No message of s's, and none to s, is of an instance that s has not begun.
NothingAhead ==
  \A s \in Server :
    /\ \A m \in Inbox(s) : ~Ahead(s, m.instance)
    /\ \A a \in Server : \A m \in acceptor_queue[a] :
         m.origin_id = s => ~Ahead(s, m.instance)

\* Without NACKs, every counted response is the grant of another acceptor.
CountsAreGrants ==
  \A s \in Server :
    state[s] = "PROPOSING" /\ pre_nacks[s] = {} =>
      response_cnt[s] <= Cardinality(Granters(s, instance[s]))

\* The request a message or a history entry carries.
Carried(m) == [command |-> m.value, client_id |-> m.client_id]
CarriesRequest(m) == m.msg_type \in {"ACCEPT", "ACCEPT_ACK", "PREPARE_NACK"}

\* The places where a request can be as a value of the instance.
IsAccepted(r, i) ==
  \E a \in Server :
    /\ HasAccepted(a, i)
    /\ r = [command |-> accept_history[a][i].h_accv,
            client_id |-> accept_history[a][i].cid]
IsSentToAcceptor(r, i) ==
  \E a \in Server : \E m \in acceptor_queue[a] :
    CarriesRequest(m) /\ m.instance = i /\ r = Carried(m)
IsSentToProposer(r, i) ==
  \E s \in Server : \E m \in proposer_queue[s] :
    CarriesRequest(m) /\ m.instance = i /\ r = Carried(m)
IsNacked(r, i) ==
  \E s \in Server :
    /\ instance[s] = i /\ state[s] = "PROPOSING"
    /\ \E m \in pre_nacks[s] : r = Carried(m)
IsProposed(r, i) ==
  \E s \in Server :
    instance[s] = i /\ state[s] \in {"ACCEPT", "ACCEPTING"} /\ r = learnt[s]
IsResolved(r, i) ==
  \E s \in Server : Resolved(s, i) /\ r = instance_resolutions[s][i]

Circulates(r, i) ==
  \/ IsAccepted(r, i)
  \/ IsSentToAcceptor(r, i) \/ IsSentToProposer(r, i)
  \/ IsNacked(r, i) \/ IsProposed(r, i) \/ IsResolved(r, i)

\* One value per instance, brought in by its owner, which goes on with it.
OneValue ==
  \A i \in Instance : \A r, q \in Request :
    Circulates(r, i) /\ Circulates(q, i) => r = q
OwnerBringsValue ==
  \A i \in Instance : \A r \in Request :
    Circulates(r, i) =>
      \E s \in Server : Owns(s, i) /\ (instance[s] = i => learnt[s] = r)

\* A proposer that is busy has a request and a learnt one, and while it waits
\* for answers an instance to propose for.
BusyHasRequest ==
  \A s \in Server :
    /\ state[s] # "IDLE" => learnt[s] \in Request
    /\ state[s] \notin {"IDLE", "DEAD"} => HasRequest(s)
    /\ state[s] \in {"PROPOSING", "ACCEPT", "ACCEPTING"} =>
         instance[s] \in Instance

IInv ==
  /\ TypeOK /\ BusyHasRequest
  /\ NothingAhead /\ GrantsAreUnique /\ CountsAreGrants
  /\ OneValue /\ OwnerBringsValue

----------------------------------------------------------------------------
(* Why a CLIENT_ACK is true: an answer that carries a request is a promise *)
(* its acceptor keeps, and each response counted in ACCEPTING is the       *)
(* answer of another acceptor.                                             *)

AnswersAreTrue ==
  \A s \in Server : \A m \in Inbox(s) :
    CarriesRequest(m) => m.origin_id \in Votes(m.instance, m.value, m.client_id)

\* The acceptors whose ACCEPT_ACK of the ACCEPT under way proposer s has handled.
Ackers(s) ==
  {a \in Server : \E m \in proposer_msg_history[s] :
     /\ m.msg_type = "ACCEPT_ACK" /\ m.origin_id = a
     /\ m.instance = instance[s] /\ m.proposal = proposer_num[s]}

CountsAreVotes ==
  \A s \in Server :
    state[s] = "ACCEPTING" => response_cnt[s] <= Cardinality(Ackers(s))

\* The servers send to all but themselves.
NoneToSelf ==
  \A a \in Server : \A m \in acceptor_queue[a] : m.origin_id # a

AckInv ==
  /\ IInv
  /\ NoneToSelf /\ AnswersAreTrue /\ CountsAreVotes /\ AckedIsChosen
=============================================================================
