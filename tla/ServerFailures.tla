--------------------------- MODULE ServerFailures ---------------------------
(***************************************************************************)
(* A Paxos group of server.py that loses servers: the connections a        *)
(* proposer opens when it starts, what becomes of them when a send fails,  *)
(* and whether its requests are still answered.  One proposer serves a     *)
(* client, without competition and without contention for a lock, so that  *)
(* proposal numbers need no mention: every request of its carries a higher *)
(* one than those before, and it times out when nothing is under way.      *)
(***************************************************************************)
EXTENDS Integers, Sequences, FiniteSets

CONSTANTS
  N,          \* the size of the group
  Proposer,   \* the server that serves the client
  Faulty,     \* the others that may be late or fail
  MayBreak,   \* TRUE when a connection to a failed server may break
  Asking,     \* acceptors with a request of some faulty server in their queue
  Requests,   \* how many requests the client has
  MaxBehind,  \* requests an acceptor may have in its queue when another is sent
  MaxAlike    \* so many or more answers of one kind are not told apart

Server == 0 .. N - 1
Other == Server \ {Proposer}

ASSUME FailureAssumption ==
  /\ N \in Nat /\ Proposer \in Server /\ Faulty \subseteq Other
  /\ Asking \subseteq Other \ Faulty /\ (Asking # {} => Faulty # {})
  /\ MayBreak \in BOOLEAN
  /\ {Requests, MaxBehind, MaxAlike} \subseteq Nat

VARIABLES
  failed,              \* the servers that do not run (yet, or any more)
  dead,                \* the acceptors that ended with an exception
  server_connections,  \* the servers in the proposer's list of connections
  acceptor_queue,      \* [Other -> Seq of [type, origin, instance]]
  promised, accepted,  \* sets of <<acceptor, instance>>
  proposer_queue,      \* [Answer -> how many are in the queue]
  state, instance, response_cnt

vars == <<failed, dead, server_connections, acceptor_queue, promised, accepted,
          proposer_queue, state, instance, response_cnt>>

\* Old stands for an instance the proposer has left behind long ago.
Old == -1
Instance == 0 .. Requests - 1
Request == [type : {"PREPARE", "ACCEPT"}, origin : Server, instance : Instance \cup {Old}]

\* A PREPARE_ACK has a client only when it answers the acceptor's first
\* request of the instance; all other answers have one.
Answer == [type : {"PREPARE_ACK", "PREPARE_NACK", "ACCEPT_ACK"},
           client : BOOLEAN, instance : Instance]

Majority(count) == count > N \div 2

TypeOK ==
  /\ failed \subseteq Faulty /\ dead \subseteq Asking
  /\ server_connections \subseteq Other
  /\ acceptor_queue \in [Other -> Seq(Request)]
  /\ promised \subseteq Other \X Instance /\ accepted \subseteq promised
  /\ proposer_queue \in [Answer -> 0 .. MaxAlike]
  /\ state \in {"IDLE", "READY", "PROPOSING", "ACCEPT", "ACCEPTING"}
  /\ instance \in 0 .. Requests
  /\ response_cnt \in 0 .. N \div 2 + 1

\* A proposer connects in the order of server_list, which is that of the server
\* numbers, to the servers that listen already, and never again.  A late server
\* is, for this proposer, one that failed before the start.
Init ==
  /\ failed \in SUBSET Faulty
  /\ dead = {}
  /\ server_connections = Other \ failed
  /\ acceptor_queue = [a \in Other |->
       IF a \notin Asking THEN <<>>
       ELSE <<[type |-> "PREPARE", origin |-> CHOOSE f \in Faulty : TRUE,
               instance |-> Old]>>]
  /\ promised = {} /\ accepted = {}
  /\ proposer_queue = [m \in Answer |-> 0]
  /\ state = "IDLE" /\ instance = 0 /\ response_cnt = 0

Fail(s) ==
  /\ s \in Faulty \ failed
  /\ failed' = failed \cup {s}
  /\ UNCHANGED <<dead, server_connections, acceptor_queue, promised, accepted,
                 proposer_queue, state, instance, response_cnt>>

Running == Other \ (failed \cup dead)
-----------------------------------------------------------------------------
(* send_to_acceptors *)

\* The sends that raise an exception: to failed servers, when their connections
\* are broken and not just silent.
Raising == IF MayBreak THEN SUBSET (failed \cap server_connections) ELSE {{}}

\* Mutant: the loop ends with the first failure.
AttemptedUpTo(err) ==
  {s \in server_connections : \A p \in server_connections : p < s => p \notin err}

\* p is the one before s in the list.
Precedes(p, s) == p < s /\ \A q \in server_connections : q < s => q <= p

\* The loop removes a connection that raises from the list it goes through, and
\* so passes over the next one.
Attempted(err) ==
  LET tried[s \in Server] ==
        /\ s \in server_connections
        /\ \A p \in server_connections : Precedes(p, s) => ~(tried[p] /\ p \in err)
  IN {s \in Server : tried[s]}

\* What reaches a process that has ended is left out.
SendToAcceptors(type) ==
  \E err \in Raising :
    LET reached == Attempted(err) \cap Running
        msg == [type |-> type, origin |-> Proposer, instance |-> instance]
    IN /\ \A a \in reached : Len(acceptor_queue[a]) <= MaxBehind
       /\ acceptor_queue' = [a \in Other |->
            IF a \in reached THEN Append(acceptor_queue[a], msg)
                             ELSE acceptor_queue[a]]
       /\ server_connections' = server_connections \ (err \cap Attempted(err))
-----------------------------------------------------------------------------
(* The acceptors *)

AnswerTo(a, m) ==
  [type |-> IF m.type = "ACCEPT" THEN "ACCEPT_ACK"
            ELSE IF <<a, m.instance>> \in accepted THEN "PREPARE_NACK" ELSE "PREPARE_ACK",
   client |-> \/ m.type = "ACCEPT" \/ <<a, m.instance>> \in accepted
              \/ <<a, m.instance>> \notin promised,
   instance |-> m.instance]

Put(answer) ==
  proposer_queue' =
    [proposer_queue EXCEPT ![answer] = IF @ = MaxAlike THEN @ ELSE @ + 1]

\* Acceptor a takes a request of this proposer: the answer, and the history.
Respond(a) ==
  /\ a \in Running /\ acceptor_queue[a] # <<>>
  /\ LET m == Head(acceptor_queue[a])
     IN /\ m.origin = Proposer
        /\ Put(AnswerTo(a, m))
        /\ promised' = promised \cup {<<a, m.instance>>}
        /\ accepted' = IF m.type = "ACCEPT" THEN accepted \cup {<<a, m.instance>>}
                                            ELSE accepted
  /\ acceptor_queue' = [acceptor_queue EXCEPT ![a] = Tail(@)]
  /\ UNCHANGED <<failed, dead, server_connections, state, instance, response_cnt>>

\* It takes one of another proposer.  When the send of the answer raises an
\* exception, the handler calls remove on a dictionary: the process ends.
RespondElsewhere(a) ==
  /\ a \in Running /\ acceptor_queue[a] # <<>>
  /\ LET m == Head(acceptor_queue[a])
     IN /\ m.origin # Proposer
        /\ \/ dead' = dead
           \/ MayBreak /\ m.origin \in failed /\ dead' = dead \cup {a}
  /\ acceptor_queue' = [acceptor_queue EXCEPT ![a] = Tail(@)]
  /\ UNCHANGED <<failed, server_connections, promised, accepted, proposer_queue,
                 state, instance, response_cnt>>
-----------------------------------------------------------------------------
(* The proposer *)

ReceiveCommand ==
  /\ state = "IDLE" /\ instance < Requests
  /\ state' = "READY"
  /\ UNCHANGED <<failed, dead, server_connections, acceptor_queue, promised,
                 accepted, proposer_queue, instance, response_cnt>>

\* Mutant: the responses of the round before are kept.
SendRoundKeeping(from, type, to) ==
  /\ state = from
  /\ SendToAcceptors(type)
  /\ state' = to
  /\ UNCHANGED <<failed, dead, promised, accepted, proposer_queue, instance, response_cnt>>

SendRound(from, type, to) ==
  /\ state = from
  /\ SendToAcceptors(type)
  /\ state' = to
  /\ response_cnt' = 0
  /\ UNCHANGED <<failed, dead, promised, accepted, proposer_queue, instance>>

SendPrepare == SendRound("READY", "PREPARE", "PROPOSING")
SendAccept == SendRound("ACCEPT", "ACCEPT", "ACCEPTING")

\* Queue.get: of MaxAlike answers some may be left or not.
Get(m) ==
  /\ proposer_queue[m] > 0
  /\ \E left \in {proposer_queue[m] - 1}
               \cup (IF proposer_queue[m] = MaxAlike THEN {MaxAlike} ELSE {}) :
       proposer_queue' = [proposer_queue EXCEPT ![m] = left]
  /\ UNCHANGED <<failed, dead, server_connections, acceptor_queue, promised, accepted>>

\* A message without a client fails the round; another is counted when it is a
\* PREPARE_ACK or PREPARE_NACK of the instance, and else passed over.
Proposing ==
  /\ state = "PROPOSING"
  /\ \E m \in Answer :
       LET counts == m.instance = instance /\ m.type # "ACCEPT_ACK"
           count == response_cnt + (IF counts THEN 1 ELSE 0)
       IN /\ Get(m)
          /\ \/ ~m.client /\ state' = "READY" /\ UNCHANGED response_cnt
             \/ /\ m.client
                /\ response_cnt' = count
                /\ state' = IF Majority(count) THEN "ACCEPT" ELSE state
  /\ UNCHANGED instance

\* An ACCEPT_ACK of the instance is counted; with a majority the client is
\* answered and the instance left.
Accepting ==
  /\ state = "ACCEPTING"
  /\ \E m \in Answer :
       LET counts == m.instance = instance /\ m.type = "ACCEPT_ACK"
           count == response_cnt + (IF counts THEN 1 ELSE 0)
       IN /\ Get(m)
          /\ response_cnt' = count
          /\ \/ ~Majority(count) /\ UNCHANGED <<state, instance>>
             \/ Majority(count) /\ state' = "IDLE" /\ instance' = instance + 1

TimeOut ==
  /\ state \in {"PROPOSING", "ACCEPTING"}
  /\ \A m \in Answer : proposer_queue[m] = 0
  /\ \A a \in Running : acceptor_queue[a] = <<>>
  /\ state' = "READY"
  /\ UNCHANGED <<failed, dead, server_connections, acceptor_queue, promised,
                 accepted, proposer_queue, instance, response_cnt>>

ProposerStep ==
  ReceiveCommand \/ SendPrepare \/ SendAccept \/ Proposing \/ Accepting \/ TimeOut

AcceptorStep(a) == Respond(a) \/ RespondElsewhere(a)

Next == ProposerStep \/ \E s \in Other : AcceptorStep(s) \/ Fail(s)

\* Servers need not fail; a process that can go on does, as the operating
\* system schedules it.
Spec ==
  /\ Init /\ [][Next]_vars
  /\ WF_vars(ProposerStep)
  /\ \A a \in Other : WF_vars(AcceptorStep(a))
-----------------------------------------------------------------------------
\* A round misses no more running servers than it removes connections
\* (server.py:305-315): losing one server costs a round at most two answers.
OneMissPerRemoval ==
  [][acceptor_queue' # acceptor_queue /\ state' # state =>
       Cardinality({a \in Running \cap server_connections :
                      acceptor_queue'[a] = acceptor_queue[a]})
         <= Cardinality(server_connections) - Cardinality(server_connections')]_vars

AllAnswered == instance = Requests /\ state = "IDLE"

\* A running server is missed once at most for every connection to a failed one
\* that is gone.
Margin == Majority(Cardinality(Running) - Cardinality(failed \ server_connections))

\* The client is answered as long as the other servers that run, less one for
\* every lost connection, are a majority of the group: what send_to_acceptors
\* passes over is made up for by the others, and no round that failed spoils
\* those after it (server.py:305-315, :337-353, :488-500, :714-729).
AnsweredWithMargin == <>~Margin \/ <>AllAnswered

\* The design document: "as long as a majority of Paxos group members are
\* operating, instance can still be resolved".
MajoritySuffices == <>~Majority(Cardinality(Running \cup {Proposer})) \/ <>AllAnswered
=============================================================================
