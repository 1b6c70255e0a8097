----------------------------- MODULE PaxosGroup -----------------------------
(***************************************************************************)
(* The Paxos group of problemset2: N servers, each a proposer and an       *)
(* acceptor process, and the messages between them.  A process that has    *)
(* failed is one that takes no more steps, so the safety properties below  *)
(* also speak of executions in which processes stop.  With Prompt, only    *)
(* proposers may stop and the others go on: a round waits for its answers. *)
(***************************************************************************)
EXTENDS Acceptor, Proposer

vars == <<networkVars, acceptorVars, proposerVars>>

TypeOK == NetworkTypeOK /\ AcceptorTypeOK /\ ProposerTypeOK

Init == NetworkInit /\ AcceptorInit /\ ProposerInit

Next ==
  \E s \in Server :
    \/ AcceptorStep(s) /\ UNCHANGED proposerVars
    \/ ProposerStep(s) /\ UNCHANGED acceptorVars
    \/ /\ DropToAcceptor(s) \/ DropToProposer(s)
       /\ UNCHANGED <<acceptorVars, proposerVars>>

Spec == Init /\ [][Next]_vars

Resolved(s, i) == instance_resolutions[s][i] # None

----------------------------------------------------------------------------
(* What the replicas agree on *)

\* Two proposers that have resolved an instance have resolved it with the same
\* command of the same client: their instance_resolutions agree, whatever is
\* lost, duplicated, reordered or late, and whoever stops.
Agreement ==
  \A s, t \in Server, i \in Instance :
    Resolved(s, i) /\ Resolved(t, i) =>
      instance_resolutions[s][i] = instance_resolutions[t][i]

\* The acceptors that have accepted this command of this client.
Votes(i, value, client_id) ==
  {a \in Server : /\ HasAccepted(a, i)
                  /\ accept_history[a][i].h_accv = value
                  /\ accept_history[a][i].cid = client_id}

\* A CLIENT_ACK tells the truth and survives its sender: its instance holds the
\* very request of that client, and a majority of acceptors has accepted it.
AckedIsChosen ==
  \A s \in Server : \A k \in DOMAIN client_acks[s] :
    LET ack == client_acks[s][k]
    IN  /\ ack.value = Script[s][k].command
        /\ ack.client_id = Script[s][k].client_id
        /\ Majority(Cardinality(Votes(ack.instance, ack.value, ack.client_id)))

\* "assert msg.instance < instance" in ACCEPTING: a proposer never hears of an
\* instance it has not reached itself.
NoFutureMessage ==
  \A s \in Server : \A m \in proposer_queue[s] : m.instance <= instance[s]

\* An acceptor overwrites its history on every ACCEPT it takes, with any number
\* not below the promised one; still it never changes what it has accepted.
AcceptedStable ==
  [][\A a \in Server, i \in Instance :
       HasAccepted(a, i) =>
         /\ accept_history'[a][i].h_accv = accept_history[a][i].h_accv
         /\ accept_history'[a][i].cid = accept_history[a][i].cid]_vars

----------------------------------------------------------------------------
(* The abstract log *)

\* The log is what the proposers have resolved, all of them together.
Log ==
  [i \in Instance |->
     IF \E s \in Server : Resolved(s, i)
     THEN instance_resolutions[CHOOSE s \in Server : Resolved(s, i)][i]
     ELSE None]

Abstract ==
  INSTANCE LockLog WITH log <- Log, next <- instance, held <- lock_set,
                        answered <- [s \in Server |-> Answered(s)]

\* The group implements one legal log of requests that every server executes in
\* order and answers once, although it exists only as N local dictionaries.
ImplementsLockLog == Abstract!Spec

----------------------------------------------------------------------------
(* The lock service *)

\* The commands about resource r that the clients of server s were told of.
AcksAbout(s, r) ==
  {k \in DOMAIN client_acks[s] : client_acks[s][k].value.resource_id = r}

\* A client of server s believes it holds r: it was told so, and has not asked
\* for the release yet.
Holds(s, r) ==
  /\ \E k \in AcksAbout(s, r) :
       /\ client_acks[s][k].value.command_type = "LOCK"
       /\ \A j \in AcksAbout(s, r) : j <= k
  /\ ~ /\ state[s] # "IDLE" /\ HasRequest(s)
       /\ OwnRequest(s).command = [command_type |-> "UNLOCK", resource_id |-> r]

\* What a lock service is for: clients of two servers never hold one lock at
\* once, although each server decides on its own copy of the lock set.
MutualExclusion ==
  \A r \in Resource, s, t \in Server : Holds(s, r) /\ Holds(t, r) => s = t

\* With clients that release only what they hold, no assertion of
\* execute_command ever fails: every replica sees a legal sequence of commands,
\* whatever messages are lost, late or delivered twice and whichever processes
\* stop.  The authors have seen such an assertion fail in failure_test
\* (design_document.tex:462-467).  This says that neither the order of the
\* messages nor the end of a process is enough for that; README.md lists what
\* this model leaves out.
NoProposerDies == \A s \in Server : state[s] # "DEAD"

\* A command that fails those assertions ends every proposer that learns it, and
\* no proposer ever gets past its instance.
DeathIsReplicated ==
  \A s, t \in Server :
    state[s] = "DEAD" =>
      /\ instance[t] <= instance[s]
      /\ Resolved(t, instance[s]) => state[t] = "DEAD"

----------------------------------------------------------------------------
(* Progress *)

\* No acceptor and no message holds a value for the instance, and no proposer
\* is about to send one.
NoValueAt(i) ==
  /\ \A a \in Server : ~HasAccepted(a, i)
  /\ \A a \in Server : \A m \in acceptor_queue[a] :
       ~(m.msg_type = "ACCEPT" /\ m.instance = i)
  /\ \A s \in Server :
       instance[s] = i => state[s] \notin {"ACCEPT", "ACCEPTING"}

\* The PREPARE_ACKs a proposer may still count for the instance: those of
\* acceptors that have not answered anyone, those on their way, those counted.
Untouched(i) == {a \in Server : ~Touched(a, i)}
AcksComing(s, i) ==
  {m \in proposer_queue[s] \ proposer_msg_history[s] :
     m.msg_type = "PREPARE_ACK" /\ m.client_id # None /\ m.instance = i}
Counted(s, i) ==
  IF state[s] = "PROPOSING" /\ instance[s] = i THEN response_cnt[s] ELSE 0

\* No proposer can ever gather a majority of PREPARE_ACKs for the instance.
Stuck(i) ==
  /\ NoValueAt(i)
  /\ \A s \in Server :
       instance[s] <= i =>
         ~Majority(Cardinality(Untouched(i) \ {s}) + Cardinality(AcksComing(s, i))
                   + Counted(s, i))

\* An acceptor gives one usable PREPARE_ACK per instance: every later one has no
\* client_id and fails the round that takes it.  So once the first ones are
\* spread too thin, no higher number ever helps.
StuckForever == [][\A i \in Instance : Stuck(i) => Stuck(i)']_vars

\* The design document: the rounds of an instance are repeated "until a value is
\* eventually chosen", a livelock being negligible.
InstanceNeverStuck == \A i \in Instance : ~Stuck(i)
=============================================================================
