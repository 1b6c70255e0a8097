------------------------ MODULE ServerFailures_proofs ------------------------
(***************************************************************************)
(* A group that loses servers, for every size of it, every set of faulty   *)
(* servers and every number of requests: the type, and how many running    *)
(* servers a round misses.                                                 *)
(***************************************************************************)
EXTENDS ServerFailures, FiniteSetTheorems, SequenceTheorems, TLAPS

\* The requests that may be in the queue of acceptor a.
Own == {r \in Request : r.origin = Proposer /\ r.instance \in Instance}
Foreign == {r \in Request : r.origin # Proposer}
Expected(a) == IF a \in Asking THEN Own \cup Foreign ELSE Own

QueuesExpected == \A a \in Other : acceptor_queue[a] \in Seq(Expected(a))

\* The proposer is in a round of an instance, and its round is not won yet.
InRound ==
  /\ state # "IDLE" => instance < Requests
  /\ state \in {"PROPOSING", "ACCEPTING"} => ~Majority(response_cnt)

IInv == TypeOK /\ QueuesExpected /\ InRound
-----------------------------------------------------------------------------
(* The loop of send_to_acceptors *)

\* Every set of natural numbers has a least one.
LEMMA LeastNatural ==
  ASSUME NEW T \in SUBSET Nat, T # {}
  PROVE  \E m \in T : \A k \in T : m <= k
<1>. DEFINE R == {ss \in Nat \X Nat : ss[1] < ss[2]}
<1>1. IsWellFoundedOn(R, Nat)
  BY NatLessThanWellFounded DEF OpToRel
<1>. HIDE DEF R
<1>2. PICK m \in T : \A k \in T : <<k, m>> \notin R
  BY <1>1, WFMin
<1>3. \A k \in T : k \in Nat /\ m \in Nat /\ ~(k < m)
  BY <1>2 DEF R
<1>. QED  BY <1>3

\* The recursive definition in Attempted has a solution: the connections that
\* are tried are those before which none was tried and raised.
LEMMA AttemptedIs ==
  ASSUME server_connections \subseteq Server, NEW err
  PROVE  \A s \in Server : s \in Attempted(err) <=>
           /\ s \in server_connections
           /\ \A p \in server_connections :
                Precedes(p, s) => ~(p \in Attempted(err) /\ p \in err)
<1>. DEFINE Tried(g, s) ==
       /\ s \in server_connections
       /\ \A p \in server_connections : Precedes(p, s) => ~(g[p] /\ p \in err)
     Upto(n) == \E g \in [Server -> BOOLEAN] : \A s \in Server : s < n => g[s] = Tried(g, s)
     T == {n \in Nat : ~Upto(n)}
<1>1. Upto(N)
  <2>1. SUFFICES ASSUME T # {} PROVE FALSE
    BY FailureAssumption
  <2>2. PICK m \in T : \A k \in T : m <= k
    BY <2>1, LeastNatural
  <2>3. m # 0
    <3>1. [s \in Server |-> FALSE] \in [Server -> BOOLEAN] /\ \A s \in Server : ~(s < 0)
      BY FailureAssumption DEF Server
    <3>2. Upto(0)
      BY <3>1
    <3>. QED  BY <2>2, <3>2
  <2>4. Upto(m - 1)
    <3>1. m \in Nat /\ m - 1 \in Nat
      BY <2>3
    <3>2. m - 1 \notin T
      <4>. HIDE DEF T
      <4>. QED  BY <2>2, <3>1
    <3>. QED  BY <3>1, <3>2
  <2>5. PICK g \in [Server -> BOOLEAN] : \A s \in Server : s < m - 1 => g[s] = Tried(g, s)
    BY <2>4
  <2>. DEFINE h == [s \in Server |-> IF s < m - 1 THEN g[s] ELSE Tried(g, s)]
  <2>6. h \in [Server -> BOOLEAN]
    OBVIOUS
  <2>7. ASSUME NEW s \in Server, s < m PROVE h[s] = Tried(h, s)
    <3>1. s \in Int /\ m \in Int /\ s <= m - 1
      BY <2>7, FailureAssumption DEF Server
    <3>2. \A p \in server_connections : Precedes(p, s) => h[p] = g[p]
      <4>1. ASSUME NEW p \in server_connections, Precedes(p, s)
            PROVE  p \in Server /\ p < m - 1
        BY <3>1, <4>1, FailureAssumption DEF Server, Precedes
      <4>. QED  BY <4>1
    <3>3. h[s] = Tried(g, s)
      BY <2>5
    <3>. QED  BY <3>2, <3>3
  <2>8. Upto(m)
    <3>. HIDE DEF h, Tried
    <3>. QED  BY <2>6, <2>7
  <2>. QED  BY <2>2, <2>8
<1>2. PICK g \in [Server -> BOOLEAN] : \A s \in Server : g[s] = Tried(g, s)
  <2>1. \A s \in Server : s < N
    BY FailureAssumption DEF Server
  <2>. QED  BY <1>1, <2>1
<1>3. g = [s \in Server |-> Tried(g, s)]
  BY <1>2
<1>. DEFINE solution == CHOOSE f : f = [s \in Server |-> Tried(f, s)]
<1>4. solution = [s \in Server |-> Tried(solution, s)]
  BY <1>3
<1>5. Attempted(err) = {s \in Server : solution[s]}
  BY DEF Attempted
<1>. HIDE DEF solution
<1>. QED  BY <1>4, <1>5

LEMMA ConnectionsFinite ==
  ASSUME TypeOK
  PROVE  /\ server_connections \subseteq Server /\ IsFiniteSet(server_connections)
         /\ Cardinality(server_connections) \in Nat
<1>1. IsFiniteSet(Server)
  BY FailureAssumption, FS_Interval DEF Server
<1>2. server_connections \subseteq Server
  BY DEF TypeOK, Other
<1>. QED  BY <1>1, <1>2, FS_Subset, FS_CardinalityType

\* A server that is passed over comes right after one that is removed, so no
\* more are passed over than removed.
LEMMA PassedOver ==
  ASSUME TypeOK, NEW err
  PROVE  Cardinality(server_connections \ Attempted(err))
           <= Cardinality(err \cap Attempted(err) \cap server_connections)
<1>. DEFINE Passed == server_connections \ Attempted(err)
            Removed == err \cap Attempted(err) \cap server_connections
            before == [a \in Passed |-> CHOOSE p \in server_connections :
                         Precedes(p, a) /\ p \in Attempted(err) /\ p \in err]
<1>1. ASSUME NEW a \in Passed
      PROVE  before[a] \in Removed /\ Precedes(before[a], a)
  <2>1. \E p \in server_connections : Precedes(p, a) /\ p \in Attempted(err) /\ p \in err
    <3>. HIDE DEF before
    <3>. QED  BY ConnectionsFinite, AttemptedIs
  <2>. QED  BY <2>1
<1>2. ASSUME NEW a \in Passed, NEW b \in Passed, before[a] = before[b]
      PROVE  a = b
  <2>1. Precedes(before[a], a) /\ Precedes(before[a], b) /\ before[a] \in Server
    <3>. HIDE DEF before
    <3>. QED  BY <1>1, <1>2, ConnectionsFinite
  <2>2. \A p \in Server, x, y \in server_connections :
           Precedes(p, x) /\ Precedes(p, y) => x = y
    BY ConnectionsFinite, FailureAssumption DEF Precedes, Server
  <2>. HIDE DEF before
  <2>. QED  BY <2>1, <2>2
<1>. HIDE DEF before
<1>3. before \in [Passed -> Removed]
  <2>1. DOMAIN before = Passed /\ before = [a \in Passed |-> before[a]]
    BY DEF before
  <2>. HIDE DEF Passed, Removed
  <2>. QED  BY <1>1, <2>1
<1>4. before \in Injection(Passed, Removed)
  BY <1>2, <1>3 DEF Injection, IsInjective
<1>5. IsFiniteSet(Removed)
  BY ConnectionsFinite, FS_Subset
<1>. HIDE DEF Passed, Removed
<1>6. Cardinality(Passed) <= Cardinality(Removed)
  BY <1>4, <1>5, FS_Injection
<1>. QED  BY <1>6 DEF Passed, Removed
-----------------------------------------------------------------------------
(* Types *)

LEMMA OwnExpected ==
  ASSUME NEW a
  PROVE  Own \subseteq Expected(a) /\ Expected(a) \subseteq Request
BY DEF Own, Foreign, Expected

LEMMA SendTypes ==
  ASSUME IInv, NEW type \in {"PREPARE", "ACCEPT"}, state # "IDLE", SendToAcceptors(type)
  PROVE  /\ acceptor_queue' \in [Other -> Seq(Request)] /\ QueuesExpected'
         /\ server_connections' \subseteq Other
         /\ \E err : /\ server_connections' = server_connections \ (err \cap Attempted(err))
                     /\ \A a \in Attempted(err) \cap Running :
                          acceptor_queue'[a] # acceptor_queue[a]
<1>. USE DEF IInv
<1>1. PICK err \in Raising :
        LET reached == Attempted(err) \cap Running
            msg == [type |-> type, origin |-> Proposer, instance |-> instance]
        IN /\ acceptor_queue' = [a \in Other |->
                IF a \in reached THEN Append(acceptor_queue[a], msg)
                                 ELSE acceptor_queue[a]]
           /\ server_connections' = server_connections \ (err \cap Attempted(err))
  BY DEF SendToAcceptors
<1>. DEFINE msg == [type |-> type, origin |-> Proposer, instance |-> instance]
<1>2. msg \in Own
  BY FailureAssumption DEF TypeOK, InRound, Own, Request, Instance
<1>. HIDE DEF msg
<1>3. ASSUME NEW a \in Other
      PROVE  /\ acceptor_queue'[a] \in Seq(Expected(a))
             /\ a \in Attempted(err) \cap Running => acceptor_queue'[a] # acceptor_queue[a]
  <2>1. acceptor_queue[a] \in Seq(Expected(a)) /\ msg \in Expected(a)
    BY <1>2, OwnExpected DEF QueuesExpected
  <2>2. /\ Append(acceptor_queue[a], msg) \in Seq(Expected(a))
        /\ Len(Append(acceptor_queue[a], msg)) = Len(acceptor_queue[a]) + 1
        /\ Len(acceptor_queue[a]) \in Nat
    BY <2>1, AppendProperties, LenProperties
  <2>3. Append(acceptor_queue[a], msg) # acceptor_queue[a]
    BY <2>2
  <2>4. acceptor_queue'[a] = IF a \in Attempted(err) \cap Running
                             THEN Append(acceptor_queue[a], msg) ELSE acceptor_queue[a]
    BY <1>1 DEF msg
  <2>. QED  BY <2>1, <2>2, <2>3, <2>4
<1>4. \A a \in Other : acceptor_queue'[a] \in Seq(Request)
  BY <1>3, OwnExpected, SeqMonotonic
<1>5. acceptor_queue' \in [Other -> Seq(Request)]
  <2>1. DOMAIN acceptor_queue' = Other /\ acceptor_queue' = [a \in Other |-> acceptor_queue'[a]]
    BY <1>1
  <2>. QED  BY <1>4, <2>1
<1>6. QueuesExpected'
  BY <1>3 DEF QueuesExpected, Expected
<1>7. \A a \in Attempted(err) \cap Running : acceptor_queue'[a] # acceptor_queue[a]
  BY <1>3 DEF Running
<1>. QED  BY <1>1, <1>5, <1>6, <1>7 DEF TypeOK

LEMMA QueueTail ==
  ASSUME IInv, NEW a \in Other, acceptor_queue[a] # <<>>,
         acceptor_queue' = [acceptor_queue EXCEPT ![a] = Tail(@)]
  PROVE  /\ Head(acceptor_queue[a]) \in Expected(a)
         /\ acceptor_queue' \in [Other -> Seq(Request)] /\ QueuesExpected'
<1>1. acceptor_queue[a] \in Seq(Expected(a)) /\ acceptor_queue \in [Other -> Seq(Request)]
  BY DEF IInv, QueuesExpected, TypeOK
<1>2. Head(acceptor_queue[a]) \in Expected(a) /\ Tail(acceptor_queue[a]) \in Seq(Expected(a))
  BY <1>1, HeadTailProperties
<1>3. Tail(acceptor_queue[a]) \in Seq(Request)
  BY <1>2, OwnExpected, SeqMonotonic
<1>4. acceptor_queue' \in [Other -> Seq(Request)]
  BY <1>1, <1>3
<1>5. QueuesExpected'
  BY <1>1, <1>2 DEF IInv, QueuesExpected, Expected
<1>. QED  BY <1>2, <1>4, <1>5

LEMMA AcceptorKeeps ==
  ASSUME IInv, NEW a \in Other, AcceptorStep(a)
  PROVE  IInv'
<1>. DEFINE m == Head(acceptor_queue[a])
<1>1. /\ acceptor_queue[a] # <<>>
      /\ acceptor_queue' = [acceptor_queue EXCEPT ![a] = Tail(@)]
      /\ UNCHANGED <<failed, server_connections, state, instance, response_cnt>>
  BY DEF AcceptorStep, Respond, RespondElsewhere
<1>2. /\ m \in Expected(a)
      /\ acceptor_queue' \in [Other -> Seq(Request)] /\ QueuesExpected'
  BY <1>1, QueueTail
<1>3. InRound'
  BY <1>1 DEF IInv, InRound
<1>. HIDE DEF m
<1>4. CASE Respond(a)
  <2>1. /\ m.origin = Proposer /\ dead' = dead
        /\ Put(AnswerTo(a, m))
        /\ promised' = promised \cup {<<a, m.instance>>}
        /\ accepted' \in {accepted, accepted \cup {<<a, m.instance>>}}
    BY <1>4 DEF Respond, m
  <2>2. m \in Request /\ m.instance \in Instance
    BY <1>2, <2>1 DEF Expected, Own, Foreign
  <2>3. AnswerTo(a, m) \in Answer
    BY <2>2 DEF AnswerTo, Answer
  <2>4. proposer_queue' \in [Answer -> 0 .. MaxAlike]
    <3>1. proposer_queue \in [Answer -> 0 .. MaxAlike] /\ MaxAlike \in Nat
      BY FailureAssumption DEF IInv, TypeOK
    <3>2. PICK c : proposer_queue' = [proposer_queue EXCEPT ![AnswerTo(a, m)] = c]
                   /\ c = IF proposer_queue[AnswerTo(a, m)] = MaxAlike
                          THEN MaxAlike ELSE proposer_queue[AnswerTo(a, m)] + 1
      BY <2>1 DEF Put
    <3>3. c \in 0 .. MaxAlike
      BY <2>3, <3>1, <3>2
    <3>. QED  BY <3>1, <3>2, <3>3
  <2>5. promised' \subseteq Other \X Instance /\ accepted' \subseteq promised'
    BY <2>1, <2>2 DEF IInv, TypeOK
  <2>. QED  BY <1>1, <1>2, <1>3, <2>1, <2>4, <2>5 DEF IInv, TypeOK
<1>5. CASE RespondElsewhere(a)
  <2>1. /\ m.origin # Proposer /\ dead' \in {dead, dead \cup {a}}
        /\ UNCHANGED <<promised, accepted, proposer_queue>>
    BY <1>5 DEF RespondElsewhere, m
  <2>2. a \in Asking
    BY <1>2, <2>1 DEF Expected, Own
  <2>. QED  BY <1>1, <1>2, <1>3, <2>1, <2>2 DEF IInv, TypeOK
<1>. QED  BY <1>4, <1>5 DEF AcceptorStep

LEMMA MajorityType ==
  ASSUME NEW c \in 0 .. N \div 2
  PROVE  /\ c \in Nat /\ ~Majority(c)
         /\ c + 1 \in 0 .. N \div 2 + 1 /\ c \in 0 .. N \div 2 + 1
BY FailureAssumption DEF Majority

LEMMA GetTypes ==
  ASSUME TypeOK, NEW m \in Answer, Get(m)
  PROVE  /\ proposer_queue' \in [Answer -> 0 .. MaxAlike]
         /\ UNCHANGED <<failed, dead, server_connections, acceptor_queue, promised, accepted>>
<1>1. proposer_queue \in [Answer -> 0 .. MaxAlike] /\ MaxAlike \in Nat
  BY FailureAssumption DEF TypeOK
<1>2. PICK left : /\ left = proposer_queue[m] - 1 \/ left = MaxAlike
                  /\ proposer_queue[m] > 0
                  /\ proposer_queue' = [proposer_queue EXCEPT ![m] = left]
  BY DEF Get
<1>3. left \in 0 .. MaxAlike
  BY <1>1, <1>2
<1>. QED  BY <1>1, <1>2, <1>3 DEF Get

LEMMA ProposerKeeps ==
  ASSUME IInv, ProposerStep
  PROVE  IInv'
<1>. USE DEF IInv
<1>. DEFINE States == {"IDLE", "READY", "PROPOSING", "ACCEPT", "ACCEPTING"}
<1>1. CASE ReceiveCommand \/ TimeOut
  <2>1. /\ UNCHANGED <<failed, dead, server_connections, acceptor_queue, promised,
                       accepted, proposer_queue, instance, response_cnt>>
        /\ state' = "READY" /\ (state # "IDLE" \/ instance < Requests)
    BY <1>1 DEF ReceiveCommand, TimeOut
  <2>2. QueuesExpected'
    BY <2>1 DEF QueuesExpected, Expected
  <2>3. InRound'
    BY <2>1 DEF InRound
  <2>. QED  BY <2>1, <2>2, <2>3 DEF TypeOK
<1>2. CASE SendPrepare \/ SendAccept
  <2>1. PICK type \in {"PREPARE", "ACCEPT"} : SendToAcceptors(type)
    BY <1>2 DEF SendPrepare, SendAccept, SendRound
  <2>2. /\ state # "IDLE" /\ state' \in {"PROPOSING", "ACCEPTING"} /\ response_cnt' = 0
        /\ UNCHANGED <<failed, dead, promised, accepted, proposer_queue, instance>>
    BY <1>2 DEF SendPrepare, SendAccept, SendRound
  <2>3. /\ acceptor_queue' \in [Other -> Seq(Request)] /\ QueuesExpected'
        /\ server_connections' \subseteq Other
    BY <2>1, <2>2, SendTypes
  <2>4. 0 \in 0 .. N \div 2
    BY FailureAssumption
  <2>5. InRound'
    BY <2>2, <2>4, MajorityType DEF InRound
  <2>6. response_cnt' \in 0 .. N \div 2 + 1
    BY <2>2, <2>4, MajorityType
  <2>. QED  BY <2>2, <2>3, <2>5, <2>6 DEF TypeOK
<1>3. ASSUME state \in {"PROPOSING", "ACCEPTING"}
      PROVE  /\ response_cnt \in 0 .. N \div 2 /\ instance \in 0 .. Requests
             /\ instance < Requests /\ Requests \in Nat
  BY <1>3, FailureAssumption DEF TypeOK, InRound, Majority
<1>4. CASE Proposing
  <2>1. PICK m \in Answer, count \in {response_cnt, response_cnt + 1} :
          /\ Get(m)
          /\ \/ state' = "READY" /\ response_cnt' = response_cnt
             \/ response_cnt' = count /\ state' = IF Majority(count) THEN "ACCEPT" ELSE state
    <3>1. \A counts : response_cnt + (IF counts THEN 1 ELSE 0) \in {response_cnt, response_cnt + 1}
      BY <1>3, <1>4 DEF Proposing
    <3>. QED  BY <1>4, <3>1 DEF Proposing
  <2>2. instance' = instance /\ state = "PROPOSING"
    BY <1>4 DEF Proposing
  <2>3. /\ proposer_queue' \in [Answer -> 0 .. MaxAlike]
        /\ UNCHANGED <<failed, dead, server_connections, acceptor_queue, promised, accepted>>
    BY <2>1, GetTypes
  <2>4. response_cnt' \in 0 .. N \div 2 + 1
    BY <1>3, <2>1, <2>2, MajorityType
  <2>5. QueuesExpected'
    BY <2>3 DEF QueuesExpected, Expected
  <2>6. InRound'
    BY <1>3, <2>1, <2>2 DEF InRound
  <2>7. state' \in States
    BY <2>1, <2>2
  <2>. QED  BY <2>2, <2>3, <2>4, <2>5, <2>6, <2>7 DEF TypeOK
<1>5. CASE Accepting
  <2>1. PICK m \in Answer, count \in {response_cnt, response_cnt + 1} :
          /\ Get(m) /\ response_cnt' = count
          /\ \/ ~Majority(count) /\ UNCHANGED <<state, instance>>
             \/ Majority(count) /\ state' = "IDLE" /\ instance' = instance + 1
    <3>1. \A counts : response_cnt + (IF counts THEN 1 ELSE 0) \in {response_cnt, response_cnt + 1}
      BY <1>3, <1>5 DEF Accepting
    <3>. QED  BY <1>5, <3>1 DEF Accepting
  <2>2. state = "ACCEPTING"
    BY <1>5 DEF Accepting
  <2>3. /\ proposer_queue' \in [Answer -> 0 .. MaxAlike]
        /\ UNCHANGED <<failed, dead, server_connections, acceptor_queue, promised, accepted>>
    BY <2>1, GetTypes
  <2>4. response_cnt' \in 0 .. N \div 2 + 1
    BY <1>3, <2>1, <2>2, MajorityType
  <2>5. QueuesExpected'
    BY <2>3 DEF QueuesExpected, Expected
  <2>6. InRound' /\ instance' \in 0 .. Requests
    BY <1>3, <2>1, <2>2 DEF InRound
  <2>7. state' \in States
    BY <2>1, <2>2
  <2>. QED  BY <2>3, <2>4, <2>5, <2>6, <2>7 DEF TypeOK
<1>. QED  BY <1>1, <1>2, <1>4, <1>5 DEF ProposerStep

LEMMA InitInv == Init => IInv
<1>. SUFFICES ASSUME Init PROVE IInv
  OBVIOUS
<1>1. \A a \in Other : acceptor_queue[a] \in Seq(Expected(a))
  <2>. SUFFICES ASSUME NEW a \in Other PROVE acceptor_queue[a] \in Seq(Expected(a))
    OBVIOUS
  <2>1. CASE a \notin Asking
    BY <2>1, EmptySeq DEF Init
  <2>2. CASE a \in Asking
    <3>. DEFINE f == CHOOSE g \in Faulty : TRUE
                r == [type |-> "PREPARE", origin |-> f, instance |-> Old]
    <3>1. f \in Server /\ f # Proposer
      BY <2>2, FailureAssumption DEF Other
    <3>2. acceptor_queue[a] = <<r>>
      BY <2>2 DEF Init
    <3>. HIDE DEF f
    <3>3. r \in Expected(a)
      BY <2>2, <3>1 DEF Expected, Foreign, Request
    <3>. QED  BY <3>2, <3>3
  <2>. QED  BY <2>1, <2>2
<1>2. \A a \in Other : acceptor_queue[a] \in Seq(Request)
  BY <1>1, OwnExpected, SeqMonotonic
<1>3. acceptor_queue \in [Other -> Seq(Request)]
  BY <1>2 DEF Init
<1>4. 0 \in 0 .. N \div 2 + 1 /\ 0 \in 0 .. Requests /\ 0 \in 0 .. MaxAlike
  BY FailureAssumption
<1>5. TypeOK
  BY <1>3, <1>4 DEF Init, TypeOK
<1>. QED  BY <1>1, <1>5 DEF IInv, QueuesExpected, InRound, Init

LEMMA StepInv == IInv /\ [Next]_vars => IInv'
<1>. SUFFICES ASSUME IInv, [Next]_vars PROVE IInv'
  OBVIOUS
<1>1. CASE UNCHANGED vars
  BY <1>1 DEF vars, IInv, TypeOK, QueuesExpected, Expected, InRound
<1>2. ASSUME NEW s \in Other, Fail(s) PROVE IInv'
  <2>1. /\ failed' \subseteq Faulty
        /\ UNCHANGED <<dead, server_connections, acceptor_queue, promised, accepted,
                       proposer_queue, state, instance, response_cnt>>
    BY <1>2 DEF Fail, IInv, TypeOK
  <2>. QED  BY <2>1 DEF IInv, TypeOK, QueuesExpected, Expected, InRound
<1>. QED  BY <1>1, <1>2, AcceptorKeeps, ProposerKeeps DEF Next

\* A queue holds what the proposer has sent and what another server has asked, and
\* a round goes on only for a request that is left and without a majority so far.
THEOREM InvariantHolds == Spec => []IInv
BY InitInv, StepInv, PTL DEF Spec

\* Every state of the group is of its type.
THEOREM TypeCorrect == Spec => []TypeOK
<1>1. IInv => TypeOK
  BY DEF IInv
<1>. QED  BY <1>1, InvariantHolds, PTL
-----------------------------------------------------------------------------
LEMMA RoundMisses ==
  ASSUME IInv, Next, acceptor_queue' # acceptor_queue, state' # state
  PROVE  Cardinality({a \in Running \cap server_connections :
                        acceptor_queue'[a] = acceptor_queue[a]})
           <= Cardinality(server_connections) - Cardinality(server_connections')
<1>1. state # "IDLE" /\ \E type \in {"PREPARE", "ACCEPT"} : SendToAcceptors(type)
  <2>1. CASE ProposerStep
    BY <2>1, GetTypes DEF ProposerStep, ReceiveCommand, SendPrepare, SendAccept, SendRound,
       Proposing, Accepting, TimeOut, IInv
  <2>2. ASSUME NEW s \in Other, AcceptorStep(s) \/ Fail(s) PROVE FALSE
    BY <2>2 DEF AcceptorStep, Respond, RespondElsewhere, Fail
  <2>. QED  BY <2>1, <2>2 DEF Next
<1>2. PICK err :
        /\ server_connections' = server_connections \ (err \cap Attempted(err))
        /\ \A a \in Attempted(err) \cap Running : acceptor_queue'[a] # acceptor_queue[a]
  BY <1>1, SendTypes
<1>. DEFINE Missed == {a \in Running \cap server_connections :
                         acceptor_queue'[a] = acceptor_queue[a]}
            Passed == server_connections \ Attempted(err)
            Removed == err \cap Attempted(err)
<1>3. TypeOK
  BY DEF IInv
<1>4. IsFiniteSet(Passed) /\ Missed \in SUBSET Passed
  BY <1>2, <1>3, ConnectionsFinite, FS_Subset
<1>5. Cardinality(Missed) <= Cardinality(Passed)
  BY <1>4, FS_Subset
<1>6. Cardinality(Passed) <= Cardinality(server_connections \cap Removed)
  <2>1. server_connections \cap Removed = err \cap Attempted(err) \cap server_connections
    OBVIOUS
  <2>. QED  BY <1>3, <2>1, PassedOver
<1>7. Cardinality(server_connections') =
        Cardinality(server_connections) - Cardinality(server_connections \cap Removed)
  BY <1>2, <1>3, ConnectionsFinite, FS_Difference
<1>8. /\ Cardinality(Missed) \in Nat /\ Cardinality(Passed) \in Nat
      /\ Cardinality(server_connections \cap Removed) \in Nat
      /\ Cardinality(server_connections) \in Nat
  BY <1>3, <1>4, ConnectionsFinite, FS_Subset, FS_CardinalityType
<1>. HIDE DEF Missed, Passed, Removed
<1>9. Cardinality(Missed) <=
        Cardinality(server_connections) - Cardinality(server_connections')
  BY <1>5, <1>6, <1>7, <1>8
<1>. QED  BY <1>9 DEF Missed

\* Passing over a running server is the price of a connection that is removed,
\* for every order of the failures and every number of rounds.
THEOREM OneMissPerRemovalHolds == Spec => OneMissPerRemoval
<1>1. IInv /\ [Next]_vars =>
        [acceptor_queue' # acceptor_queue /\ state' # state =>
           Cardinality({a \in Running \cap server_connections :
                          acceptor_queue'[a] = acceptor_queue[a]})
             <= Cardinality(server_connections) - Cardinality(server_connections')]_vars
  BY RoundMisses
<1>. QED  BY <1>1, InvariantHolds, PTL DEF Spec, OneMissPerRemoval
=============================================================================
