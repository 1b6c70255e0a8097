--------------------------- MODULE Sessions_proofs ---------------------------
(***************************************************************************)
(* The sessions of the lock clients, for every number of clients and of    *)
(* commands, and any queue length: a command is decided once, and a client *)
(* that is gone has at most one that it was never told of.                 *)
(***************************************************************************)
EXTENDS Sessions, SequenceTheorems, TLAPS

Proposing(c) == server_state = "proposing" /\ session = c

\* A command on its way to the proposer, or under way in it, is the next one of
\* its client, which waits for the answer or has given up.
UnderWay ==
  \A c \in Client : c \in to_server \/ Proposing(c) =>
    /\ client_state[c] \in {"waiting", "aborted"}
    /\ decided[c] = acked[c]
    /\ c \notin to_client

\* It is in one place only.
TakenOnce == \A c \in Client : ~(c \in to_server /\ Proposing(c))

\* An answer on its way is the one its client waits for.
AnswerAwaited ==
  \A c \in Client : c \in to_client =>
    client_state[c] = "waiting" /\ decided[c] = acked[c] + 1

\* A client knows of all that is decided for it, but for the answer on its way
\* and for what is decided after it has given up.
Told ==
  \A c \in Client :
    /\ client_state[c] # "aborted" /\ c \notin to_client => decided[c] = acked[c]
    /\ client_state[c] = "aborted" => decided[c] - acked[c] \in 0 .. 1

IInv == TypeOK /\ UnderWay /\ TakenOnce /\ AnswerAwaited /\ Told

LEMMA ClientKeeps ==
  ASSUME IInv, NEW c \in Client, ClientStep(c)
  PROVE  IInv'
<1>. USE DEF IInv
<1>1. /\ client_state \in [Client -> ClientState]
      /\ acked \in [Client -> Nat] /\ decided \in [Client -> Nat]
      /\ backlog \in Seq(Client) /\ to_server \subseteq Client
      /\ to_client \subseteq Client /\ closed \subseteq Client
  BY DEF TypeOK
<1>2. UNCHANGED <<server_state, session, proposer_queue, decided, slow, closed>>
  BY DEF ClientStep, Connect, SendCommand, Finish, ReceiveAck, GiveUp, wires
<1>3. CASE Connect(c) \/ Finish(c) \/ GiveUp(c)
  <2>1. PICK new \in {"ready", "done", "aborted"} :
          /\ client_state' = [client_state EXCEPT ![c] = new]
          /\ UNCHANGED <<acked, to_server, to_client>>
          /\ client_state[c] # "aborted"
          /\ new # "aborted" => client_state[c] \in {"new", "ready"}
          /\ c \notin to_client
    BY <1>3 DEF Connect, Finish, GiveUp, Becomes, wires, AnswerAwaited
  <2>2. backlog' \in Seq(Client)
    <3>1. Append(backlog, c) \in Seq(Client)
      BY <1>1, AppendProperties
    <3>. QED  BY <1>1, <1>3, <3>1 DEF Connect, Finish, GiveUp
  <2>3. TypeOK'
    BY <1>1, <1>2, <2>1, <2>2 DEF TypeOK, ClientState
  <2>4. UnderWay' /\ TakenOnce'
    BY <1>1, <1>2, <2>1 DEF UnderWay, TakenOnce, Proposing
  <2>5. AnswerAwaited' /\ Told'
    BY <1>1, <1>2, <2>1 DEF AnswerAwaited, Told
  <2>. QED  BY <2>3, <2>4, <2>5
<1>4. CASE SendCommand(c)
  <2>1. /\ client_state[c] = "ready"
        /\ client_state' = [client_state EXCEPT ![c] = "waiting"]
        /\ to_server' \in SUBSET Client
        /\ \A d \in to_server' : d = c \/ d \in to_server
        /\ UNCHANGED <<acked, to_client, backlog>>
    BY <1>1, <1>4 DEF SendCommand, Becomes
  <2>2. TypeOK'
    BY <1>1, <1>2, <2>1 DEF TypeOK, ClientState
  <2>3. c \notin to_client /\ ~Proposing(c) /\ decided[c] = acked[c]
    BY <2>1 DEF AnswerAwaited, UnderWay, Told
  <2>4. UnderWay' /\ TakenOnce'
    BY <1>1, <1>2, <2>1, <2>3 DEF UnderWay, TakenOnce, Proposing
  <2>5. AnswerAwaited' /\ Told'
    BY <1>1, <1>2, <2>1, <2>3 DEF AnswerAwaited, Told
  <2>. QED  BY <2>2, <2>4, <2>5
<1>5. CASE ReceiveAck(c)
  <2>1. /\ client_state[c] = "waiting" /\ c \in to_client
        /\ client_state' = [client_state EXCEPT ![c] = "ready"]
        /\ acked' = [acked EXCEPT ![c] = @ + 1]
        /\ to_client' = to_client \ {c}
        /\ UNCHANGED <<to_server, backlog>>
    BY <1>5 DEF ReceiveAck, Becomes
  <2>2. TypeOK'
    BY <1>1, <1>2, <2>1 DEF TypeOK, ClientState
  <2>3. c \notin to_server /\ ~Proposing(c) /\ decided[c] = acked[c] + 1
    BY <2>1 DEF AnswerAwaited, UnderWay
  <2>4. UnderWay' /\ TakenOnce'
    BY <1>1, <1>2, <2>1, <2>3 DEF UnderWay, TakenOnce, Proposing
  <2>5. AnswerAwaited' /\ Told'
    BY <1>1, <1>2, <2>1, <2>3 DEF AnswerAwaited, Told
  <2>. QED  BY <2>2, <2>4, <2>5
<1>. QED  BY <1>3, <1>4, <1>5 DEF ClientStep

\* Steps of the proposer that have nothing to do with a command.
LEMMA QuietStepKeeps ==
  ASSUME IInv,
         \/ Accept \/ AcceptTimesOut \/ Poll \/ PollTimesOut
         \/ RecvEof \/ RecvTimesOut \/ TakeMessage
         \/ \E m \in {"EXIT", "ANSWER"} : Put(m)
  PROVE  IInv'
<1>. USE DEF IInv
<1>. USE DEF AcceptTimesOut, PollTimesOut
<1>. DEFINE Messages == {"EXIT", "ANSWER"}
<1>1. /\ backlog \in Seq(Client) /\ proposer_queue \in Seq(Messages)
      /\ to_server \subseteq Client /\ closed \subseteq Client
      /\ session \in Client \cup {None}
      /\ (session = None) = (server_state \in Alone)
  BY DEF TypeOK
<1>2. /\ UNCHANGED <<clientVars, to_server, to_client, decided, slow>>
      /\ \A c \in Client : Proposing(c)' = Proposing(c)
  BY DEF Accept, Poll, RecvEof, RecvTimesOut, TakeMessage, Put, wires, Proposing
<1>3. UnderWay' /\ TakenOnce'
  BY <1>2 DEF UnderWay, TakenOnce, clientVars
<1>4. AnswerAwaited' /\ Told'
  BY <1>2 DEF AnswerAwaited, Told, clientVars
<1>5. backlog' \in Seq(Client) /\ closed' \subseteq Client
  <2>1. backlog # <<>> => Tail(backlog) \in Seq(Client)
    BY <1>1, HeadTailProperties
  <2>2. session # None => session \in Client
    BY <1>1
  <2>. QED  BY <1>1, <2>1, <2>2
            DEF Accept, Poll, RecvEof, RecvTimesOut, TakeMessage, Put, wires, Alone
<1>6. proposer_queue' \in Seq(Messages)
  <2>1. proposer_queue # <<>> =>
          /\ Head(proposer_queue) \in Messages
          /\ Tail(proposer_queue) \in Seq(Messages)
    BY <1>1, HeadTailProperties
  <2>2. \A q \in Seq(Messages), m \in Messages : Append(q, m) \in Seq(Messages)
    BY AppendProperties
  <2>. QED  BY <1>1, <2>1, <2>2 DEF Accept, Poll, RecvEof, RecvTimesOut, TakeMessage, Put
<1>7. /\ server_state' \in ServerState
      /\ session' \in Client \cup {None}
      /\ (session' = None) = (server_state' \in Alone)
  <2>1. CASE Accept
    <3>1. Head(backlog) \in Client
      BY <1>1, <2>1, HeadTailProperties DEF Accept
    <3>. QED  BY <2>1, <3>1, SessionAssumption DEF Accept, ServerState, Alone
  <2>2. CASE ~Accept
    BY <1>1, <2>2 DEF TypeOK, Poll, RecvEof, RecvTimesOut, TakeMessage, Put,
                      ServerState, Alone
  <2>. QED  BY <2>1, <2>2
<1>8. TypeOK'
  BY <1>2, <1>5, <1>6, <1>7 DEF TypeOK, clientVars
<1>. QED  BY <1>3, <1>4, <1>8

LEMMA CommandStepKeeps ==
  ASSUME IInv, RecvCommand \/ Resolve
  PROVE  IInv'
<1>. USE DEF IInv
<1>1. PICK c \in Client : c = session
  BY DEF TypeOK, RecvCommand, Resolve, Alone
<1>2. CASE RecvCommand
  <2>1. /\ c \in to_server /\ to_server' = to_server \ {c}
        /\ server_state' = "proposing" /\ server_state = "receiving"
        /\ UNCHANGED <<clientVars, to_client, closed, backlog, session,
                       proposer_queue, decided, slow>>
    BY <1>1, <1>2 DEF RecvCommand
  <2>2. TypeOK'
    BY <1>1, <2>1 DEF TypeOK, clientVars, ServerState, Alone
  <2>3. UnderWay' /\ TakenOnce'
    BY <1>1, <2>1 DEF UnderWay, TakenOnce, Proposing, clientVars
  <2>4. AnswerAwaited' /\ Told'
    BY <2>1 DEF AnswerAwaited, Told, clientVars
  <2>. QED  BY <2>2, <2>3, <2>4
<1>3. CASE Resolve
  <2>1. /\ server_state = "proposing" /\ server_state' = "receiving"
        /\ decided' = [decided EXCEPT ![c] = @ + 1]
        /\ to_client' = IF Left(c) THEN to_client ELSE to_client \cup {c}
        /\ UNCHANGED <<clientVars, to_server, closed, backlog, session,
                       proposer_queue, slow>>
    BY <1>1, <1>3 DEF Resolve
  <2>2. /\ client_state[c] \in {"waiting", "aborted"} /\ decided[c] = acked[c]
        /\ c \notin to_client /\ c \notin to_server
    BY <1>1, <2>1 DEF UnderWay, TakenOnce, Proposing
  <2>3. /\ acked \in [Client -> Nat] /\ decided \in [Client -> Nat]
        /\ to_client \subseteq Client
        /\ decided' \in [Client -> Nat] /\ decided'[c] = decided[c] + 1
        /\ \A d \in Client : d # c => decided'[d] = decided[d]
    BY <2>1 DEF TypeOK
  <2>4. c \in to_client' <=> client_state[c] = "waiting"
    BY <2>1, <2>2 DEF Left
  <2>5. \A d \in Client : d # c => (d \in to_client' <=> d \in to_client)
    BY <2>1
  <2>6. TypeOK'
    BY <1>1, <2>1, <2>3 DEF TypeOK, clientVars, ServerState, Alone
  <2>7. UnderWay' /\ TakenOnce'
    BY <1>1, <2>1, <2>2, <2>3, <2>5 DEF UnderWay, TakenOnce, Proposing, clientVars
  <2>8. AnswerAwaited'
    <3>. SUFFICES ASSUME NEW d \in Client, d \in to_client'
                  PROVE  client_state'[d] = "waiting" /\ decided'[d] = acked'[d] + 1
      BY DEF AnswerAwaited
    <3>. QED  BY <2>1, <2>2, <2>3, <2>4, <2>5 DEF AnswerAwaited, clientVars
  <2>9. Told'
    BY <2>1, <2>2, <2>3, <2>4, <2>5 DEF Told, clientVars
  <2>. QED  BY <2>6, <2>7, <2>8, <2>9
<1>. QED  BY <1>2, <1>3

----------------------------------------------------------------------------
(* The theorems *)

\* The inductive invariant holds in every state of the sessions.
THEOREM InvariantHolds == Spec => []IInv
<1>1. Init => IInv
  <2>1. SUFFICES ASSUME Init
                 PROVE  IInv
    OBVIOUS
  <2>2. TypeOK
    BY <2>1, EmptySeq DEF Init, TypeOK, ClientState, ServerState, Alone
  <2>. QED  BY <2>1, <2>2
            DEF IInv, Init, UnderWay, TakenOnce, AnswerAwaited, Told, Proposing
<1>2. IInv /\ [Next]_vars => IInv'
  <2>1. SUFFICES ASSUME IInv, [Next]_vars
                 PROVE  IInv'
    OBVIOUS
  <2>2. CASE \E c \in Client : ClientStep(c)
    BY <2>1, <2>2, ClientKeeps
  <2>3. CASE \/ Accept \/ AcceptTimesOut \/ Poll \/ PollTimesOut
             \/ RecvEof \/ RecvTimesOut \/ TakeMessage
             \/ \E m \in {"EXIT", "ANSWER"} : Put(m)
    BY <2>1, <2>3, QuietStepKeeps
  <2>4. CASE RecvCommand \/ Resolve
    BY <2>1, <2>4, CommandStepKeeps
  <2>5. CASE UNCHANGED vars
    BY <2>1, <2>5 DEF vars, clientVars, wires, IInv, TypeOK, UnderWay, TakenOnce,
                      AnswerAwaited, Told, Proposing
  <2>. QED  BY <2>1, <2>2, <2>3, <2>4, <2>5 DEF Next, ServerStep
<1>. QED  BY <1>1, <1>2, PTL DEF Spec

\* The variables keep their types, and the proposer has a client exactly while it
\* receives or proposes.
THEOREM TypeCorrect == Spec => []TypeOK
<1>1. IInv => TypeOK
  BY DEF IInv
<1>. QED  BY <1>1, InvariantHolds, PTL

\* However a client and its connection end, at most one of its commands is
\* decided that it was never told of, and none twice.
THEOREM OneUntoldHolds == Spec => []OneUntold
<1>1. IInv => OneUntold
  <2>. SUFFICES ASSUME IInv, NEW c \in Client
                PROVE  decided[c] - acked[c] \in 0 .. 1
    BY DEF OneUntold
  <2>1. acked[c] \in Nat /\ decided[c] \in Nat
    BY DEF IInv, TypeOK
  <2>2. CASE client_state[c] = "aborted"
    BY <2>2 DEF IInv, Told
  <2>3. CASE c \in to_client
    <3>1. decided[c] = acked[c] + 1
      BY <2>3 DEF IInv, AnswerAwaited
    <3>. QED  BY <2>1, <3>1
  <2>4. CASE client_state[c] # "aborted" /\ c \notin to_client
    <3>1. decided[c] = acked[c]
      BY <2>4 DEF IInv, Told
    <3>. QED  BY <2>1, <3>1
  <2>. QED  BY <2>2, <2>3, <2>4
<1>. QED  BY <1>1, InvariantHolds, PTL
=============================================================================
