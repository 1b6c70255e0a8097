--------------------------- MODULE LockInvariants ---------------------------
(***************************************************************************)
(* Why the replicas of the lock set agree: the invariants behind           *)
(* DeathIsReplicated, ImplementsLockLog and, when the clients behave,      *)
(* NoProposerDies and MutualExclusion.                                     *)
(*                                                                         *)
(* What a server has resolved is a prefix of one log, and its lock set is  *)
(* what this prefix leaves locked.  Every request of the log was asked by  *)
(* a server that served it at that very instance, so it is in the log      *)
(* once; a proposer brings in a LOCK only when the prefix before it leaves *)
(* the resource free.                                                      *)
(***************************************************************************)
EXTENDS PaxosInvariants

----------------------------------------------------------------------------
(* Where the requests of the log come from *)

IsPending(s, r, i) ==
  instance[s] = i /\ state[s] \notin {"IDLE", "DEAD"} /\ OwnRequest(s) = r
IsAcked(s, r, i) ==
  \E k \in DOMAIN client_acks[s] :
    client_acks[s][k].instance = i /\ Script[s][k] = r

OnlyAsked ==
  \A i \in Instance : \A r \in Request :
    Circulates(r, i) => \E s \in Server : IsPending(s, r, i) \/ IsAcked(s, r, i)

\* A busy proposer goes for its own request, or for one an acceptor has accepted.
LearntIsOwnOrAccepted ==
  \A s \in Server : state[s] \notin {"IDLE", "DEAD"} =>
    \/ learnt[s] = OwnRequest(s)
    \/ instance[s] \in Instance /\ IsAccepted(learnt[s], instance[s])

NacksAreHandled ==
  \A s \in Server :
    /\ pre_nacks[s] \subseteq proposer_msg_history[s]
    /\ state[s] = "PROPOSING" => \A m \in pre_nacks[s] : m.instance = instance[s]

----------------------------------------------------------------------------
(* The log of one server *)

ResolvedInOrder ==
  \A s \in Server :
    /\ \A i \in Instance : Resolved(s, i) <=>
         i < instance[s] \/ (i = instance[s] /\ state[s] = "DEAD")
    /\ state[s] = "DEAD" => instance[s] \in Instance

\* The requests of a server are answered in order, each where the log holds it.
AcksInOrder ==
  \A s \in Server :
    /\ Answered(s) <= Len(Script[s])
    /\ \A k \in DOMAIN client_acks[s] :
         /\ Resolved(s, client_acks[s][k].instance)
         /\ instance_resolutions[s][client_acks[s][k].instance] = Script[s][k]
         /\ \A j \in DOMAIN client_acks[s] :
              j < k => client_acks[s][j].instance < client_acks[s][k].instance

\* The resolutions of instance k before i that are about a resource, and those
\* that lock it; the resources locked after all the resolutions before i.
Concerns(s, k, resource) ==
  Resolved(s, k) /\ instance_resolutions[s][k].command.resource_id = resource
Locks(s, k, resource) ==
  Concerns(s, k, resource)
    /\ instance_resolutions[s][k].command.command_type = "LOCK"
LastBefore(s, k, i, resource) ==
  k < i /\ \A j \in Instance : k < j /\ j < i => ~Concerns(s, j, resource)
HeldBefore(s, i) ==
  {resource \in Resource :
     \E k \in Instance : Locks(s, k, resource) /\ LastBefore(s, k, i, resource)}

HeldIsExecuted == \A s \in Server : lock_set[s] = HeldBefore(s, instance[s])

\* A command that execute_command accepts after all the resolutions before i.
LegalAt(s, i, command) ==
  command.command_type = "LOCK" <=> command.resource_id \notin HeldBefore(s, i)

\* Only the command that ended its proposer was illegal.
ExecutedLegally ==
  \A s \in Server : \A i \in Instance :
    Resolved(s, i) =>
      (LegalAt(s, i, instance_resolutions[s][i].command) <=> i < instance[s])

LogInv ==
  /\ AckInv
  /\ OnlyAsked /\ LearntIsOwnOrAccepted /\ NacksAreHandled
  /\ ResolvedInOrder /\ AcksInOrder /\ HeldIsExecuted /\ ExecutedLegally

----------------------------------------------------------------------------
(* Clients that behave *)

\* A client talks to one server, and releases a resource only after it has asked
\* for it, once for each time it has: what every interleaving of command files
\* does that each lock a resource before they unlock it.
ClientsBehave ==
  /\ \A s, t \in Server : \A k \in DOMAIN Script[s], l \in DOMAIN Script[t] :
       Script[s][k].client_id = Script[t][l].client_id => s = t
  /\ \A s \in Server : \A k \in DOMAIN Script[s] :
       Script[s][k].command.command_type = "UNLOCK" =>
         \E j \in DOMAIN Script[s] :
           /\ j < k
           /\ Script[s][j].command.command_type = "LOCK"
           /\ Script[s][j].command.resource_id = Script[s][k].command.resource_id
           /\ Script[s][j].client_id = Script[s][k].client_id
           /\ \A l \in DOMAIN Script[s] :
                j < l /\ l < k => Script[s][l] # Script[s][k]

\* What a value has to be like at its instance: a LOCK of a free resource, or an
\* UNLOCK of the client that locked the resource last.
FreeToLock(s, i, r) == r.command.resource_id \notin HeldBefore(s, i)
OwnToRelease(s, i, r) ==
  \E k \in Instance :
    /\ Locks(s, k, r.command.resource_id)
    /\ LastBefore(s, k, i, r.command.resource_id)
    /\ instance_resolutions[s][k].client_id = r.client_id

LegalValue(s, i, r) ==
  IF r.command.command_type = "LOCK" THEN FreeToLock(s, i, r)
                                     ELSE OwnToRelease(s, i, r)

ValuesAreLegal ==
  \A s \in Server : \A i \in Instance : \A r \in Request :
    i <= instance[s] /\ Circulates(r, i) => LegalValue(s, i, r)

LegalInv == LogInv /\ ValuesAreLegal /\ NoProposerDies
=============================================================================
