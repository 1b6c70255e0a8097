---------------------------- MODULE MCPaxosGroup ----------------------------
(***************************************************************************)
(* Small instances of the Paxos group: who asks what at which server.      *)
(***************************************************************************)
EXTENDS LockInvariants, LogChecker

CONSTANTS r1, r2, c0, c1, c2

Lock(c, r) ==
  [command |-> [command_type |-> "LOCK", resource_id |-> r], client_id |-> c]
Unlock(c, r) ==
  [command |-> [command_type |-> "UNLOCK", resource_id |-> r], client_id |-> c]

Requests(at0, at1, at2) ==
  [s \in Server |-> CASE s = 0 -> at0 [] s = 1 -> at1 [] s = 2 -> at2
                      [] OTHER -> <<>>]

\* Three clients want three locks, or three times one of two.
CompeteScript == Requests(<<Lock(c0, r1)>>, <<Lock(c1, r1)>>, <<Lock(c2, r2)>>)

\* A client takes the lock and releases it, another waits for it.
HandoverScript ==
  Requests(<<Lock(c0, r1), Unlock(c0, r1)>>, <<Lock(c1, r1)>>, <<>>)

\* The hypothesis of the theorems about locks holds of it.
ASSUME HandoverBehaves == Script = HandoverScript => ClientsBehave

\* A client releases what nobody holds, another locks something else.
MisuseScript == Requests(<<Unlock(c0, r1)>>, <<Lock(c1, r2)>>, <<>>)
=============================================================================
