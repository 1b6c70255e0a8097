------------------------------ MODULE LockLog ------------------------------
(***************************************************************************)
(* What the Paxos group promises the clients of its lock service: one log  *)
(* of requests, the same for every server, in which every LOCK is of a     *)
(* free resource and every UNLOCK of a held one.  Each server executes the *)
(* log in order, and answers a request when it executes it, once.          *)
(***************************************************************************)
EXTENDS Integers, Sequences

CONSTANTS Server, Resource, Request, None, MaxInstance, Script

Position == 0 .. MaxInstance - 1

VARIABLES
  log,        \* [Position -> Request or None]: what is decided
  next,       \* [Server -> the position it executes next]
  answered,   \* [Server -> how many of its requests it has answered]
  held        \* [Server -> the resources locked after what it has executed]

vars == <<log, next, answered, held>>

Init ==
  /\ log = [i \in Position |-> None]
  /\ next = [s \in Server |-> 0]
  /\ answered = [s \in Server |-> 0]
  /\ held = [s \in Server |-> {}]

\* The request server s is serving, as a set of at most one.
Pending(s) ==
  IF answered[s] < Len(Script[s]) THEN {Script[s][answered[s] + 1]} ELSE {}

Legal(command, locked) ==
  IF command.command_type = "LOCK" THEN command.resource_id \notin locked
                                   ELSE command.resource_id \in locked

After(command, locked) ==
  IF command.command_type = "LOCK" THEN locked \cup {command.resource_id}
                                   ELSE locked \ {command.resource_id}

\* Server s executes the request at its position.
Execute(s, request) ==
  /\ Legal(request.command, held[s])
  /\ held' = [held EXCEPT ![s] = After(request.command, @)]
  /\ next' = [next EXCEPT ![s] = @ + 1]
  /\ answered' =
       [answered EXCEPT ![s] = IF request \in Pending(s) THEN @ + 1 ELSE @]

\* The first server to execute a position decides it: for the pending request
\* of some server that has reached the same position.
Decide(s) ==
  /\ next[s] \in Position /\ log[next[s]] = None
  /\ \E t \in Server : \E request \in Pending(t) :
       /\ next[t] = next[s]
       /\ log' = [log EXCEPT ![next[s]] = request]
       /\ Execute(s, request)

\* The others execute what is decided.
Follow(s) ==
  /\ next[s] \in Position /\ log[next[s]] # None
  /\ Execute(s, log[next[s]])
  /\ UNCHANGED log

Next == \E s \in Server : Decide(s) \/ Follow(s)

Spec == Init /\ [][Next]_vars
=============================================================================
