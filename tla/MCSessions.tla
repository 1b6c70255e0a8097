----------------------------- MODULE MCSessions -----------------------------
(***************************************************************************)
(* A client with two commands, one with one, and one that waits for a lock *)
(* for ever.                                                               *)
(***************************************************************************)
EXTENDS Sessions

CONSTANTS c1, c2, c3

MCClient == {c1, c2, c3}
MCCommands == [c \in MCClient |-> IF c = c1 THEN 2 ELSE 1]
=============================================================================
