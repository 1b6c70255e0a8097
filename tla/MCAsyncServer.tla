---------------------------- MODULE MCAsyncServer ----------------------------
(***************************************************************************)
(* Small instances of AsyncServer.  In the first, a client asks for a page *)
(* and may close or reset its connection, another one's path is empty, so  *)
(* that there is no file, and more follows its newline, and a third sends  *)
(* nothing.  In the other one, all ask for a page and may reset.           *)
(***************************************************************************)
EXTENDS AsyncServer

CONSTANT NumClients

NL == "newline"

Streams == << <<"page1", NL>>, <<NL, "more">>, <<>> >>

MCClient == 1 .. NumClients
MCStream == [c \in MCClient |-> Streams[c]]
MCFaults == [c \in MCClient |-> IF c = 1 THEN {"close", "reset"} ELSE {}]
MCMissingFile == {<<>>}
MCFd == 10 .. 7 + MaxConnections

\* Every client asks for a page, and any of them may reset its connection.
AskingStream == [c \in MCClient |-> <<"page1", NL>>]
AllReset == [c \in MCClient |-> {"reset"}]

MinusOne == -1
=============================================================================
