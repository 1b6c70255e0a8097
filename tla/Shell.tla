------------------------------- MODULE Shell --------------------------------
(***************************************************************************)
(* The shell of problemset1/parta (main.cc, parser.cc): a line of commands *)
(* joined by pipes, a child process for each, and the wait until all have  *)
(* ended.  The commands are programs of a few kinds, pipes and processes   *)
(* are those of the operating system: a read waits for a byte or for the   *)
(* last write end to be closed, a write waits for room and kills its       *)
(* process when no read end is open.                                       *)
(***************************************************************************)
EXTENDS Integers, Sequences, FiniteSets

CONSTANTS
  Lines,      \* the lines that are typed, as sequences of Program
  MaxCommands,  \* the length of the longest
  Units,      \* how much a "source" writes
  Capacity    \* how much a pipe holds

\* filter passes its input on until the end of file, head only the first of it,
\* endless writes for ever; missing is not the name of a program, and "" is a
\* command of blanks.
Program == {"source", "endless", "filter", "head", "missing", ""}

ASSUME ShellAssumption ==
  /\ MaxCommands \in Nat /\ Lines \subseteq Seq(Program)
  /\ \A typed \in Lines : Len(typed) <= MaxCommands
  /\ Units \in Nat \ {0} /\ Capacity \in Nat \ {0}

VARIABLES
  phase,      \* what the shell does
  commands,   \* the commands of the line
  forked,     \* how many times the shell has called fork for it
  waited,     \* how many times it has called waitpid
  child,      \* the state of the child of each command
  left,       \* what the child has to write before it reads on
  pipe,       \* how much is in each pipe
  output      \* what has come to the terminal

vars == <<phase, commands, forked, waited, child, left, pipe, output>>
line == <<phase, commands, forked, waited>>

Commands == DOMAIN commands
Last == Len(commands)
Pipes == 1 .. Last - 1

\* Mutants: once more, or once less.
WaitsMore == Last + 1
WaitsFewer == Last - 1

\* How often the parent waits: as often as it forked.
Waits == Last

TypeOK ==
  /\ phase \in {"reading", "forking", "waiting", "stopped", "crashed"}
  /\ commands \in Seq(Program)
  /\ forked \in 0 .. Last /\ waited \in 0 .. Last
  /\ child \in [Commands -> {"none", "forked", "running", "ended", "reaped"}]
  /\ left \in [Commands -> 0 .. Units]
  /\ pipe \in [Pipes -> 0 .. Capacity]
  /\ output \in Nat

Init ==
  /\ phase = "reading"
  /\ commands = <<>> /\ forked = 0 /\ waited = 0
  /\ child = <<>> /\ left = <<>> /\ pipe = <<>> /\ output = 0
-----------------------------------------------------------------------------
(* Which ends are open.  A pipe is named for the command that writes to it. *)

\* Mutants: the child closes no end, or also the one it writes to.
EveryEnd(i) == Pipes
NoEnd(i) == {}

\* The ends a child holds when it has closed those it has no use for.
WriteEnds(i) == {i} \cap Pipes
ReadEnds(i) == {i - 1} \cap Pipes

\* All pipes exist before the first fork: the parent holds every end until it
\* has forked the last child, and a child until it is set up.
HeldByAll == phase = "forking" \/ \E i \in Commands : child[i] = "forked"
Running(i) == child[i] = "running"
WriteOpen(p) == HeldByAll \/ \E i \in Commands : Running(i) /\ p \in WriteEnds(i)
ReadOpen(p) == HeldByAll \/ \E i \in Commands : Running(i) /\ p \in ReadEnds(i)
-----------------------------------------------------------------------------
(* The shell *)

\* readline, parse_commands, and the pipes of fork_and_pipe_commands; without
\* one of them the shell exits.
Submit ==
  /\ phase = "reading"
  /\ \E typed \in Lines :
       /\ commands' = typed
       /\ phase' \in {"forking"} \cup (IF Len(typed) > 1 THEN {"stopped"} ELSE {})
       /\ child' = [i \in DOMAIN typed |-> "none"]
       /\ left' = [i \in DOMAIN typed |-> 0]
       /\ pipe' = [p \in 1 .. Len(typed) - 1 |-> 0]
  /\ forked' = 0 /\ waited' = 0 /\ output' = 0

\* The line "exit"; or the end of file, for which readline returns NULL: the
\* string made of it is a crash, one statement before the test for NULL.
Leave ==
  /\ phase = "reading"
  /\ phase' \in {"stopped", "crashed"}
  /\ UNCHANGED <<commands, forked, waited, child, left, pipe, output>>

\* A fork that fails leaves its command out.
Fork ==
  /\ phase = "forking" /\ forked < Last
  /\ forked' = forked + 1
  /\ \/ child' = [child EXCEPT ![forked + 1] = "forked"]
     \/ UNCHANGED child
  /\ UNCHANGED <<phase, commands, waited, left, pipe, output>>

ClosePipes ==
  /\ phase = "forking" /\ forked = Last
  /\ phase' = "waiting"
  /\ UNCHANGED <<commands, forked, waited, child, left, pipe, output>>

\* waitpid(-1): a child that has ended, or at once when there is none at all.
Wait ==
  /\ phase = "waiting" /\ waited < Waits
  /\ waited' = waited + 1
  /\ \/ \E i \in Commands : child[i] = "ended" /\ child' = [child EXCEPT ![i] = "reaped"]
     \/ (\A i \in Commands : child[i] \in {"none", "reaped"}) /\ UNCHANGED child
  /\ UNCHANGED <<phase, commands, forked, left, pipe, output>>

Prompt ==
  /\ phase = "waiting" /\ waited = Waits
  /\ phase' = "reading"
  /\ UNCHANGED <<commands, forked, waited, child, left, pipe, output>>

ShellStep == Fork \/ ClosePipes \/ Wait \/ Prompt
-----------------------------------------------------------------------------
(* The children *)

Amount(program) ==
  CASE program = "source" -> Units [] program \in {"endless", "missing"} -> 1
    [] OTHER -> 0

\* The rest of the loop in the child, and child_process: an assertion ends the
\* child of an empty command; one whose program is missing writes a message to
\* its standard output, which may be a pipe.
SetUp(i) ==
  /\ child[i] = "forked"
  /\ child' = [child EXCEPT ![i] = IF commands[i] = "" THEN "ended" ELSE "running"]
  /\ left' = [left EXCEPT ![i] = Amount(commands[i])]
  /\ UNCHANGED <<line, pipe, output>>

Ended(i) == child' = [child EXCEPT ![i] = "ended"]

Write(i) ==
  /\ Running(i) /\ left[i] > 0
  /\ \/ /\ i = Last
        /\ output' = output + 1 /\ UNCHANGED pipe
     \/ /\ i # Last /\ ReadOpen(i) /\ pipe[i] < Capacity
        /\ pipe' = [pipe EXCEPT ![i] = @ + 1] /\ UNCHANGED output
  /\ left' = [left EXCEPT ![i] = IF commands[i] = "endless" THEN @ ELSE @ - 1]
  /\ IF commands[i] = "head" THEN Ended(i) ELSE UNCHANGED child
  /\ UNCHANGED line

\* SIGPIPE.
Killed(i) ==
  /\ Running(i) /\ left[i] > 0 /\ i # Last /\ ~ReadOpen(i)
  /\ Ended(i)
  /\ UNCHANGED <<line, left, pipe, output>>

Reads(i) == commands[i] \in {"filter", "head"}

Read(i) ==
  /\ Running(i) /\ Reads(i) /\ left[i] = 0 /\ i > 1
  /\ pipe[i - 1] > 0
  /\ pipe' = [pipe EXCEPT ![i - 1] = @ - 1]
  /\ left' = [left EXCEPT ![i] = 1]
  /\ UNCHANGED <<line, child, output>>

\* There is nothing to write any more, and no input to come.  The first
\* command has no standard input.
Finish(i) ==
  /\ Running(i) /\ left[i] = 0
  /\ (Reads(i) /\ i > 1) => (pipe[i - 1] = 0 /\ ~WriteOpen(i - 1))
  /\ Ended(i)
  /\ UNCHANGED <<line, left, pipe, output>>

ChildStep(i) == SetUp(i) \/ Write(i) \/ Killed(i) \/ Read(i) \/ Finish(i)

Next == Submit \/ Leave \/ ShellStep \/ \E i \in Commands : ChildStep(i)

\* Every process that can go on does; nobody has to type a line.
Spec ==
  /\ Init /\ [][Next]_vars
  /\ WF_vars(ShellStep)
  /\ \A i \in 1 .. MaxCommands : WF_vars(i \in Commands /\ ChildStep(i))
-----------------------------------------------------------------------------
\* A line whose programs come to an end comes to an end: every reader sees the
\* end of file and every writer a closed pipe, whatever the order in which the
\* children start, and although some fork failed (parser.cc:157-209).
PromptReturns == phase = "forking" ~> phase = "reading"

\* At the prompt nothing of the last line is left: no child runs, and none
\* waits to be collected (parser.cc:211-228).
PromptIsQuiet ==
  phase = "reading" => \A i \in Commands : child[i] \in {"none", "reaped"}

\* Nothing is lost or doubled on its way through the filters of a line whose
\* forks succeeded, and all of it is out before the prompt (parser.cc:157-209).
OutputIntact ==
  (/\ phase = "reading" /\ Last > 0
   /\ \A i \in Commands : child[i] = "reaped" /\ (i > 1 => commands[i] = "filter"))
  => output = Amount(commands[1])
=============================================================================
