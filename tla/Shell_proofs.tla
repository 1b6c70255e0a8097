---------------------------- MODULE Shell_proofs ----------------------------
(***************************************************************************)
(* The shell, for every set of lines, every amount a program writes and    *)
(* every capacity of a pipe: the prompt comes when nothing of the line is  *)
(* left, and filters lose nothing.                                         *)
(***************************************************************************)
EXTENDS Shell, FiniteSetTheorems, TLAPS

Gone(i) == child[i] \in {"none", "reaped"}
Reaped == {i \in Commands : child[i] = "reaped"}

\* Children come in the order of the commands, and are collected only when the
\* last has been forked.
InOrder ==
  /\ \A i \in Commands : i > forked => child[i] = "none"
  /\ phase = "forking" => waited = 0 /\ Reaped = {}
  /\ phase = "waiting" => forked = Last

\* Every wait has collected a child, or there was none any more.
WaitsCollect ==
  phase = "waiting" => waited = Cardinality(Reaped) \/ \A i \in Commands : Gone(i)

Quiet == phase \notin {"forking", "waiting"} => \A i \in Commands : Gone(i)

ControlInv == TypeOK /\ InOrder /\ WaitsCollect /\ Quiet
-----------------------------------------------------------------------------
\* A line whose forks have succeeded so far and that filters what its first
\* command writes.
Intact ==
  /\ Last > 0
  /\ \A i \in 1 .. forked : child[i] # "none"
  /\ \A i \in Commands : i > 1 => commands[i] = "filter"

Over(i) == child[i] \in {"ended", "reaped"}
NotYet(i) == child[i] \in {"none", "forked"}

\* A child that is not set up has written nothing.
NothingEarly == \A i \in Commands : NotYet(i) => left[i] = 0

\* A filter ends after the command before it, when it has passed on all that
\* came from it.
EndsInOrder ==
  \A i \in Commands \ {1} :
    Over(i) => Over(i - 1) /\ left[i] = 0 /\ pipe[i - 1] = 0 /\ phase # "forking"

\* The first command ends when it has written everything.
FirstWrites ==
  /\ Over(1) => left[1] = 0 /\ commands[1] # "endless"
  /\ commands[1] = "endless" /\ Running(1) => left[1] = 1

\* through[i] is what command i has written: what has come so far from the
\* first one is in the pipes, in the hands of the filters, or on the terminal.
Flows(through) ==
  /\ through[1] = IF NotYet(1) THEN 0 ELSE Amount(commands[1]) - left[1]
  /\ \A i \in Pipes : through[i] = pipe[i] + left[i + 1] + through[i + 1]
  /\ through[Last] = output

Conserved ==
  commands[1] # "endless" => \E through \in [Commands -> 0 .. Units] : Flows(through)

FlowInv == Intact => NothingEarly /\ EndsInOrder /\ FirstWrites /\ Conserved

IInv == ControlInv /\ FlowInv
-----------------------------------------------------------------------------
(* Control *)

LEMMA Types ==
  ASSUME TypeOK
  PROVE  /\ Last \in Nat /\ Commands = 1 .. Last /\ Units \in Nat \ {0}
         /\ Capacity \in Nat \ {0}
         /\ \A i \in Commands : commands[i] \in Program
         /\ \A i \in Commands : Amount(commands[i]) \in 0 .. Units
<1>1. /\ Last \in Nat /\ Commands = 1 .. Last
      /\ \A i \in Commands : commands[i] \in Program
  BY DEF TypeOK, Commands, Last
<1>2. \A program : Amount(program) \in 0 .. Units
  BY ShellAssumption DEF Amount
<1>. QED  BY <1>1, <1>2, ShellAssumption

LEMMA ReapedFinite ==
  ASSUME TypeOK
  PROVE  /\ IsFiniteSet(Commands) /\ Cardinality(Commands) = Last
         /\ IsFiniteSet(Reaped) /\ Cardinality(Reaped) \in 0 .. Last
<1>1. Commands = 1 .. Last /\ Last \in Nat
  BY Types
<1>2. IsFiniteSet(Commands) /\ Cardinality(Commands) = Last
  BY <1>1, FS_Interval
<1>3. Reaped \subseteq Commands
  BY DEF Reaped
<1>. QED  BY <1>2, <1>3, FS_Subset, FS_CardinalityType

\* A step of a child makes it neither gone nor reaped.
LEMMA ChildChanges ==
  ASSUME TypeOK, NEW i \in Commands, ChildStep(i)
  PROVE  /\ UNCHANGED line
         /\ child[i] \in {"forked", "running"}
         /\ \/ UNCHANGED child
            \/ child' = [child EXCEPT ![i] = "running"]
            \/ child' = [child EXCEPT ![i] = "ended"]
<1>1. CASE SetUp(i)
  BY <1>1 DEF SetUp
<1>2. CASE Write(i)
  BY <1>2 DEF Write, Running, Ended
<1>3. CASE Killed(i) \/ Finish(i)
  BY <1>3 DEF Killed, Finish, Running, Ended
<1>4. CASE Read(i)
  BY <1>4 DEF Read, Running
<1>. QED  BY <1>1, <1>2, <1>3, <1>4 DEF ChildStep

LEMMA ChildTypes ==
  ASSUME TypeOK, NEW i \in Commands, ChildStep(i)
  PROVE  TypeOK'
<1>. USE Types
<1>1. /\ phase' = phase /\ commands' = commands
      /\ forked' = forked /\ waited' = waited
  BY ChildChanges DEF line
<1>2. child' \in [Commands -> {"none", "forked", "running", "ended", "reaped"}]
  BY ChildChanges DEF TypeOK
<1>3. /\ left' \in [Commands -> 0 .. Units]
      /\ pipe' \in [Pipes -> 0 .. Capacity] /\ output' \in Nat
  <2>0. /\ left \in [Commands -> 0 .. Units] /\ pipe \in [Pipes -> 0 .. Capacity]
        /\ output \in Nat /\ Capacity \in Nat /\ Units \in Nat
        /\ Commands = 1 .. Last /\ Last \in Nat
    BY ShellAssumption DEF TypeOK
  <2>1. CASE SetUp(i)
    BY <2>0, <2>1 DEF SetUp
  <2>2. CASE Write(i)
    <3>1. left' \in [Commands -> 0 .. Units]
      <4>1. left[i] > 0 /\ left' \in {[left EXCEPT ![i] = left[i]], [left EXCEPT ![i] = left[i] - 1]}
        BY <2>2 DEF Write
      <4>2. left[i] - 1 \in 0 .. Units
        BY <4>1, <2>0
      <4>. QED  BY <2>0, <4>1, <4>2
    <3>2. CASE i = Last /\ output' = output + 1 /\ UNCHANGED pipe
      BY <3>1, <3>2 DEF TypeOK
    <3>3. CASE /\ i # Last /\ pipe[i] < Capacity
               /\ pipe' = [pipe EXCEPT ![i] = @ + 1] /\ UNCHANGED output
      <4>1. i \in Pipes
        BY <2>0, <3>3 DEF Pipes
      <4>2. pipe[i] + 1 \in 0 .. Capacity
        BY <2>0, <3>3, <4>1
      <4>. QED  BY <2>0, <3>1, <3>3, <4>1, <4>2
    <3>. QED  BY <2>2, <3>2, <3>3 DEF Write
  <2>3. CASE Killed(i) \/ Finish(i)
    BY <2>3 DEF Killed, Finish, TypeOK
  <2>4. CASE Read(i)
    <3>1. left' \in [Commands -> 0 .. Units]
      BY <2>4 DEF Read, TypeOK
    <3>2. pipe' \in [Pipes -> 0 .. Capacity] /\ output' \in Nat
      <4>1. /\ i > 1 /\ pipe[i - 1] > 0 /\ output' = output
            /\ pipe' = [pipe EXCEPT ![i - 1] = @ - 1]
        BY <2>4 DEF Read
      <4>2. i - 1 \in Pipes
        BY <2>0, <4>1 DEF Pipes
      <4>3. pipe[i - 1] - 1 \in 0 .. Capacity
        BY <2>0, <4>1, <4>2
      <4>. QED  BY <2>0, <4>1, <4>2, <4>3
    <3>. QED  BY <3>1, <3>2
  <2>. QED  BY <2>1, <2>2, <2>3, <2>4 DEF ChildStep
<1>. QED  BY <1>1, <1>2, <1>3 DEF TypeOK, Commands, Last, Pipes

LEMMA ChildControl ==
  ASSUME ControlInv, NEW i \in Commands, ChildStep(i)
  PROVE  ControlInv'
<1>. USE DEF ControlInv
<1>1. /\ TypeOK' /\ commands' = commands
      /\ phase' = phase /\ forked' = forked /\ waited' = waited
  BY ChildTypes, ChildChanges DEF line
<1>2. /\ child[i] \in {"forked", "running"}
      /\ DOMAIN child = Commands
      /\ \/ UNCHANGED child
         \/ child' = [child EXCEPT ![i] = "running"]
         \/ child' = [child EXCEPT ![i] = "ended"]
  BY ChildChanges DEF TypeOK
<1>3. Commands' = Commands /\ Last' = Last
  BY <1>1 DEF Commands, Last
<1>4. Reaped' = Reaped
  BY <1>2, <1>3 DEF Reaped
<1>5. phase \in {"forking", "waiting"} /\ ~Gone(i) /\ ~(i > forked)
  BY <1>2 DEF Quiet, Gone, InOrder
<1>6. InOrder'
  BY <1>1, <1>2, <1>3, <1>4, <1>5 DEF InOrder
<1>7. WaitsCollect' /\ Quiet'
  BY <1>1, <1>4, <1>5 DEF WaitsCollect, Quiet
<1>. QED  BY <1>1, <1>6, <1>7

LEMMA ShellControl ==
  ASSUME ControlInv, Submit \/ Leave \/ ShellStep
  PROVE  ControlInv'
<1>. USE DEF ControlInv
<1>. USE Types
<1>1. CASE Submit
  <2>1. PICK typed \in Lines :
          /\ commands' = typed
          /\ phase' \in {"forking", "stopped"}
          /\ child' = [i \in DOMAIN typed |-> "none"]
          /\ left' = [i \in DOMAIN typed |-> 0]
          /\ pipe' = [p \in 1 .. Len(typed) - 1 |-> 0]
    BY <1>1 DEF Submit
  <2>2. forked' = 0 /\ waited' = 0 /\ output' = 0
    BY <1>1 DEF Submit
  <2>3. typed \in Seq(Program) /\ Len(typed) \in Nat
    BY ShellAssumption
  <2>4. TypeOK'
    BY <2>1, <2>2, <2>3 DEF TypeOK, Commands, Last, Pipes
  <2>5. Reaped' = {}
    BY <2>1 DEF Reaped, Commands
  <2>6. InOrder' /\ WaitsCollect' /\ Quiet'
    BY <2>1, <2>2, <2>5 DEF InOrder, WaitsCollect, Quiet, Gone, Commands
  <2>. QED  BY <2>4, <2>6
<1>2. CASE Leave
  <2>1. phase' \in {"stopped", "crashed"} /\ phase = "reading"
    BY <1>2 DEF Leave
  <2>2. UNCHANGED <<commands, forked, waited, child, left, pipe, output>>
    BY <1>2 DEF Leave
  <2>3. Commands' = Commands /\ Last' = Last /\ Pipes' = Pipes /\ Reaped' = Reaped
    BY <2>2 DEF Commands, Last, Pipes, Reaped
  <2>. QED  BY <2>1, <2>2, <2>3 DEF TypeOK, InOrder, WaitsCollect, Quiet, Gone
<1>3. CASE Fork
  <2>1. /\ phase = "forking" /\ forked < Last /\ forked' = forked + 1
        /\ \/ child' = [child EXCEPT ![forked + 1] = "forked"]
           \/ UNCHANGED child
        /\ UNCHANGED <<phase, commands, waited, left, pipe, output>>
    BY <1>3 DEF Fork
  <2>2. Commands' = Commands /\ Last' = Last /\ Pipes' = Pipes
    BY <2>1 DEF Commands, Last, Pipes
  <2>3. TypeOK'
    <3>1. forked' \in 0 .. Last
      BY <2>1 DEF TypeOK
    <3>2. child' \in [Commands -> {"none", "forked", "running", "ended", "reaped"}]
      BY <2>1 DEF TypeOK
    <3>. QED  BY <2>1, <2>2, <3>1, <3>2 DEF TypeOK
  <2>4. Reaped' = {}
    BY <2>1, <2>2 DEF InOrder, Reaped, TypeOK
  <2>5. InOrder'
    BY <2>1, <2>2, <2>4 DEF InOrder, TypeOK
  <2>. QED  BY <2>1, <2>3, <2>5 DEF WaitsCollect, Quiet
<1>4. CASE ClosePipes
  <2>1. /\ phase = "forking" /\ forked = Last /\ phase' = "waiting"
        /\ UNCHANGED <<commands, forked, waited, child, left, pipe, output>>
    BY <1>4 DEF ClosePipes
  <2>2. Commands' = Commands /\ Last' = Last /\ Pipes' = Pipes /\ Reaped' = Reaped
    BY <2>1 DEF Commands, Last, Pipes, Reaped
  <2>3. waited = 0 /\ Reaped = {} /\ Cardinality(Reaped) = 0
    BY <2>1, FS_EmptySet DEF InOrder
  <2>. QED  BY <2>1, <2>2, <2>3 DEF TypeOK, InOrder, WaitsCollect, Quiet
<1>5. CASE Wait
  <2>1. /\ phase = "waiting" /\ waited < Last /\ waited' = waited + 1
        /\ UNCHANGED <<phase, commands, forked, left, pipe, output>>
    BY <1>5 DEF Wait, Waits
  <2>2. Commands' = Commands /\ Last' = Last /\ Pipes' = Pipes
    BY <2>1 DEF Commands, Last, Pipes
  <2>3. CASE UNCHANGED child /\ \A i \in Commands : Gone(i)
    BY <2>1, <2>2, <2>3 DEF TypeOK, InOrder, WaitsCollect, Quiet, Gone
  <2>4. ASSUME NEW i \in Commands, child[i] = "ended",
               child' = [child EXCEPT ![i] = "reaped"]
        PROVE  ControlInv'
    <3>1. TypeOK'
      BY <2>1, <2>2, <2>4 DEF TypeOK
    <3>2. Reaped' = Reaped \cup {i} /\ i \notin Reaped
      BY <2>2, <2>4 DEF Reaped, TypeOK
    <3>3. Cardinality(Reaped') = Cardinality(Reaped) + 1
      BY <3>2, ReapedFinite, FS_AddElement
    <3>4. waited = Cardinality(Reaped)
      BY <2>1, <2>4 DEF WaitsCollect, Gone
    <3>5. InOrder' /\ WaitsCollect' /\ Quiet'
      BY <2>1, <2>2, <2>4, <3>3, <3>4 DEF InOrder, WaitsCollect, Quiet, TypeOK
    <3>. QED  BY <3>1, <3>5
  <2>. QED  BY <1>5, <2>3, <2>4 DEF Wait, Gone
<1>6. CASE Prompt
  <2>1. /\ phase = "waiting" /\ waited = Last /\ phase' = "reading"
        /\ UNCHANGED <<commands, forked, waited, child, left, pipe, output>>
    BY <1>6 DEF Prompt, Waits
  <2>2. Commands' = Commands /\ Last' = Last /\ Pipes' = Pipes /\ Reaped' = Reaped
    BY <2>1 DEF Commands, Last, Pipes, Reaped
  <2>3. \A i \in Commands : Gone(i)
    <3>1. CASE waited = Cardinality(Reaped)
      <4>1. Reaped \subseteq Commands
        BY DEF Reaped
      <4>2. Reaped = Commands
        BY <2>1, <3>1, <4>1, ReapedFinite, FS_Subset
      <4>. QED  BY <4>2 DEF Reaped, Gone
    <3>. QED  BY <2>1, <3>1 DEF WaitsCollect
  <2>. QED  BY <2>1, <2>2, <2>3 DEF TypeOK, InOrder, WaitsCollect, Quiet, Gone
<1>. QED  BY <1>1, <1>2, <1>3, <1>4, <1>5, <1>6 DEF ShellStep

LEMMA ControlStep ==
  ASSUME ControlInv, [Next]_vars
  PROVE  ControlInv'
<1>1. CASE UNCHANGED vars
  BY <1>1 DEF vars, ControlInv, TypeOK, InOrder, WaitsCollect, Quiet, Gone, Reaped,
     Commands, Last, Pipes
<1>. QED  BY <1>1, ChildControl, ShellControl DEF Next

LEMMA ControlInit == Init => ControlInv
<1>. SUFFICES ASSUME Init PROVE ControlInv
  OBVIOUS
<1>1. Commands = {} /\ Last = 0 /\ Pipes = {}
  BY DEF Init, Commands, Last, Pipes
<1>2. TypeOK
  BY <1>1 DEF Init, TypeOK, Commands
<1>. QED  BY <1>1, <1>2 DEF Init, ControlInv, InOrder, WaitsCollect, Quiet

\* Every state of the shell is of its type.
THEOREM TypeCorrect == Spec => []TypeOK
<1>1. ControlInv => TypeOK
  BY DEF ControlInv
<1>. QED  BY <1>1, ControlInit, ControlStep, PTL DEF Spec

\* The prompt comes when no child of the line is left.
THEOREM PromptIsQuietHolds == Spec => []PromptIsQuiet
<1>1. ControlInv => PromptIsQuiet
  BY DEF ControlInv, Quiet, Gone, PromptIsQuiet
<1>. QED  BY <1>1, ControlInit, ControlStep, PTL DEF Spec
-----------------------------------------------------------------------------
(* What flows through the pipes *)

\* Every set of natural numbers has a least one.
LEMMA LeastNatural ==
  ASSUME NEW T \in SUBSET Nat, T # {}
  PROVE  \E m \in T : \A k \in T : m <= k
<1>. DEFINE R == {ss \in Nat \X Nat : ss[1] < ss[2]}
<1>1. IsWellFoundedOn(R, Nat)
  BY NatLessThanWellFounded DEF OpToRel
<1>. HIDE DEF R
<1>2. PICK m \in T : \A k \in T : <<k, m>> \notin R
  BY <1>1, WFMin
<1>3. \A k \in T : k \in Nat /\ m \in Nat /\ ~(k < m)
  BY <1>2 DEF R
<1>. QED  BY <1>3

\* Steps that leave the children where they are, and what they hold.
LEMMA FlowStays ==
  ASSUME IInv, UNCHANGED <<commands, left, pipe, output>>,
         Intact' => Intact,
         phase' # "forking" \/ phase' = phase,
         \A i \in Commands : /\ Over(i)' <=> Over(i)
                             /\ NotYet(i)' <=> NotYet(i)
                             /\ Running(i)' <=> Running(i)
  PROVE  FlowInv'
<1>1. SUFFICES ASSUME Intact' PROVE (NothingEarly /\ EndsInOrder /\ FirstWrites /\ Conserved)'
  BY DEF FlowInv
<1>2. /\ Commands' = Commands /\ Last' = Last /\ Pipes' = Pipes
      /\ Commands = 1 .. Last /\ Last \in Nat /\ Last > 0
  BY <1>1, Types DEF Commands, Last, Pipes, IInv, ControlInv, Intact
<1>3. NothingEarly /\ EndsInOrder /\ FirstWrites /\ Conserved
  BY <1>1 DEF IInv, FlowInv
<1>4. NothingEarly' /\ FirstWrites'
  BY <1>2, <1>3 DEF NothingEarly, FirstWrites
<1>5. EndsInOrder'
  <2>1. \A i \in Commands \ {1} : i - 1 \in Commands
    BY <1>2
  <2>. QED  BY <1>2, <1>3, <2>1 DEF EndsInOrder
<1>6. \A through : Flows(through)' <=> Flows(through)
  BY <1>2 DEF Flows
<1>7. Conserved'
  BY <1>2, <1>3, <1>6 DEF Conserved
<1>. QED  BY <1>4, <1>5, <1>7

LEMMA ShellFlow ==
  ASSUME IInv, Submit \/ Leave \/ ShellStep
  PROVE  FlowInv'
<1>. USE DEF IInv, ControlInv
<1>1. CASE Submit
  <2>1. PICK typed \in Lines :
          /\ commands' = typed
          /\ child' = [i \in DOMAIN typed |-> "none"]
          /\ left' = [i \in DOMAIN typed |-> 0]
          /\ pipe' = [p \in 1 .. Len(typed) - 1 |-> 0]
    BY <1>1 DEF Submit
  <2>2. output' = 0
    BY <1>1 DEF Submit
  <2>3. SUFFICES ASSUME Intact'
                 PROVE  (NothingEarly /\ EndsInOrder /\ FirstWrites /\ Conserved)'
    BY DEF FlowInv
  <2>4. /\ typed \in Seq(Program) /\ Len(typed) \in Nat \ {0}
        /\ DOMAIN typed = 1 .. Len(typed)
    BY <2>1, <2>3, ShellAssumption DEF Intact, Last
  <2>5. /\ Commands' = 1 .. Len(typed) /\ Last' = Len(typed)
        /\ Pipes' = 1 .. Len(typed) - 1
    BY <2>1, <2>4 DEF Commands, Last, Pipes
  <2>6. NothingEarly'
    BY <2>1, <2>4, <2>5 DEF NothingEarly
  <2>7. EndsInOrder' /\ FirstWrites'
    BY <2>1, <2>4, <2>5 DEF EndsInOrder, FirstWrites, Over, Running
  <2>8. Conserved'
    <3>. DEFINE through == [i \in 1 .. Len(typed) |-> 0]
    <3>1. through \in [1 .. Len(typed) -> 0 .. Units]
      BY ShellAssumption
    <3>2. Flows(through)'
      BY <2>1, <2>2, <2>4, <2>5 DEF Flows, NotYet
    <3>. HIDE DEF through
    <3>. QED  BY <2>5, <3>1, <3>2 DEF Conserved
  <2>. QED  BY <2>6, <2>7, <2>8
<1>2. CASE Leave \/ ClosePipes \/ Prompt
  <2>1. phase' # "forking"
    BY <1>2 DEF Leave, ClosePipes, Prompt
  <2>2. UNCHANGED <<commands, forked, child, left, pipe, output>>
    BY <1>2 DEF Leave, ClosePipes, Prompt
  <2>. QED  BY <2>1, <2>2, FlowStays DEF Intact, Over, NotYet, Running, Commands, Last
<1>3. CASE Fork
  <2>1. /\ phase = "forking" /\ forked < Last /\ forked' = forked + 1
        /\ \/ child' = [child EXCEPT ![forked + 1] = "forked"]
           \/ UNCHANGED child
        /\ UNCHANGED <<phase, commands, waited, left, pipe, output>>
    BY <1>3 DEF Fork
  <2>2. /\ Commands = 1 .. Last /\ Last \in Nat /\ forked \in 0 .. Last
        /\ DOMAIN child = Commands
    BY Types DEF TypeOK
  <2>3. child[forked + 1] = "none"
    BY <2>1, <2>2 DEF InOrder
  <2>4. \A i \in Commands : /\ Over(i)' <=> Over(i)
                            /\ NotYet(i)' <=> NotYet(i)
                            /\ Running(i)' <=> Running(i)
    BY <2>1, <2>2, <2>3 DEF Over, NotYet, Running
  <2>5. Intact' => Intact
    <3>1. Commands' = Commands /\ Last' = Last
      BY <2>1 DEF Commands, Last
    <3>2. \A i \in 1 .. forked : i \in 1 .. forked + 1 /\ child'[i] = child[i]
      BY <2>1, <2>2
    <3>. QED  BY <2>1, <3>1, <3>2 DEF Intact
  <2>. QED  BY <2>1, <2>4, <2>5, FlowStays
<1>4. CASE Wait
  <2>1. UNCHANGED <<phase, commands, forked, left, pipe, output>>
    BY <1>4 DEF Wait
  <2>2. UNCHANGED child \/
        \E i \in Commands : child[i] = "ended" /\ child' = [child EXCEPT ![i] = "reaped"]
    BY <1>4 DEF Wait
  <2>3. \A i \in Commands : /\ Over(i)' <=> Over(i)
                            /\ NotYet(i)' <=> NotYet(i)
                            /\ Running(i)' <=> Running(i)
    BY <2>2 DEF Over, NotYet, Running, TypeOK
  <2>4. Intact' => Intact
    <3>1. Commands' = Commands /\ Last' = Last
      BY <2>1 DEF Commands, Last
    <3>2. \A i \in 1 .. forked : i \in DOMAIN child
      BY Types DEF TypeOK
    <3>3. \A i \in 1 .. forked : child'[i] # "none" => child[i] # "none"
      BY <2>2, <3>2
    <3>. QED  BY <2>1, <3>1, <3>3 DEF Intact
  <2>. QED  BY <2>1, <2>3, <2>4, FlowStays
<1>. QED  BY <1>1, <1>2, <1>3, <1>4 DEF ShellStep

\* In an intact line a command that still writes has a reader.
LEMMA NoneKilled ==
  ASSUME IInv, Intact, NEW i \in Commands, Running(i), i # Last
  PROVE  ReadOpen(i)
<1>. USE DEF IInv, ControlInv
<1>1. SUFFICES ASSUME ~HeldByAll, ~Running(i + 1) PROVE FALSE
  BY Types DEF ReadOpen, ReadEnds, Pipes
<1>2. i + 1 \in Commands \ {1} /\ Commands = 1 .. Last /\ Last \in Nat
  BY Types
<1>3. phase = "waiting"
  BY <1>1 DEF HeldByAll, Quiet, Gone, Running
<1>4. child[i + 1] # "none" /\ child[i + 1] # "forked"
  BY <1>1, <1>2, <1>3 DEF Intact, InOrder, HeldByAll
<1>5. Over(i + 1)
  BY <1>1, <1>2, <1>4 DEF Over, Running, TypeOK
<1>6. Over(i)
  BY <1>2, <1>5 DEF EndsInOrder, FlowInv
<1>. QED  BY <1>6 DEF Over, Running

LEMMA ChildFlow ==
  ASSUME IInv, NEW i \in Commands, ChildStep(i)
  PROVE  FlowInv'
<1>. USE DEF IInv, ControlInv
<1>1. /\ phase' = phase /\ commands' = commands /\ forked' = forked
      /\ Commands' = Commands /\ Last' = Last /\ Pipes' = Pipes
  BY ChildChanges DEF line, Commands, Last, Pipes
<1>2. child[i] \in {"forked", "running"}
  BY ChildChanges
<1>3. SUFFICES ASSUME Intact' PROVE (NothingEarly /\ EndsInOrder /\ FirstWrites /\ Conserved)'
  BY DEF FlowInv
<1>4. Intact
  <2>1. \A j \in 1 .. forked : j = i => child[j] # "none"
    BY <1>2
  <2>2. \A j \in 1 .. forked : j # i => child'[j] = child[j]
    <3>1. child' = child \/ \E new : child' = [child EXCEPT ![i] = new]
      BY ChildChanges
    <3>2. \A j \in 1 .. forked : j \in DOMAIN child
      BY Types DEF TypeOK
    <3>. QED  BY <3>1, <3>2
  <2>. QED  BY <1>1, <1>3, <2>1, <2>2 DEF Intact
<1>5. NothingEarly /\ EndsInOrder /\ FirstWrites /\ Conserved
  BY <1>4 DEF FlowInv
<1>6. /\ Commands = 1 .. Last /\ Last \in Nat \ {0} /\ Pipes = 1 .. Last - 1
      /\ Units \in Nat \ {0}
      /\ child \in [Commands -> {"none", "forked", "running", "ended", "reaped"}]
      /\ left \in [Commands -> 0 .. Units] /\ pipe \in [Pipes -> 0 .. Capacity]
      /\ output \in Nat
      /\ commands \in [Commands -> Program]
      /\ \A j \in Commands : j > 1 => commands[j] = "filter"
  <2>1. Commands = 1 .. Last /\ Last \in Nat \ {0} /\ Pipes = 1 .. Last - 1
    BY <1>4, Types DEF Intact, Pipes
  <2>2. commands \in [Commands -> Program]
    BY DEF TypeOK, Commands
  <2>3. \A j \in Commands : j > 1 => commands[j] = "filter"
    BY <1>4 DEF Intact
  <2>. QED  BY <2>1, <2>2, <2>3, ShellAssumption DEF TypeOK
<1>7. \A j \in Commands : j # i => /\ child'[j] = child[j]
                                   /\ Over(j)' <=> Over(j)
                                   /\ NotYet(j)' <=> NotYet(j)
  <2>1. \A j \in Commands : j # i => child'[j] = child[j]
    <3>1. child' = child \/ \E new : child' = [child EXCEPT ![i] = new]
      BY ChildChanges
    <3>. QED  BY <1>6, <3>1
  <2>. QED  BY <2>1 DEF Over, NotYet
<1>8. \A j \in Commands \ {1} : j - 1 \in Pipes /\ j - 1 \in Commands /\ j - 1 # j
  BY <1>6
<1>9. \A j \in Commands \ {1} : Over(j) => j # i /\ j - 1 # i
  BY <1>2, <1>5, <1>8 DEF EndsInOrder, Over
<1>10. CASE SetUp(i)
  <2>1. /\ child[i] = "forked"
        /\ child'[i] = IF commands[i] = "" THEN "ended" ELSE "running"
        /\ left' = [left EXCEPT ![i] = Amount(commands[i])]
        /\ pipe' = pipe /\ output' = output
    BY <1>6, <1>10 DEF SetUp
  <2>2. ~NotYet(i)' /\ left[i] = 0
    BY <1>5, <2>1 DEF NotYet, NothingEarly
  <2>3. i # 1 => left' = left /\ ~Over(i)'
    <3>1. i # 1 => commands[i] = "filter" /\ Amount(commands[i]) = 0
      BY <1>6 DEF Amount
    <3>. QED  BY <1>6, <2>1, <2>2, <3>1 DEF Over
  <2>4. NothingEarly'
    BY <1>1, <1>5, <1>6, <1>7, <2>1, <2>2 DEF NothingEarly
  <2>5. EndsInOrder'
    <3>. SUFFICES ASSUME NEW j \in Commands \ {1}, Over(j)'
                  PROVE  Over(j - 1)' /\ left'[j] = 0 /\ pipe[j - 1] = 0 /\ phase # "forking"
      BY <1>1, <2>1 DEF EndsInOrder
    <3>1. j # i /\ Over(j)
      BY <1>7, <2>3
    <3>. QED  BY <1>5, <1>6, <1>7, <1>8, <1>9, <2>1, <3>1 DEF EndsInOrder
  <2>6. FirstWrites'
    <3>1. CASE i = 1
      BY <1>1, <1>6, <2>1, <3>1 DEF FirstWrites, Over, Running, Amount
    <3>2. CASE i # 1
      BY <1>1, <1>5, <1>6, <1>7, <2>3, <3>2 DEF FirstWrites, Running
    <3>. QED  BY <3>1, <3>2
  <2>7. Conserved'
    <3>1. ASSUME NEW through \in [Commands -> 0 .. Units], Flows(through)
          PROVE  Flows(through)'
      <4>1. CASE i = 1
        <5>1. through[1] = 0
          BY <2>1, <3>1, <4>1 DEF Flows, NotYet
        <5>2. left'[1] = Amount(commands[1])
          BY <1>6, <2>1, <4>1
        <5>3. \A j \in Pipes : j + 1 # 1 /\ j + 1 \in Commands
          BY <1>6
        <5>4. \A j \in Pipes : left'[j + 1] = left[j + 1]
          BY <1>6, <2>1, <4>1, <5>3
        <5>5. through[1] = Amount(commands[1]) - left'[1]
          <6>1. Amount(commands[1]) \in 0 .. Units
            BY <4>1, Types
          <6>. QED  BY <5>1, <5>2, <6>1
        <5>. QED  BY <1>1, <2>1, <2>2, <3>1, <4>1, <5>4, <5>5 DEF Flows
      <4>2. CASE i # 1
        <5>1. NotYet(1)' <=> NotYet(1)
          BY <1>6, <1>7, <4>2
        <5>. QED  BY <1>1, <2>1, <2>3, <3>1, <4>2, <5>1 DEF Flows
      <4>. QED  BY <4>1, <4>2
    <3>. QED  BY <1>1, <1>5, <3>1 DEF Conserved
  <2>. QED  BY <2>4, <2>5, <2>6, <2>7
<1>11. CASE Write(i)
  <2>1. /\ child[i] = "running" /\ left[i] > 0
        /\ left' = [left EXCEPT ![i] = IF commands[i] = "endless" THEN @ ELSE @ - 1]
    BY <1>11 DEF Write, Running
  <2>2. commands[i] # "head"
    <3>1. SUFFICES ASSUME commands[i] = "head" PROVE FALSE
      OBVIOUS
    <3>2. i = 1 /\ Amount(commands[1]) = 0 /\ ~NotYet(1)
      <4>1. i = 1
        BY <1>6, <3>1
      <4>. QED  BY <2>1, <3>1, <4>1 DEF Amount, NotYet
    <3>3. PICK through \in [Commands -> 0 .. Units] : Flows(through)
      BY <1>5, <3>1, <3>2 DEF Conserved
    <3>4. through[1] = 0 - left[1] /\ through[1] \in 0 .. Units
      BY <1>6, <3>2, <3>3 DEF Flows
    <3>. QED  BY <1>6, <2>1, <3>2, <3>4
  <2>3. child' = child
    BY <1>11, <2>2 DEF Write
  <2>4. \/ i = Last /\ output' = output + 1 /\ pipe' = pipe
        \/ i # Last /\ output' = output /\ pipe' = [pipe EXCEPT ![i] = @ + 1]
    BY <1>11 DEF Write
  <2>5. NothingEarly'
    BY <1>1, <1>5, <1>6, <2>1, <2>3 DEF NothingEarly, NotYet
  <2>6. EndsInOrder'
    <3>. SUFFICES ASSUME NEW j \in Commands \ {1}, Over(j)
                  PROVE  Over(j - 1) /\ left'[j] = 0 /\ pipe'[j - 1] = 0 /\ phase # "forking"
      BY <1>1, <2>3 DEF EndsInOrder, Over
    <3>1. j # i /\ j - 1 # i /\ left'[j] = left[j] /\ pipe'[j - 1] = pipe[j - 1]
      BY <1>6, <1>8, <1>9, <2>1, <2>4
    <3>. QED  BY <1>5, <3>1 DEF EndsInOrder
  <2>7. FirstWrites'
    <3>1. Over(1) => i # 1
      BY <2>1 DEF Over
    <3>2. Over(1) \/ commands[1] = "endless" => left'[1] = left[1]
      BY <1>6, <2>1, <3>1
    <3>. QED  BY <1>1, <1>5, <2>3, <3>2 DEF FirstWrites, Over, Running
  <2>8. Conserved'
    <3>1. SUFFICES ASSUME commands[1] # "endless"
                   PROVE  \E through \in [Commands -> 0 .. Units] : Flows(through)'
      BY <1>1 DEF Conserved
    <3>2. PICK through \in [Commands -> 0 .. Units] : Flows(through)
      BY <1>5, <3>1 DEF Conserved
    <3>3. left' = [left EXCEPT ![i] = @ - 1]
      <4>1. i = 1 \/ commands[i] = "filter"
        BY <1>6
      <4>2. commands[i] # "endless"
        BY <3>1, <4>1
      <4>. QED  BY <2>1, <4>2
    <3>4. through[i] + 1 \in 0 .. Units
      <4>1. CASE i = 1
        <5>1. through[1] = Amount(commands[1]) - left[1]
          BY <2>1, <3>2, <4>1 DEF Flows, NotYet
        <5>. QED  BY <1>6, <2>1, <4>1, <5>1, Types
      <4>2. CASE i # 1
        <5>1. i - 1 \in Pipes /\ i - 1 \in Commands /\ (i - 1) + 1 = i
          BY <1>6, <1>8, <4>2
        <5>2. through[i - 1] = pipe[i - 1] + left[i] + through[i]
          BY <3>2, <5>1 DEF Flows
        <5>3. through[i - 1] \in 0 .. Units /\ pipe[i - 1] \in Nat /\ left[i] \in Nat
              /\ through[i] \in Nat
          <6>1. \A k \in Commands : through[k] \in 0 .. Units /\ left[k] \in Nat
            BY <1>6
          <6>2. pipe[i - 1] \in Nat
            BY <1>6, <5>1, ShellAssumption
          <6>. QED  BY <5>1, <6>1, <6>2
        <5>4. left[i] >= 1
          BY <2>1, <5>3
        <5>5. through[i] + 1 <= through[i - 1]
          BY <5>2, <5>3, <5>4
        <5>. QED  BY <5>3, <5>5, ShellAssumption
      <4>. QED  BY <4>1, <4>2
    <3>. DEFINE next == [through EXCEPT ![i] = @ + 1]
    <3>5. next \in [Commands -> 0 .. Units]
      BY <3>4
    <3>6. next[1] = IF NotYet(1)' THEN 0 ELSE Amount(commands[1]) - left'[1]
      <4>1. CASE i = 1
        <5>1. ~NotYet(1)' /\ ~NotYet(1)
          BY <2>1, <2>3, <4>1 DEF NotYet
        <5>2. through[1] = Amount(commands[1]) - left[1]
          BY <3>2, <5>1 DEF Flows
        <5>. QED  BY <1>6, <3>3, <4>1, <5>1, <5>2, Types
      <4>2. CASE i # 1
        <5>1. NotYet(1)' <=> NotYet(1)
          BY <2>3 DEF NotYet
        <5>. QED  BY <1>6, <3>2, <3>3, <4>2, <5>1 DEF Flows
      <4>. QED  BY <4>1, <4>2
    <3>7. ASSUME NEW j \in Pipes
          PROVE  next[j] = pipe'[j] + left'[j + 1] + next[j + 1]
      <4>1. through[j] = pipe[j] + left[j + 1] + through[j + 1]
        BY <3>2 DEF Flows
      <4>2. /\ j \in Commands /\ j + 1 \in Commands /\ j # j + 1
            /\ through[j] \in Nat /\ through[j + 1] \in Nat
            /\ pipe[j] \in Nat /\ left[j + 1] \in Nat
        <5>1. j \in Commands /\ j + 1 \in Commands /\ j # j + 1
          BY <1>6
        <5>2. \A k \in Commands : through[k] \in Nat /\ left[k] \in Nat
          BY <1>6
        <5>3. pipe[j] \in Nat
          BY <1>6, ShellAssumption
        <5>. QED  BY <5>1, <5>2, <5>3
      <4>3. CASE j = i
        <5>1. pipe'[j] = pipe[j] + 1
          BY <1>6, <2>4, <4>3
        <5>2. left'[j + 1] = left[j + 1]
          BY <1>6, <3>3, <4>2, <4>3
        <5>3. next[j] = through[j] + 1 /\ next[j + 1] = through[j + 1]
          BY <4>2, <4>3
        <5>. QED  BY <4>1, <4>2, <5>1, <5>2, <5>3
      <4>4. CASE j + 1 = i
        <5>1. pipe'[j] = pipe[j]
          BY <1>6, <2>4, <4>2, <4>4
        <5>2. left'[j + 1] = left[j + 1] - 1
          BY <1>6, <3>3, <4>2, <4>4
        <5>3. next[j] = through[j] /\ next[j + 1] = through[j + 1] + 1
          BY <4>2, <4>4
        <5>. QED  BY <4>1, <4>2, <5>1, <5>2, <5>3
      <4>5. CASE j # i /\ j + 1 # i
        BY <1>6, <2>4, <3>3, <4>1, <4>2, <4>5
      <4>. QED  BY <4>3, <4>4, <4>5
    <3>8. next[Last] = output'
      BY <1>6, <2>4, <3>2 DEF Flows
    <3>9. Flows(next)'
      BY <1>1, <3>6, <3>7, <3>8 DEF Flows
    <3>. HIDE DEF next
    <3>. QED  BY <3>5, <3>9
  <2>. QED  BY <2>5, <2>6, <2>7, <2>8
<1>12. CASE Killed(i)
  BY <1>4, <1>12, NoneKilled DEF Killed
<1>13. CASE Read(i)
  <2>1. /\ child' = child /\ output' = output /\ left[i] = 0
        /\ i - 1 \in Pipes /\ i # 1 /\ pipe[i - 1] > 0 /\ child[i] = "running"
        /\ pipe' = [pipe EXCEPT ![i - 1] = @ - 1]
        /\ left' = [left EXCEPT ![i] = 1]
    BY <1>6, <1>13 DEF Read, Running
  <2>2. NothingEarly'
    BY <1>1, <1>5, <1>6, <2>1 DEF NothingEarly, NotYet
  <2>3. EndsInOrder'
    <3>. SUFFICES ASSUME NEW j \in Commands \ {1}, Over(j)
                  PROVE  Over(j - 1) /\ left'[j] = 0 /\ pipe'[j - 1] = 0 /\ phase # "forking"
      BY <1>1, <2>1 DEF EndsInOrder, Over
    <3>1. j # i /\ j - 1 # i - 1
      BY <1>6, <1>9
    <3>. QED  BY <1>5, <1>6, <1>8, <2>1, <3>1 DEF EndsInOrder
  <2>4. FirstWrites'
    BY <1>1, <1>5, <1>6, <2>1 DEF FirstWrites, Over, Running
  <2>5. Conserved'
    <3>1. ASSUME NEW through \in [Commands -> 0 .. Units], Flows(through)
          PROVE  Flows(through)'
      <4>1. left'[1] = left[1] /\ (NotYet(1)' <=> NotYet(1))
        BY <1>6, <2>1 DEF NotYet
      <4>2. ASSUME NEW j \in Pipes
            PROVE  pipe'[j] + left'[j + 1] = pipe[j] + left[j + 1]
        <5>1. CASE j = i - 1
          BY <1>6, <2>1, <5>1
        <5>2. CASE j # i - 1
          BY <1>6, <2>1, <5>2
        <5>. QED  BY <5>1, <5>2
      <4>3. \A j \in Pipes : through[j] = pipe'[j] + left'[j + 1] + through[j + 1]
        BY <3>1, <4>2 DEF Flows
      <4>. QED  BY <1>1, <2>1, <3>1, <4>1, <4>3 DEF Flows
    <3>. QED  BY <1>1, <1>5, <3>1 DEF Conserved
  <2>. QED  BY <2>2, <2>3, <2>4, <2>5
<1>14. CASE Finish(i)
  <2>1. /\ child[i] = "running" /\ left[i] = 0
        /\ child' = [child EXCEPT ![i] = "ended"]
        /\ left' = left /\ pipe' = pipe /\ output' = output
        /\ i # 1 => pipe[i - 1] = 0 /\ ~WriteOpen(i - 1)
    BY <1>6, <1>14 DEF Finish, Running, Ended, Reads
  <2>2. Over(i)' /\ ~NotYet(i) /\ ~NotYet(i)'
    BY <1>6, <2>1 DEF Over, NotYet
  <2>3. NothingEarly'
    BY <1>1, <1>5, <1>7, <2>1, <2>2 DEF NothingEarly
  <2>4. i # 1 => phase # "forking" /\ Over(i - 1)
    <3>1. ASSUME i # 1
          PROVE  ~HeldByAll /\ ~Running(i - 1) /\ i - 1 \in Commands
      BY <1>8, <2>1, <3>1 DEF WriteOpen, WriteEnds
    <3>2. ASSUME i # 1 PROVE phase = "waiting" /\ child[i - 1] \notin {"none", "forked"}
      <4>1. phase = "waiting"
        BY <2>1, <3>1, <3>2 DEF HeldByAll, Quiet, Gone
      <4>. QED  BY <1>4, <1>6, <3>1, <3>2, <4>1 DEF Intact, InOrder, HeldByAll
    <3>. QED  BY <1>6, <3>1, <3>2 DEF Over, Running
  <2>5. EndsInOrder'
    <3>. SUFFICES ASSUME NEW j \in Commands \ {1}, Over(j)'
                  PROVE  Over(j - 1)' /\ left[j] = 0 /\ pipe[j - 1] = 0 /\ phase # "forking"
      BY <1>1, <2>1 DEF EndsInOrder
    <3>1. CASE j = i
      BY <1>7, <1>8, <2>1, <2>4, <3>1
    <3>2. CASE j # i
      BY <1>5, <1>7, <1>8, <1>9, <3>2 DEF EndsInOrder
    <3>. QED  BY <3>1, <3>2
  <2>6. FirstWrites'
    <3>1. CASE i = 1
      BY <1>1, <1>5, <1>6, <2>1, <3>1 DEF FirstWrites, Over, Running
    <3>2. CASE i # 1
      BY <1>1, <1>5, <1>6, <1>7, <2>1, <3>2 DEF FirstWrites, Running
    <3>. QED  BY <3>1, <3>2
  <2>7. \A through : Flows(through)' <=> Flows(through)
    <3>1. NotYet(1)' <=> NotYet(1)
      BY <1>6, <1>7, <2>2
    <3>. QED  BY <1>1, <2>1, <3>1 DEF Flows
  <2>8. Conserved'
    BY <1>1, <1>5, <2>7 DEF Conserved
  <2>. QED  BY <2>3, <2>5, <2>6, <2>8
<1>. QED  BY <1>10, <1>11, <1>12, <1>13, <1>14 DEF ChildStep

LEMMA FlowStep ==
  ASSUME IInv, [Next]_vars
  PROVE  FlowInv'
<1>1. CASE UNCHANGED vars
  <2>1. /\ UNCHANGED <<phase, commands, forked, child, left, pipe, output>>
        /\ Commands' = Commands /\ Last' = Last
    BY <1>1 DEF vars, Commands, Last
  <2>. QED  BY <2>1, FlowStays DEF Intact, Over, NotYet, Running
<1>. QED  BY <1>1, ShellFlow, ChildFlow DEF Next

LEMMA FlowInit == Init => FlowInv
BY DEF Init, FlowInv, Intact, Last

\* The children stand where the loops of the parent say, and what the first
\* command has written is in the pipes, with the filters or on the terminal.
THEOREM InvariantHolds == Spec => []IInv
<1>1. Init => IInv
  BY ControlInit, FlowInit DEF IInv
<1>2. IInv /\ [Next]_vars => IInv'
  BY ControlStep, FlowStep DEF IInv
<1>. QED  BY <1>1, <1>2, PTL DEF Spec

\* A function that has the same value at every two neighbours is constant.
LEMMA SameAtEnds ==
  ASSUME NEW n \in Nat \ {0}, NEW f \in [1 .. n -> Int],
         \A i \in 1 .. n - 1 : f[i] = f[i + 1]
  PROVE  f[n] = f[1]
<1>. DEFINE T == {i \in 1 .. n : f[i] # f[1]}
<1>1. SUFFICES ASSUME T # {} PROVE FALSE
  OBVIOUS
<1>2. T \in SUBSET Nat
  OBVIOUS
<1>3. PICK m \in T : \A k \in T : m <= k
  BY <1>1, <1>2, LeastNatural
<1>4. m # 1 /\ m - 1 \in 1 .. n - 1 /\ (m - 1) + 1 = m
  BY <1>3
<1>5. f[m - 1] = f[1]
  BY <1>3, <1>4
<1>. QED  BY <1>3, <1>4, <1>5

\* The filters of an intact line have passed on all that its first command had
\* to write when the prompt comes.
THEOREM OutputIntactHolds == Spec => []OutputIntact
<1>1. ASSUME IInv PROVE OutputIntact
  <2>. USE DEF IInv, ControlInv
  <2>1. SUFFICES
          ASSUME Last > 0,
                 \A i \in Commands : child[i] = "reaped" /\ (i > 1 => commands[i] = "filter")
          PROVE  output = Amount(commands[1])
    BY <1>1 DEF OutputIntact
  <2>2. /\ Commands = 1 .. Last /\ Last \in Nat \ {0} /\ forked \in 0 .. Last
        /\ Pipes = 1 .. Last - 1 /\ Amount(commands[1]) \in Int
    <3>1. 1 \in Commands
      BY <1>1, <2>1, Types
    <3>. QED  BY <1>1, <2>1, <3>1, Types DEF TypeOK, Pipes
  <2>3. Intact
    BY <2>1, <2>2 DEF Intact
  <2>4. EndsInOrder /\ FirstWrites /\ Conserved
    BY <1>1, <2>3 DEF FlowInv
  <2>5. \A i \in Commands : Over(i) /\ ~NotYet(i)
    BY <2>1 DEF Over, NotYet
  <2>6. left[1] = 0 /\ commands[1] # "endless"
    BY <2>2, <2>4, <2>5 DEF FirstWrites
  <2>7. PICK through \in [Commands -> 0 .. Units] : Flows(through)
    BY <2>4, <2>6 DEF Conserved
  <2>8. ASSUME NEW i \in Pipes PROVE through[i] = through[i + 1]
    <3>1. i + 1 \in Commands \ {1} /\ (i + 1) - 1 = i
      BY <2>2
    <3>2. left[i + 1] = 0 /\ pipe[i] = 0
      BY <2>4, <2>5, <3>1 DEF EndsInOrder
    <3>3. through[i + 1] \in 0 .. Units
      BY <3>1
    <3>. QED  BY <2>7, <3>2, <3>3 DEF Flows
  <2>9. through[Last] = through[1]
    <3>1. through \in [1 .. Last -> Int]
      BY <2>2
    <3>. QED  BY <2>2, <2>8, <3>1, SameAtEnds
  <2>. QED  BY <2>2, <2>5, <2>6, <2>7, <2>9 DEF Flows
<1>. QED  BY <1>1, InvariantHolds, PTL
=============================================================================
