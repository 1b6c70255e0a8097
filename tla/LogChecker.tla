----------------------------- MODULE LogChecker -----------------------------
(***************************************************************************)
(* The two checks that lock_file.py makes of the logs a run of the lock    *)
(* service leaves behind.  Every proposer appends a line to its log when   *)
(* it resolves an instance, before it executes the command.  An assertion  *)
(* of the checker that would fail makes the check FALSE here.              *)
(***************************************************************************)
EXTENDS PaxosGroup, FiniteSetsExt

\* The log of server s: a line for each of the instances, which it resolves in
\* order.
LogOf(s) ==
  [k \in 1 .. Cardinality({i \in Instance : Resolved(s, i)}) |->
     [instance |-> k - 1, command |-> instance_resolutions[s][k - 1].command]]

\* The lock_set of validate_lock_file after so many lines.
LockSet(file) ==
  LET lock_set_after[k \in 0 .. Len(file)] ==
        IF k = 0 THEN {}
        ELSE IF file[k].command.command_type = "LOCK"
             THEN lock_set_after[k - 1] \cup {file[k].command.resource_id}
             ELSE lock_set_after[k - 1] \ {file[k].command.resource_id}
  IN lock_set_after

validate_lock_file(file) ==
  \A k \in DOMAIN file :
    file[k].command.command_type = "LOCK"
      <=> file[k].command.resource_id \notin LockSet(file)[k - 1]

\* The most complete log, the first of several.
Longest(files) ==
  LET best == {s \in DOMAIN files : \A t \in DOMAIN files : Len(files[t]) <= Len(files[s])}
  IN CHOOSE s \in best : \A t \in best : s <= t

\* How often a command is in a file of commands.
Occurrences(file, command) == Cardinality({k \in DOMAIN file : file[k].command = command})

\* How often it is in all the clients' files together.
cli_dist(client_files, command) ==
  MapThenSumSet(LAMBDA c : Occurrences(client_files[c], command), DOMAIN client_files)

\* Every command that the clients' files hold is in the longest log as often as
\* in all of them together, and the other logs agree with the longest, line by
\* line.
validate_client_file(client_files, server_files) ==
  LET server_log == server_files[Longest(server_files)]
      asked == UNION {{client_files[c][k].command : k \in DOMAIN client_files[c]} :
                        c \in DOMAIN client_files}
  IN  /\ \A command \in asked :
           Occurrences(server_log, command) = cli_dist(client_files, command)
      /\ \A s \in DOMAIN server_files : \A k \in DOMAIN server_files[s] :
           k <= Len(server_log) /\ server_files[s][k] = server_log[k]

\* At every moment each log passes validate_lock_file: no resource is locked
\* twice, and none released that is free, in any replica (lock_file.py:121-157).
\* A log is made of whole lines here: a process that is killed may leave the last
\* one of its file cut off.
LogsValidate == \A s \in Server : validate_lock_file(LogOf(s))

\* When every client has its answers, the logs pass validate_client_file, also
\* while some servers are behind: the longest log has every request the number
\* of times it was made, and the shorter ones are the beginning of it
\* (lock_file.py:161-261).
ClientFilesValidate ==
  (\A s \in Server : Answered(s) = Len(Script[s]))
    => validate_client_file(Script, [s \in Server |-> LogOf(s)])
=============================================================================
