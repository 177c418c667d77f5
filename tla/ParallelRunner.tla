---------------------------- MODULE ParallelRunner ----------------------------
(***************************************************************************)
(* projects/ipc/parallel-runner: main forks one child per command, each    *)
(* with its stdout on a pipe of its own, then waits argc - 1 times and     *)
(* after each wait reads and prints the pipe of the child that ended.  A   *)
(* process that would block in the kernel has no enabled action.           *)
(***************************************************************************)
EXTENDS Integers, Sequences

CONSTANTS
  N,         \* argc - 1, the number of commands
  MAX,       \* length of pids and pipes
  BUFFER,    \* bytes main reads from a pipe
  Capacity,  \* bytes a pipe holds
  MaxOut,    \* bound: bytes a command writes
  Faults     \* the calls that may fail

ASSUME ConstantsAssumption ==
  /\ {N, MAX, BUFFER, Capacity} \subseteq Nat \ {0} /\ MaxOut \in Nat
  /\ Faults \subseteq {"fork"}

VARIABLES
  pc,       \* where main is
  i,        \* index of main's two loops
  pids,     \* pids[j]: 0, -1, or j + 1 standing for the child's pid
  child,    \* state of each child
  left,     \* bytes each command still has to write
  pipe,     \* bytes in each pipe
  writers,  \* the processes that hold each pipe's write end
  readEnd,  \* the pipes whose read end main has open
  found,    \* the index main found for the pid waitpid returned
  printed   \* history: what main printed, as [idx, n]

vars == <<pc, i, pids, child, left, pipe, writers, readEnd, found, printed>>
kernel == <<child, left, pipe, writers>>

Cmds == 0..(N - 1)
Table == 0..(MAX - 1)
Output == [idx : Cmds, n : 0..BUFFER]

TypeOK ==
  /\ pc \in {"fork", "close", "wait", "read", "exited", "undefined"}
  /\ i \in 0..N
  /\ pids \in [Table -> -1..N]
  /\ child \in [Cmds -> {"none", "running", "zombie", "reaped"}]
  /\ left \in [Cmds -> 0..MaxOut]
  /\ pipe \in [Cmds -> 0..Capacity]
  /\ writers \in [Cmds -> SUBSET {"main", "child"}]
  /\ readEnd \subseteq Cmds
  /\ found \in -1..(N - 1)
  /\ printed \in Seq(Output)

Init ==
  /\ pc = "fork" /\ i = 0 /\ found = -1
  /\ pids = [j \in Table |-> 0]
  /\ child = [j \in Cmds |-> "none"]
  /\ left \in [Cmds -> 0..MaxOut]
  /\ pipe = [j \in Cmds |-> 0]
  /\ writers = [j \in Cmds |-> {}]
  /\ readEnd = {} /\ printed = <<>>

(* pipe() and fork().  The child's dup2, close and exec have no effect on  *)
(* others and are part of its start: it keeps only the write end.          *)
fork ==
  /\ pc = "fork" /\ i < N /\ i < MAX
  /\ readEnd' = readEnd \cup {i}
  /\ \/ /\ pids' = [pids EXCEPT ![i] = i + 1]
        /\ child' = [child EXCEPT ![i] = "running"]
        /\ writers' = [writers EXCEPT ![i] = {"main", "child"}]
     \/ /\ "fork" \in Faults
        /\ pids' = [pids EXCEPT ![i] = -1]
        /\ writers' = [writers EXCEPT ![i] = {"main"}]
        /\ UNCHANGED child
  /\ pc' = "close"
  /\ UNCHANGED <<i, left, pipe, found, printed>>

(* Mutant: main keeps the write end.                                       *)
close_omitted ==
  /\ pc = "close" /\ pc' = "fork"
  /\ i' = i + 1
  /\ UNCHANGED <<pids, child, left, pipe, writers, readEnd, found, printed>>

close ==
  /\ pc = "close" /\ pc' = "fork"
  /\ writers' = [writers EXCEPT ![i] = @ \ {"main"}]
  /\ i' = i + 1
  /\ UNCHANGED <<pids, child, left, pipe, readEnd, found, printed>>

forked_all ==
  /\ pc = "fork" /\ (i >= N \/ i >= MAX)
  /\ pc' = "wait" /\ i' = 0
  /\ UNCHANGED <<pids, kernel, readEnd, found, printed>>

(* The first j < argc - 1 whose pids[j] is the pid.  From MAX on the scan  *)
(* reads past the array and anything may match there.                      *)
Scan(pid) ==
  LET match == {j \in Table : j < N /\ pids[j] = pid} IN
  IF match # {} THEN {j \in match : \A k \in match : j <= k}
  ELSE {-1} \cup {j \in Cmds : j >= MAX}

(* waitpid(-1): any child that ended, or -1 when there are no children.    *)
waitpid ==
  /\ pc = "wait" /\ i < N
  /\ \/ \E j \in Cmds :
          /\ child[j] = "zombie"
          /\ child' = [child EXCEPT ![j] = "reaped"]
          /\ found' \in Scan(j + 1)
     \/ /\ \A j \in Cmds : child[j] \notin {"running", "zombie"}
        /\ found' \in Scan(-1)
        /\ UNCHANGED child
  /\ pc' = IF found' \in Table THEN "read" ELSE "undefined"
  /\ UNCHANGED <<i, pids, left, pipe, writers, readEnd, printed>>

(* Mutant: the read uses the loop's index, as it would without the inner i. *)
read_outer_i ==
  LET n == IF pipe[i] < BUFFER THEN pipe[i] ELSE BUFFER IN
  /\ pc = "read" /\ (pipe[i] > 0 \/ writers[i] = {})
  /\ printed' = Append(printed, [idx |-> i, n |-> n])
  /\ pipe' = [pipe EXCEPT ![i] = @ - n]
  /\ readEnd' = readEnd \ {i}
  /\ pc' = "wait" /\ i' = i + 1
  /\ UNCHANGED <<pids, child, left, writers, found>>

(* One read() of the pipe, printed and closed.  A read end that is closed  *)
(* already gives nothing; an empty pipe somebody may write to blocks.      *)
read ==
  LET n == IF found \notin readEnd THEN 0
           ELSE IF pipe[found] < BUFFER THEN pipe[found] ELSE BUFFER IN
  /\ pc = "read" /\ (found \in readEnd => pipe[found] > 0 \/ writers[found] = {})
  /\ printed' = Append(printed, [idx |-> found, n |-> n])
  /\ pipe' = [pipe EXCEPT ![found] = @ - n]
  /\ readEnd' = readEnd \ {found}
  /\ pc' = "wait" /\ i' = i + 1
  /\ UNCHANGED <<pids, child, left, writers, found>>

exit ==
  /\ pc = "wait" /\ i = N
  /\ pc' = "exited"
  /\ UNCHANGED <<i, pids, kernel, readEnd, found, printed>>

(* A command writes its output and ends.                                   *)
Command(j) ==
  /\ child[j] = "running"
  /\ \/ /\ left[j] > 0 /\ pipe[j] < Capacity
        /\ left' = [left EXCEPT ![j] = @ - 1]
        /\ pipe' = [pipe EXCEPT ![j] = @ + 1]
        /\ UNCHANGED <<child, writers>>
     \/ /\ left[j] = 0
        /\ child' = [child EXCEPT ![j] = "zombie"]
        /\ writers' = [writers EXCEPT ![j] = @ \ {"child"}]
        /\ UNCHANGED <<left, pipe>>
  /\ UNCHANGED <<pc, i, pids, readEnd, found, printed>>

Main == fork \/ close \/ forked_all \/ waitpid \/ read \/ exit

Finished == pc \in {"exited", "undefined"} /\ UNCHANGED vars

Next == Main \/ (\E j \in Cmds : Command(j)) \/ Finished

Spec == Init /\ [][Next]_vars

(* The scheduler runs main and every command.                              *)
FairSpec == Spec /\ WF_vars(Main) /\ \A j \in Cmds : WF_vars(Command(j))

-----------------------------------------------------------------------------
(* When main returns, every child that was started has been reaped, and    *)
(* its output printed exactly once under the index of its command, all of  *)
(* it or the BUFFER bytes that one read() takes; fork() failures of other  *)
(* commands do not disturb it.                                             *)
EveryChildPrinted ==
  pc = "exited" => \A j \in Cmds : child[j] # "none" =>
    /\ child[j] = "reaped"
    /\ \E a \in DOMAIN printed :
         /\ \A b \in DOMAIN printed : printed[b].idx = j <=> a = b
         /\ pipe[j] = 0 \/ printed[a].n = BUFFER

(* If every command's output fits in its pipe, main returns: no wait and   *)
(* no read blocks for ever and no surplus wait finds an unknown pid.  With *)
(* more output waitpid() and the command wait for each other.              *)
Terminates == (\A j \in Cmds : left[j] <= Capacity) => <>(pc = "exited")
=============================================================================
