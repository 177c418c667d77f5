----------------------------- MODULE IoRedirector -----------------------------
(***************************************************************************)
(* projects/ipc/io-redirector: run() forks a child that opens a file, puts *)
(* it in the place of stdin or stdout and runs a command.                  *)
(***************************************************************************)
EXTENDS Integers, Sequences, SequencesExt

CONSTANT RedirectFaults  \* calls that may fail

ASSUME RedirectAssumption == RedirectFaults \subseteq {"redirect fork", "open"}

VARIABLES
  rdPc,     \* where run() is
  rdChild,  \* its child
  op,       \* the operator
  fds,      \* descriptors 0 to 3 of the child
  given,    \* descriptors the program was started with
  file,     \* content of the file: the old one, what the command wrote
  was       \* content of the file when the program was started

redirectVars == <<rdPc, rdChild, op, fds, given, file, was>>

Absent == <<"absent">>
Target(o) == IF o = "in" THEN 0 ELSE 1
fd == CHOOSE d \in 0..3 : given[d] = "closed" /\ \A e \in 0..d - 1 : given[e] # "closed"

RedirectInit ==
  /\ rdPc = "returned" /\ rdChild = "none" /\ op = "in"
  /\ given = [d \in 0..3 |-> "closed"] /\ fds = given
  /\ file \in {Absent, <<"old">>} /\ was = file

(* The program starts, perhaps with stdout closed; parse_op knows three     *)
(* operators.                                                              *)
redirect_main ==
  /\ op' \in {"out", "out_a", "in", "UNKNOWN"}
  /\ given' \in {[d \in 0..3 |-> IF d = 3 \/ d = c THEN "closed" ELSE "inherited"] : c \in {1, 3}}
  /\ fds' = given' /\ was' = file /\ rdChild' = "none"
  /\ rdPc' = IF op' = "UNKNOWN" THEN "returned" ELSE "fork"
  /\ UNCHANGED file

redirect_fork ==
  /\ rdPc = "fork"
  /\ \/ rdPc' = "waitpid" /\ rdChild' = "forked"
     \/ "redirect fork" \in RedirectFaults /\ rdPc' = "returned" /\ UNCHANGED rdChild
  /\ UNCHANGED <<op, fds, given, file, was>>

(* Mutant: O_TRUNC for out_a as well.                                      *)
Opened_truncated == IF op = "in" THEN file ELSE <<>>

(* What open() makes of the file.                                          *)
Opened == CASE op = "out" -> <<>> [] op = "in" -> file
            [] op = "out_a" -> IF file = Absent THEN <<>> ELSE file

redirect_open ==
  /\ rdChild = "forked"
  /\ \/ /\ ~(op = "in" /\ file = Absent)
        /\ rdChild' = "opened" /\ file' = Opened /\ fds' = [fds EXCEPT ![fd] = "file"]
     \/ /\ "open" \in RedirectFaults \/ (op = "in" /\ file = Absent)
        /\ rdChild' = "zombie" /\ UNCHANGED <<file, fds>>
  /\ UNCHANGED <<rdPc, op, given, was>>

(* Mutant: the copy in the target's place is the one that is closed.       *)
redirect_dup2_swapped ==
  /\ rdChild = "opened" /\ rdChild' = "running"
  /\ fds' = [fds EXCEPT ![Target(op)] = "closed"]
  /\ UNCHANGED <<rdPc, op, given, file, was>>

(* dup2(), close() and execl().                                            *)
redirect_dup2 ==
  /\ rdChild = "opened" /\ rdChild' = "running"
  /\ fds' = [fds EXCEPT ![Target(op)] = fds[fd], ![fd] = "closed"]
  /\ UNCHANGED <<rdPc, op, given, file, was>>

(* The command writes when its stdout is the file, and ends.               *)
redirect_cmd ==
  /\ rdChild = "running" /\ rdChild' = "zombie"
  /\ file' \in {file} \cup (IF op # "in" /\ fds[1] = "file" THEN {Append(file, "new")} ELSE {})
  /\ UNCHANGED <<rdPc, op, fds, given, was>>

redirect_waitpid ==
  /\ rdPc = "waitpid" /\ rdChild = "zombie"
  /\ rdPc' = "returned" /\ rdChild' = "reaped"
  /\ UNCHANGED <<op, fds, given, file, was>>

redirect == redirect_fork \/ redirect_open \/ redirect_dup2 \/ redirect_cmd \/ redirect_waitpid

RedirectNext == (rdPc = "returned" /\ redirect_main) \/ redirect
RedirectSpec == RedirectInit /\ [][RedirectNext]_redirectVars

-----------------------------------------------------------------------------
RedirectTypeOK ==
  /\ rdPc \in {"fork", "waitpid", "returned"} /\ op \in {"out", "out_a", "in", "UNKNOWN"}
  /\ rdChild \in {"none", "forked", "opened", "running", "zombie", "reaped"}
  /\ fds \in [0..3 -> {"closed", "inherited", "file"}] /\ given \in [0..3 -> {"closed", "inherited"}]
  /\ file \in Seq({"old", "new", "absent"}) /\ was \in Seq({"old", "new", "absent"})

(* The command runs with the file in the place of stdin or stdout, every   *)
(* other descriptor as it was and none left over.  Excepted is a program   *)
(* started with that descriptor closed: open() then returns the target     *)
(* itself, and close() undoes the redirection.                             *)
Redirected ==
  rdChild = "running" /\ given[Target(op)] = "inherited" =>
    fds = [given EXCEPT ![Target(op)] = "file"]

(* Only "out", and only once its open() succeeded, may lose what the file  *)
(* held; with every other operator and outcome the old content stays in    *)
(* front of what the command adds.                                         *)
FileKept ==
  \/ op = "out" /\ (fds # given \/ given[Target(op)] = "closed")
  \/ IsPrefix(IF was = Absent /\ file # Absent THEN <<>> ELSE was, file)
=============================================================================
