----------------------------- MODULE MiniPipeline -----------------------------
(***************************************************************************)
(* projects/ipc/mini-pipeline: run() connects two shell commands by a pipe *)
(* and waits for both.  The pipe reports end of file only when no process  *)
(* holds its write end, and SIGPIPE only when none holds its read end, so  *)
(* what matters is which of the three processes has closed which end.      *)
(***************************************************************************)
EXTENDS Naturals

CONSTANTS
  Capacity,  \* bytes the pipe holds
  MaxOut,    \* bound: bytes cmd1 writes
  PipelineFaults     \* the calls that may fail

ASSUME PipelineAssumption ==
  /\ Capacity \in Nat \ {0} /\ MaxOut \in Nat
  /\ PipelineFaults \subseteq {"pipe", "fork", "fork2"}

VARIABLES
  pipePc,       \* where run() is
  cmd1,     \* state of the first child
  cmd2,     \* state of the second child
  writers,  \* the processes that hold pipefd[1] or its copy on stdout
  readers,  \* the processes that hold pipefd[0] or its copy on stdin
  left,     \* bytes cmd1 still has to write
  pipe,     \* bytes in the pipe
  taken,    \* bytes cmd2 has read
  sawEof    \* cmd2 has read end of file

pipelineVars == <<pipePc, cmd1, cmd2, writers, readers, left, pipe, taken, sawEof>>
data == <<left, pipe, taken, sawEof>>

Child == {"none", "forked", "running", "zombie", "reaped"}

PipelineTypeOK ==
  /\ pipePc \in {"pipe", "fork", "fork2", "close", "wait", "wait2", "returned", "exited"}
  /\ cmd1 \in Child /\ cmd2 \in Child
  /\ writers \subseteq {"run", "cmd1", "cmd2"} /\ readers \subseteq {"run", "cmd1", "cmd2"}
  /\ left \in 0..MaxOut /\ pipe \in 0..Capacity /\ taken \in 0..MaxOut
  /\ sawEof \in BOOLEAN

PipelineInit ==
  /\ pipePc = "pipe" /\ cmd1 = "none" /\ cmd2 = "none"
  /\ writers = {} /\ readers = {}
  /\ left \in 0..MaxOut /\ pipe = 0 /\ taken = 0 /\ sawEof = FALSE

(* The program is started once more.                                       *)
pipeline_main ==
  /\ pipePc' = "pipe" /\ cmd1' = "none" /\ cmd2' = "none"
  /\ writers' = {} /\ readers' = {}
  /\ left' \in 0..MaxOut /\ pipe' = 0 /\ taken' = 0 /\ sawEof' = FALSE

(* run(): pipe(), or exit(1).                                              *)
run_pipe ==
  /\ pipePc = "pipe"
  /\ \/ pipePc' = "fork" /\ writers' = {"run"} /\ readers' = {"run"}
     \/ "pipe" \in PipelineFaults /\ pipePc' = "exited" /\ UNCHANGED <<writers, readers>>
  /\ UNCHANGED <<cmd1, cmd2, data>>

(* A child starts with copies of both ends.                                *)
run_fork ==
  /\ pipePc = "fork" /\ pipePc' = "fork2"
  /\ \/ /\ cmd1' = "forked"
        /\ writers' = writers \cup {"cmd1"} /\ readers' = readers \cup {"cmd1"}
     \/ "fork" \in PipelineFaults /\ UNCHANGED <<cmd1, writers, readers>>
  /\ UNCHANGED <<cmd2, data>>

run_fork2 ==
  /\ pipePc = "fork2" /\ pipePc' = "close"
  /\ \/ /\ cmd2' = "forked"
        /\ writers' = writers \cup {"cmd2"} /\ readers' = readers \cup {"cmd2"}
     \/ "fork2" \in PipelineFaults /\ UNCHANGED <<cmd2, writers, readers>>
  /\ UNCHANGED <<cmd1, data>>

(* Mutant: run() keeps its write end.                                      *)
run_close_read_only ==
  /\ pipePc = "close" /\ pipePc' = "wait"
  /\ readers' = readers \ {"run"}
  /\ UNCHANGED <<cmd1, cmd2, writers, data>>

run_close ==
  /\ pipePc = "close" /\ pipePc' = "wait"
  /\ writers' = writers \ {"run"} /\ readers' = readers \ {"run"}
  /\ UNCHANGED <<cmd1, cmd2, data>>

(* waitpid(pid) with the result of the first fork(): a pid of -1 means any *)
(* child, and with no children the call fails at once.                     *)
run_wait ==
  /\ pipePc = "wait" /\ pipePc' = "wait2"
  /\ \/ cmd1 = "zombie" /\ cmd1' = "reaped" /\ UNCHANGED cmd2
     \/ cmd1 = "none" /\ cmd2 = "zombie" /\ cmd2' = "reaped" /\ UNCHANGED cmd1
     \/ cmd1 = "none" /\ cmd2 = "none" /\ UNCHANGED <<cmd1, cmd2>>
  /\ UNCHANGED <<writers, readers, data>>

(* By now cmd1 has been waited for, so -1 can only find no children.       *)
run_wait2 ==
  /\ pipePc = "wait2" /\ pipePc' = "returned"
  /\ \/ cmd2 = "zombie" /\ cmd2' = "reaped"
     \/ cmd2 \in {"none", "reaped"} /\ UNCHANGED cmd2
  /\ UNCHANGED <<cmd1, writers, readers, data>>

(* Mutant: the write end is not moved to stdout before it is closed.       *)
cmd1_starts_no_dup2 ==
  /\ cmd1 = "forked" /\ cmd1' = "running"
  /\ readers' = readers \ {"cmd1"} /\ writers' = writers \ {"cmd1"}
  /\ UNCHANGED <<pipePc, cmd2, data>>

(* The first child keeps the write end as stdout, closes the rest, execs.  *)
cmd1_starts ==
  /\ cmd1 = "forked" /\ cmd1' = "running"
  /\ readers' = readers \ {"cmd1"}
  /\ UNCHANGED <<pipePc, cmd2, writers, data>>

(* The second child keeps the read end as stdin.                           *)
cmd2_starts ==
  /\ cmd2 = "forked" /\ cmd2' = "running"
  /\ writers' = writers \ {"cmd2"}
  /\ UNCHANGED <<pipePc, cmd1, readers, data>>

(* cmd1 writes, or is killed by SIGPIPE when nobody can read, or ends.     *)
cmd1_writes ==
  /\ cmd1 = "running" /\ left > 0 /\ readers # {} /\ pipe < Capacity
  /\ left' = left - 1 /\ pipe' = pipe + 1
  /\ UNCHANGED <<pipePc, cmd1, cmd2, writers, readers, taken, sawEof>>

cmd1_ends ==
  /\ cmd1 = "running" /\ (left = 0 \/ readers = {})
  /\ cmd1' = "zombie" /\ writers' = writers \ {"cmd1"}
  /\ UNCHANGED <<pipePc, cmd2, readers, data>>

(* cmd2 reads until end of file; it may also end without reading it all.   *)
cmd2_reads ==
  /\ cmd2 = "running" /\ ~sawEof
  /\ \/ pipe > 0 /\ pipe' = pipe - 1 /\ taken' = taken + 1 /\ UNCHANGED sawEof
     \/ pipe = 0 /\ writers = {} /\ sawEof' = TRUE /\ UNCHANGED <<pipe, taken>>
  /\ UNCHANGED <<pipePc, cmd1, cmd2, writers, readers, left>>

cmd2_ends ==
  /\ cmd2 = "running"
  /\ cmd2' = "zombie" /\ readers' = readers \ {"cmd2"}
  /\ UNCHANGED <<pipePc, cmd1, writers, data>>

run_pipeline == run_pipe \/ run_fork \/ run_fork2 \/ run_close \/ run_wait \/ run_wait2

PipelineFinished == pipePc \in {"returned", "exited"} /\ UNCHANGED pipelineVars

PipelineNext ==
  \/ run_pipeline \/ cmd1_starts \/ cmd1_writes \/ cmd1_ends
  \/ cmd2_starts \/ cmd2_reads \/ cmd2_ends \/ PipelineFinished

PipelineSpec == PipelineInit /\ [][PipelineNext]_pipelineVars

-----------------------------------------------------------------------------
(* cmd2 sees the end of its input only when cmd1 has ended and every byte  *)
(* it wrote was read: no process holds a write end it should have closed   *)
(* and none closed the one it needs.                                       *)
EofMeansComplete ==
  sawEof => cmd1 \notin {"forked", "running"} /\ pipe = 0
            /\ (cmd1 \in {"zombie", "reaped"} => left = 0)
=============================================================================
