----------------------------- MODULE ShellProofs -----------------------------
(***************************************************************************)
(* The mini-shell session with mini-pipeline and io-redirector, for every  *)
(* script, every size of the buffers and of the pipe, and every set of     *)
(* calls that may fail.  Each program has an inductive invariant of its    *)
(* own; the session joins them.                                            *)
(***************************************************************************)
EXTENDS ShellSession, SequenceTheorems, TLAPS

(* A child's exit() has moved the position of the script.                  *)
Moved == stdin = "file" /\ \E m \in 1..next - 1 : script[m].cmd = "missing"

(* stdio continues where its buffer ends, unless the position was moved.   *)
ReadAhead == next <= filled + 1 /\ (offset = filled + 1 \/ Moved)

(* The line that runs is the last one that was read.                       *)
LineRead ==
  shPc \in {"tokenize", "execute", "pwd", "waitpid"} =>
    line = NoLine \/ (next > 1 /\ line = script[next - 1])

ChildWaitedFor == (shPc # "waitpid" => child = "none") /\ (child = "stopped" => line.cmd = "program")

ShellInv == ShellTypeOK /\ LineFits /\ ReadAhead /\ LineRead /\ ChildWaitedFor

(* How far run() has come says which children there are.                   *)
PipeChildren ==
  /\ pipePc \in {"pipe", "fork"} => cmd1 = "none" /\ cmd2 = "none"
  /\ pipePc = "fork2" => cmd2 = "none"
  /\ pipePc = "wait2" => cmd1 \in {"none", "reaped"} /\ (cmd1 = "none" => cmd2 \in {"none", "reaped"})
  /\ pipePc \in {"returned", "exited"} => {cmd1, cmd2} \subseteq {"none", "reaped"}

(* Which process needs which end of the pipe, and what happened to the     *)
(* bytes cmd1 had to write.                                                *)
PipeEnds ==
  /\ cmd1 \in {"forked", "running"} => "cmd1" \in writers
  /\ cmd2 \in {"forked", "running"} => "cmd2" \in readers
  /\ pipePc \in {"fork", "fork2", "close"} => "run" \in readers
  /\ cmd1 \in {"zombie", "reaped"} => left = 0 \/ readers = {}
  /\ sawEof => cmd2 \in {"running", "zombie", "reaped"}
  /\ left + pipe + taken <= MaxOut

PipeInv == PipelineTypeOK /\ PipeChildren /\ PipeEnds /\ EofMeansComplete

(* What run() and its child have done with descriptors and file.           *)
RedirectSteps ==
  /\ rdChild \in Alive => rdPc = "waitpid"
  /\ rdPc = "fork" => rdChild = "none"
  /\ rdPc # "returned" => op # "UNKNOWN" /\ given[0] = "inherited" /\ given[3] = "closed"
  /\ rdPc = "fork" \/ rdChild = "forked" => fds = given /\ file = was
  /\ rdChild = "opened" => fds = [given EXCEPT ![fd] = "file"]

RedirectInv == RedirectTypeOK /\ RedirectSteps /\ Redirected /\ FileKept

(* A program that does not run has no child that runs.                     *)
NoOrphans ==
  /\ ~Runs("mini-pipeline") => {cmd1, cmd2} \cap Alive = {}
  /\ ~Runs("io-redirector") => rdChild \notin Alive

IInv == ShellInv /\ PipeInv /\ RedirectInv /\ NoOrphans

-----------------------------------------------------------------------------
(* The shell.                                                              *)

(* The invariant of the shell holds at its first prompt.                   *)
LEMMA ShellStarts == ASSUME ShellInit PROVE ShellInv
<1>1. PICK m \in 0..MaxLines : script \in [1..m -> Lines]
  BY DEF ShellInit, BoundedSeq, SeqOf
<1>2. script \in Seq(Lines) /\ Len(script) \in Nat
  <2>0. MaxLines \in Nat
    BY ShellAssumption
  <2>1. m \in Nat
    BY <1>1, <2>0
  <2>2. script \in Seq(Lines)
    BY <1>1, <2>1, SeqDef
  <2> QED  BY <2>2, LenProperties
<1>3. /\ offset \in 1..Len(script) + 1 /\ filled \in 0..Len(script) /\ next \in 1..Len(script) + 1
      /\ position \in Nat /\ size \in Nat /\ line \in Lines \cup {NoLine}
  BY <1>2 DEF ShellInit
<1>4. ShellTypeOK
  BY <1>2, <1>3 DEF ShellInit, ShellTypeOK
<1>5. LineFits /\ ReadAhead /\ LineRead /\ ChildWaitedFor
  BY DEF ShellInit, LineFits, ReadAhead, LineRead, ChildWaitedFor
<1> QED  BY <1>4, <1>5 DEF ShellInv

(* readline keeps its place in the buffers: position behind the characters *)
(* stored, next behind the lines returned.                                 *)
LEMMA ReadlineKeeps ==
  ASSUME ShellInv, interpret \/ fill \/ readline_stores \/ readline_returns
  PROVE  ShellInv'
<1> USE DEF input, lineVars
<1>0. script \in Seq(Lines) /\ Len(script) \in Nat /\ BUFFER_SIZE \in Nat \ {0}
  BY ShellAssumption, LenProperties DEF ShellInv, ShellTypeOK
<1>1. /\ Len(script) \in Nat /\ script \in Seq(Lines) /\ BUFFER_SIZE \in Nat \ {0}
      /\ offset \in 1..Len(script) + 1 /\ filled \in 0..Len(script) /\ next \in 1..Len(script) + 1
      /\ position \in Nat /\ size \in Nat
  BY <1>0 DEF ShellInv, ShellTypeOK
<1>2. CASE interpret
  <2>1. ShellTypeOK' /\ LineFits'
    BY <1>1, <1>2 DEF interpret, ShellInv, ShellTypeOK, LineFits
  <2>2. ReadAhead'
    BY <1>2 DEF interpret, ShellInv, ReadAhead, Moved
  <2>3. LineRead' /\ ChildWaitedFor'
    BY <1>2 DEF interpret, ShellInv, LineRead, ChildWaitedFor
  <2> QED  BY <2>1, <2>2, <2>3 DEF ShellInv
<1>3. CASE fill
  <2>1. offset' \in 1..Len(script) + 1 /\ filled' \in 0..Len(script) /\ next' \in 1..Len(script) + 1
    BY <1>1, <1>3 DEF fill, ShellInv, ShellTypeOK
  <2>5. eof' \in BOOLEAN
    BY <1>3, Zenon DEF fill, ShellInv, ShellTypeOK
  <2>2. ShellTypeOK' /\ LineFits'
    BY <1>3, <2>1, <2>5 DEF fill, ShellInv, ShellTypeOK, LineFits
  <2>3. ReadAhead'
    BY <1>1, <1>3 DEF fill, ShellInv, ReadAhead, Moved, ShellTypeOK
  <2>4. LineRead' /\ ChildWaitedFor'
    BY <1>3 DEF fill, ShellInv, LineRead, ChildWaitedFor
  <2> QED  BY <2>2, <2>3, <2>4 DEF ShellInv
<1>4. CASE readline_stores
  <2>1. position' \in Nat /\ size' \in Nat /\ position' < size'
    BY <1>1, <1>4 DEF readline_stores, Grown, ShellInv, LineFits
  <2>2. ShellTypeOK' /\ LineFits'
    BY <1>4, <2>1 DEF readline_stores, ShellInv, ShellTypeOK, LineFits
  <2>3. ReadAhead'
    BY <1>4 DEF readline_stores, ShellInv, ReadAhead, Moved
  <2>4. LineRead' /\ ChildWaitedFor'
    BY <1>4 DEF readline_stores, ShellInv, LineRead, ChildWaitedFor
  <2> QED  BY <2>2, <2>3, <2>4 DEF ShellInv
<1>5. CASE readline_returns
  <2>1. next' \in 1..Len(script) + 1 /\ line' \in Lines \cup {NoLine}
    BY <1>1, <1>5 DEF readline_returns
  <2>2. ShellTypeOK' /\ LineFits'
    BY <1>5, <2>1 DEF readline_returns, ShellInv, ShellTypeOK, LineFits
  <2>3. ReadAhead'
    BY <1>1, <1>5 DEF readline_returns, ShellInv, ReadAhead, Moved
  <2>4. LineRead'
    BY <1>1, <1>5 DEF readline_returns, LineRead
  <2>5. ChildWaitedFor'
    BY <1>5 DEF readline_returns, ShellInv, ChildWaitedFor
  <2> QED  BY <2>2, <2>3, <2>4, <2>5 DEF ShellInv
<1> QED  BY <1>2, <1>3, <1>4, <1>5

(* A step that leaves the script, what was read of it and the line alone   *)
(* keeps the invariant if it keeps the types and knows where the child is. *)
LEMMA LineKept ==
  ASSUME ShellInv, ShellTypeOK', ChildWaitedFor', shPc' # "readline",
         UNCHANGED <<stdin, script, input, line>>,
         shPc' \in {"prompt", "exited", "undefined"} \/ shPc \in {"tokenize", "execute", "pwd", "waitpid"}
  PROVE  ShellInv'
<1>1. ReadAhead'
  BY DEF ShellInv, ReadAhead, Moved, input
<1>2. LineRead'
  BY DEF ShellInv, LineRead, input
<1> QED  BY <1>1, <1>2 DEF ShellInv, LineFits

(* The rest of interpret's loop.                                           *)
LEMMA LoopKeeps ==
  ASSUME ShellInv, tokenize \/ execute \/ builtin_pwd_grows \/ waitpid
  PROVE  ShellInv'
<1>1. size \in Nat /\ BUFFER_SIZE \in Nat \ {0} /\ position \in Nat
  BY ShellAssumption DEF ShellInv, ShellTypeOK
<1>2. CASE tokenize
  <2>1. ShellTypeOK'
    BY <1>2 DEF tokenize, ShellInv, ShellTypeOK, input, lineVars
  <2>2. ChildWaitedFor'
    BY <1>2 DEF tokenize, ShellInv, ChildWaitedFor, input, lineVars
  <2> QED  BY <1>2, <2>1, <2>2, LineKept DEF tokenize, lineVars
<1>3. CASE execute
  <2>1. shPc' \in {"prompt", "exited", "pwd", "waitpid"} /\ size' \in Nat /\ cwd' \in {"short", "long"}
    BY <1>1, <1>3 DEF execute, builtin_cd, builtin_help, builtin_exit, builtin_pwd, bin_exec, ShellInv, ShellTypeOK
  <2>2. child' \in {child, "forked"} /\ (shPc' # "waitpid" => child' = child)
    BY <1>3 DEF execute, builtin_cd, builtin_help, builtin_exit, builtin_pwd, bin_exec
  <2>3. ShellTypeOK'
    BY <1>3, <2>1, <2>2 DEF execute, ShellInv, ShellTypeOK, input
  <2>4. ChildWaitedFor'
    BY <1>3, <2>2 DEF execute, ShellInv, ChildWaitedFor
  <2> QED  BY <1>3, <2>1, <2>3, <2>4, LineKept DEF execute
<1>4. CASE builtin_pwd_grows
  <2>1. ShellTypeOK'
    BY <1>1, <1>4 DEF builtin_pwd_grows, ShellInv, ShellTypeOK, input
  <2>2. ChildWaitedFor'
    BY <1>4 DEF builtin_pwd_grows, ShellInv, ChildWaitedFor
  <2> QED  BY <1>4, <2>1, <2>2, LineKept DEF builtin_pwd_grows
<1>5. CASE waitpid
  <2>1. ShellTypeOK' /\ ChildWaitedFor'
    BY <1>5 DEF waitpid, ShellInv, ShellTypeOK, ChildWaitedFor, input, lineVars
  <2> QED  BY <1>5, <2>1, LineKept DEF waitpid, lineVars
<1> QED  BY <1>2, <1>3, <1>4, <1>5

(* The child.  Its exit() moves the position of the script only when the   *)
(* line of a command that is missing has been read.                        *)
LEMMA ChildKeeps ==
  ASSUME ShellInv,
         child_signals \/ child_execvp \/ child_ends \/ (line.cmd = "program" /\ child_stops) \/ sigint
  PROVE  ShellInv'
<1>1. shPc = "waitpid" /\ shPc' = shPc
  BY DEF child_signals, child_execvp, child_ends, child_stops, sigint, ShellInv, ChildWaitedFor
<1>2. child' \in {"default", "running", "stopped", "zombie"} /\ (child' = "stopped" => line.cmd = "program")
  BY DEF child_signals, child_execvp, child_ends, child_stops, sigint
<1>3. UNCHANGED <<stdin, script, filled, next, eof, position, size, line, cwd>>
  BY DEF child_signals, child_execvp, child_ends, child_stops, sigint, input, lineVars
<1>4. ChildWaitedFor'
  BY <1>1, <1>2, <1>3 DEF ChildWaitedFor
<1>5. CASE offset' = offset
  <2>1. ShellTypeOK'
    BY <1>1, <1>2, <1>3, <1>5 DEF ShellInv, ShellTypeOK
  <2> QED  BY <1>1, <1>3, <1>4, <1>5, <2>1, LineKept DEF input
<1>6. CASE offset' # offset
  <2>1. line.cmd = "missing" /\ stdin = "file" /\ offset' = offset - (filled - next + 1) /\ offset' >= 1
    BY <1>6 DEF child_signals, child_execvp, child_ends, child_stops, sigint, input
  <2>2. /\ offset \in 1..Len(script) + 1 /\ filled \in 0..Len(script) /\ next \in 1..Len(script) + 1
        /\ Len(script) \in Nat
    BY DEF ShellInv, ShellTypeOK
  <2>3. offset' \in 1..Len(script) + 1
    BY <2>1, <2>2 DEF ShellInv, ReadAhead
  <2>4. ShellTypeOK'
    BY <1>1, <1>2, <1>3, <2>3 DEF ShellInv, ShellTypeOK
  <2>5. next > 1 /\ script[next - 1].cmd = "missing"
    <3>1. NoLine.cmd = ""
      BY DEF NoLine
    <3> QED  BY <1>1, <2>1, <3>1 DEF ShellInv, LineRead
  <2>6. Moved'
    BY <1>3, <2>1, <2>2, <2>5 DEF Moved
  <2>7. ReadAhead'
    BY <1>3, <2>6 DEF ShellInv, ReadAhead
  <2>8. LineRead' /\ LineFits'
    BY <1>1, <1>3 DEF ShellInv, LineRead, LineFits
  <2> QED  BY <1>4, <2>4, <2>7, <2>8 DEF ShellInv
<1> QED  BY <1>5, <1>6

-----------------------------------------------------------------------------
(* The pipeline.                                                           *)

(* The invariant of the pipeline holds when the program starts: the first  *)
(* time, and whenever the shell runs it again.                             *)
LEMMA PipelineStarts ==
  /\ PipelineInit => PipeInv
  /\ pipeline_main => PipeInv'
<1>1. MaxOut \in Nat /\ Capacity \in Nat
  BY PipelineAssumption
<1>2. ASSUME PipelineInit PROVE PipeInv
  <2>0. sawEof \in BOOLEAN
    BY <1>2, Zenon DEF PipelineInit
  <2>1. PipelineTypeOK
    BY <1>1, <1>2, <2>0 DEF PipelineInit, PipelineTypeOK, Child
  <2> QED
    BY <1>1, <1>2, <2>1 DEF PipelineInit, PipeInv, PipeChildren, PipeEnds, EofMeansComplete
<1>3. ASSUME pipeline_main PROVE PipeInv'
  <2>0. sawEof' \in BOOLEAN /\ ~sawEof'
    BY <1>3, Zenon DEF pipeline_main
  <2>1. PipelineTypeOK'
    BY <1>1, <1>3, <2>0 DEF pipeline_main, PipelineTypeOK, Child
  <2>2. left' + pipe' + taken' <= MaxOut
    <3>1. left' \in 0..MaxOut /\ pipe' = 0 /\ taken' = 0
      BY <1>3, Zenon DEF pipeline_main
    <3>2. \A l \in 0..MaxOut : l + 0 + 0 <= MaxOut
      BY <1>1
    <3> QED  BY <3>1, <3>2, Zenon
  <2>3. PipeChildren'
    BY <1>3 DEF pipeline_main, PipeChildren
  <2>4. PipeEnds' /\ EofMeansComplete'
    <3>1. pipePc' = "pipe" /\ cmd1' = "none" /\ cmd2' = "none"
      BY <1>3 DEF pipeline_main
    <3> QED  BY <2>0, <2>2, <3>1 DEF PipeEnds, EofMeansComplete
  <2> QED  BY <2>1, <2>3, <2>4 DEF PipeInv
<1> QED  BY <1>2, <1>3

(* run() keeps the ends of the pipe it has to keep.                        *)
LEMMA RunKeeps ==
  ASSUME PipeInv, run_pipeline PROVE PipeInv'
<1>1. /\ left' = left /\ pipe' = pipe /\ taken' = taken /\ sawEof' = sawEof
  BY DEF run_pipeline, run_pipe, run_fork, run_fork2, run_close, run_wait, run_wait2, data
<1>2. PipelineTypeOK'
  <2>1. pipePc' \in {"pipe", "fork", "fork2", "close", "wait", "wait2", "returned", "exited"}
    BY DEF run_pipeline, run_pipe, run_fork, run_fork2, run_close, run_wait, run_wait2
  <2>2. cmd1' \in Child /\ cmd2' \in Child
    BY DEF run_pipeline, run_pipe, run_fork, run_fork2, run_close, run_wait, run_wait2,
           PipeInv, PipelineTypeOK, Child
  <2>3. writers' \subseteq {"run", "cmd1", "cmd2"} /\ readers' \subseteq {"run", "cmd1", "cmd2"}
    BY DEF run_pipeline, run_pipe, run_fork, run_fork2, run_close, run_wait, run_wait2, PipeInv, PipelineTypeOK
  <2> QED  BY <1>1, <2>1, <2>2, <2>3 DEF PipeInv, PipelineTypeOK
<1>3. CASE run_pipe
  BY <1>1, <1>2, <1>3 DEF run_pipe, PipeInv, PipeChildren, PipeEnds, EofMeansComplete
<1>4. CASE run_fork
  BY <1>1, <1>2, <1>4 DEF run_fork, PipeInv, PipeChildren, PipeEnds, EofMeansComplete
<1>5. CASE run_fork2
  BY <1>1, <1>2, <1>5 DEF run_fork2, PipeInv, PipeChildren, PipeEnds, EofMeansComplete
<1>6. CASE run_close
  BY <1>1, <1>2, <1>6 DEF run_close, PipeInv, PipeChildren, PipeEnds, EofMeansComplete
<1>7. CASE run_wait
  BY <1>1, <1>2, <1>7 DEF run_wait, PipeInv, PipeChildren, PipeEnds, EofMeansComplete
<1>8. CASE run_wait2
  BY <1>1, <1>2, <1>8 DEF run_wait2, PipeInv, PipeChildren, PipeEnds, EofMeansComplete
<1> QED  BY <1>3, <1>4, <1>5, <1>6, <1>7, <1>8 DEF run_pipeline

(* The two commands start, move bytes and end.                             *)
LEMMA CommandsKeep ==
  ASSUME PipeInv,
         cmd1_starts \/ cmd1_writes \/ cmd1_ends \/ cmd2_starts \/ cmd2_reads \/ cmd2_ends
  PROVE  PipeInv'
<1>1. /\ MaxOut \in Nat /\ Capacity \in Nat
      /\ left \in 0..MaxOut /\ pipe \in 0..Capacity /\ taken \in 0..MaxOut
      /\ left + pipe + taken <= MaxOut
  BY PipelineAssumption DEF PipeInv, PipelineTypeOK, PipeEnds
<1>2. /\ left' \in 0..MaxOut /\ pipe' \in 0..Capacity /\ taken' \in 0..MaxOut
      /\ left' + pipe' + taken' <= MaxOut
  BY <1>1 DEF cmd1_starts, cmd1_writes, cmd1_ends, cmd2_starts, cmd2_reads, cmd2_ends, data
<1>3. sawEof' \in BOOLEAN
  BY Zenon DEF cmd1_starts, cmd1_writes, cmd1_ends, cmd2_starts, cmd2_reads, cmd2_ends, data,
               PipeInv, PipelineTypeOK
<1>4. PipelineTypeOK'
  <2>1. cmd1' \in Child /\ cmd2' \in Child /\ pipePc' = pipePc
    BY DEF cmd1_starts, cmd1_writes, cmd1_ends, cmd2_starts, cmd2_reads, cmd2_ends, PipeInv, PipelineTypeOK, Child
  <2>2. writers' \subseteq {"run", "cmd1", "cmd2"} /\ readers' \subseteq {"run", "cmd1", "cmd2"}
    BY DEF cmd1_starts, cmd1_writes, cmd1_ends, cmd2_starts, cmd2_reads, cmd2_ends, PipeInv, PipelineTypeOK
  <2> QED  BY <1>2, <1>3, <2>1, <2>2 DEF PipeInv, PipelineTypeOK
<1>5. PipeChildren'
  BY DEF cmd1_starts, cmd1_writes, cmd1_ends, cmd2_starts, cmd2_reads, cmd2_ends, PipeInv, PipeChildren
<1>6. PipeEnds' /\ EofMeansComplete'
  <2> USE DEF PipeInv, PipeEnds, EofMeansComplete, data
  <2>1. CASE cmd1_starts  BY <1>2, <2>1 DEF cmd1_starts
  <2>2. CASE cmd1_writes  BY <1>1, <1>2, <2>2 DEF cmd1_writes
  <2>3. CASE cmd1_ends    BY <1>2, <2>3 DEF cmd1_ends
  <2>4. CASE cmd2_starts  BY <1>2, <2>4 DEF cmd2_starts
  <2>5. CASE cmd2_reads
    <3>1. ~sawEof /\ cmd2 = "running" /\ UNCHANGED <<pipePc, cmd1, cmd2, writers, readers, left>>
      BY <2>5 DEF cmd2_reads
    <3>2. CASE sawEof' = sawEof
      BY <1>2, <3>1, <3>2
    <3>3. CASE pipe = 0 /\ writers = {} /\ pipe' = pipe
      BY <1>2, <3>1, <3>3
    <3> QED  BY <2>5, <3>2, <3>3 DEF cmd2_reads
  <2>6. CASE cmd2_ends    BY <1>2, <2>6 DEF cmd2_ends
  <2> QED  BY <2>1, <2>2, <2>3, <2>4, <2>5, <2>6
<1> QED  BY <1>4, <1>5, <1>6 DEF PipeInv

-----------------------------------------------------------------------------
(* The redirector.                                                         *)

(* open() returns stdout's number when the program was started without a   *)
(* stdout, else the first one behind stderr.                               *)
LEMMA FdOpened ==
  ASSUME given \in [0..3 -> {"closed", "inherited"}], given[0] = "inherited", given[3] = "closed"
  PROVE  /\ fd \in 1..3 /\ given[fd] = "closed"
         /\ given[1] = "closed" => fd = 1
<1> DEFINE First(d) == given[d] = "closed" /\ \A e \in 0..d - 1 : given[e] # "closed"
<1>1. \E d \in 0..3 : First(d)
  <2>1. CASE given[1] = "closed"
    BY <2>1, First(1)
  <2>2. CASE given[1] # "closed" /\ given[2] = "closed"
    BY <2>2, First(2)
  <2>3. CASE given[1] # "closed" /\ given[2] # "closed"
    BY <2>3, First(3)
  <2> QED  BY <2>1, <2>2, <2>3
<1>2. fd = CHOOSE d \in 0..3 : First(d)
  BY DEF fd
<1> HIDE DEF First
<1>3. fd \in 0..3 /\ First(fd)
  BY <1>1, <1>2
<1> QED  BY <1>3 DEF First

(* The invariant of the redirector holds before and at every start.        *)
LEMMA RedirectStarts ==
  /\ RedirectInit => RedirectInv
  /\ RedirectTypeOK /\ redirect_main => RedirectInv'
<1>1. ASSUME NEW s \in Seq({"old", "new", "absent"})
      PROVE  IsPrefix(IF s = Absent /\ s # Absent THEN <<>> ELSE s, s)
  BY DEF IsPrefix
<1>2. ASSUME RedirectInit PROVE RedirectInv
  <2>1. file \in Seq({"old", "new", "absent"}) /\ was = file
    <3>1. <<"absent">> \in Seq({"old", "new", "absent"}) /\ <<"old">> \in Seq({"old", "new", "absent"})
      OBVIOUS
    <3>2. file \in {<<"absent">>, <<"old">>} /\ was = file
      BY <1>2 DEF RedirectInit, Absent
    <3> QED  BY <3>1, <3>2
  <2>2. RedirectTypeOK
    BY <1>2, <2>1 DEF RedirectInit, RedirectTypeOK
  <2>3. FileKept
    BY <1>1, <2>1 DEF FileKept
  <2> QED
    BY <1>2, <2>2, <2>3 DEF RedirectInit, RedirectInv, RedirectSteps, Redirected, Alive
<1>3. ASSUME RedirectTypeOK, redirect_main PROVE RedirectInv'
  <2>1. file' \in Seq({"old", "new", "absent"}) /\ was' = file'
    BY <1>3 DEF redirect_main, RedirectTypeOK
  <2>2. PICK c \in {1, 3} : given' = [d \in 0..3 |-> IF d = 3 \/ d = c THEN "closed" ELSE "inherited"]
    BY <1>3 DEF redirect_main
  <2>3. given' \in [0..3 -> {"closed", "inherited"}] /\ given'[0] = "inherited" /\ given'[3] = "closed"
    BY <2>2
  <2>4. fds' = given' /\ rdChild' = "none"
    BY <1>3 DEF redirect_main
  <2>5. RedirectTypeOK'
    BY <1>3, <2>1, <2>3, <2>4 DEF redirect_main, RedirectTypeOK
  <2>6. RedirectSteps'
    BY <1>3, <2>1, <2>3, <2>4 DEF redirect_main, RedirectSteps, Alive
  <2>7. FileKept'
    BY <1>1, <2>1 DEF FileKept
  <2> QED  BY <2>4, <2>5, <2>6, <2>7 DEF RedirectInv, Redirected
<1> QED  BY <1>2, <1>3

(* The child's own steps: the file is opened, put in its place, written.   *)
LEMMA RedirectKeeps ==
  ASSUME RedirectInv, redirect PROVE RedirectInv'
<1> DEFINE Content == {"old", "new", "absent"}
<1>1. /\ file \in Seq(Content) /\ was \in Seq(Content)
      /\ given \in [0..3 -> {"closed", "inherited"}] /\ fds \in [0..3 -> {"closed", "inherited", "file"}]
  BY DEF RedirectInv, RedirectTypeOK
<1>2. Absent \in Seq(Content)
  BY DEF Absent
<1>3. ASSUME rdChild \in Alive
      PROVE  /\ op \in {"in", "out", "out_a"} /\ Target(op) \in 0..1
             /\ given[0] = "inherited" /\ given[3] = "closed"
             /\ fd \in 1..3 /\ given[fd] = "closed" /\ (given[1] = "closed" => fd = 1)
  <2>1. op \in {"in", "out", "out_a"} /\ given[0] = "inherited" /\ given[3] = "closed"
    BY <1>3 DEF RedirectInv, RedirectSteps, RedirectTypeOK
  <2> QED  BY <1>1, <2>1, FdOpened DEF Target
<1> HIDE DEF Content
<1>4. CASE redirect_fork
  <2>1. UNCHANGED <<op, fds, given, file, was>>
    BY <1>4 DEF redirect_fork
  <2>2. RedirectTypeOK'
    BY <1>4, <2>1 DEF redirect_fork, RedirectInv, RedirectTypeOK
  <2>3. RedirectSteps'
    BY <1>4, <2>1 DEF redirect_fork, RedirectInv, RedirectSteps, Alive
  <2>4. Redirected' /\ FileKept'
    BY <1>4, <2>1 DEF redirect_fork, RedirectInv, RedirectSteps, Redirected, FileKept
  <2> QED  BY <2>2, <2>3, <2>4 DEF RedirectInv
<1>5. CASE redirect_open
  <2>1. rdChild \in Alive /\ rdChild = "forked" /\ fds = given /\ file = was
    BY <1>5 DEF redirect_open, RedirectInv, RedirectSteps, Alive
  <2>2. UNCHANGED <<rdPc, op, given, was>> /\ UNCHANGED fd
    BY <1>5 DEF redirect_open, fd
  <2>3. CASE rdChild' = "zombie" /\ UNCHANGED <<file, fds>>
    <3>1. RedirectTypeOK'
      BY <2>2, <2>3 DEF RedirectInv, RedirectTypeOK
    <3>2. RedirectSteps' /\ Redirected' /\ FileKept'
      BY <2>1, <2>2, <2>3 DEF RedirectInv, RedirectSteps, Redirected, FileKept, Alive
    <3> QED  BY <3>1, <3>2 DEF RedirectInv
  <2>4. CASE rdChild' = "opened" /\ file' = Opened /\ fds' = [fds EXCEPT ![fd] = "file"]
    <3>1. file' \in Seq(Content)
      BY <1>1, <1>3, <2>1, <2>4 DEF Opened
    <3>2. fds' \in [0..3 -> {"closed", "inherited", "file"}]
      BY <1>1, <1>3, <2>1, <2>4
    <3>3. RedirectTypeOK'
      BY <2>2, <2>4, <3>1, <3>2 DEF RedirectInv, RedirectTypeOK, Content
    <3>4. RedirectSteps'
      BY <2>1, <2>2, <2>4 DEF RedirectInv, RedirectSteps, Alive
    <3>5. Redirected'
      BY <2>4 DEF Redirected
    <3>6. FileKept'
      <4>1. CASE op = "out"
        BY <1>1, <1>3, <2>1, <2>2, <2>4, <4>1 DEF FileKept
      <4>2. CASE op = "out_a" /\ file = Absent
        <5>1. file' = <<>> /\ was' = Absent /\ <<>> # Absent
          BY <2>1, <2>2, <2>4, <4>2 DEF Opened, Absent
        <5> QED  BY <5>1 DEF FileKept, IsPrefix
      <4>3. CASE op = "in" \/ (op = "out_a" /\ file # Absent)
        <5>1. file' = file /\ was' = file
          BY <2>1, <2>2, <2>4, <4>3 DEF Opened
        <5> QED  BY <1>1, <5>1 DEF FileKept, IsPrefix
      <4> QED  BY <1>3, <2>1, <4>1, <4>2, <4>3
    <3> QED  BY <3>3, <3>4, <3>5, <3>6 DEF RedirectInv
  <2> QED  BY <1>5, <2>3, <2>4 DEF redirect_open
<1>6. CASE redirect_dup2
  <2>1. rdChild \in Alive /\ fds = [given EXCEPT ![fd] = "file"]
    BY <1>6 DEF redirect_dup2, RedirectInv, RedirectSteps, Alive
  <2>2. UNCHANGED <<rdPc, op, given, file, was>> /\ rdChild' = "running"
    BY <1>6 DEF redirect_dup2
  <2>3. fds' = [fds EXCEPT ![Target(op)] = fds[fd], ![fd] = "closed"]
    BY <1>6 DEF redirect_dup2
  <2>4. fds' \in [0..3 -> {"closed", "inherited", "file"}]
    BY <1>1, <1>3, <2>1, <2>3
  <2>5. RedirectTypeOK'
    BY <2>2, <2>4 DEF RedirectInv, RedirectTypeOK
  <2>6. RedirectSteps'
    BY <2>1, <2>2 DEF RedirectInv, RedirectSteps, Alive
  <2>7. given[Target(op)] = "inherited" => fds' = [given EXCEPT ![Target(op)] = "file"]
    <3>1. SUFFICES ASSUME given[Target(op)] = "inherited" PROVE fds' = [given EXCEPT ![Target(op)] = "file"]
      OBVIOUS
    <3>2. Target(op) # fd
      BY <1>3, <2>1, <3>1
    <3>3. \A d \in 0..3 : fds'[d] = [given EXCEPT ![Target(op)] = "file"][d]
      BY <1>1, <1>3, <2>1, <2>3, <3>2
    <3> QED  BY <1>1, <2>4, <3>3
  <2>8. Redirected'
    BY <2>2, <2>7 DEF Redirected
  <2>9. FileKept'
    <3>1. CASE op = "out"
      <4>1. Target(op) = 1
        BY <3>1 DEF Target
      <4>2. given[1] = "closed" \/ fds' # given
        BY <1>1, <2>7, <4>1
      <4> QED  BY <2>2, <3>1, <4>1, <4>2 DEF FileKept
    <3>2. CASE op # "out"
      BY <2>2, <3>2 DEF RedirectInv, FileKept
    <3> QED  BY <3>1, <3>2
  <2> QED  BY <2>5, <2>6, <2>8, <2>9 DEF RedirectInv
<1>7. CASE redirect_cmd
  <2>1. rdChild' = "zombie" /\ UNCHANGED <<rdPc, op, fds, given, was>>
    BY <1>7 DEF redirect_cmd
  <2>2. file' \in {file, Append(file, "new")}
    BY <1>7 DEF redirect_cmd
  <2>3. file' \in Seq(Content)
    BY <1>1, <2>2, SMTT(30) DEF Content
  <2>4. RedirectTypeOK'
    BY <2>1, <2>3 DEF RedirectInv, RedirectTypeOK, Content
  <2>5. rdPc # "fork"
    BY <1>7 DEF redirect_cmd, RedirectInv, RedirectSteps
  <2>6. RedirectSteps' /\ Redirected'
    BY <2>1, <2>5 DEF RedirectInv, RedirectSteps, Redirected, Alive
  <2>7. FileKept'
    <3>1. ASSUME NEW s \in Seq(Content), IsPrefix(s, file) PROVE IsPrefix(s, file')
      BY <1>1, <2>2, <3>1 DEF IsPrefix, Content
    <3>2. IsPrefix(<<>>, file')
      BY <2>3 DEF IsPrefix
    <3>3. IsPrefix(file', file')
      BY <2>3 DEF IsPrefix
    <3>4. CASE op = "out" /\ (fds # given \/ given[Target(op)] = "closed")
      BY <2>1, <3>4 DEF FileKept
    <3>5. CASE was # Absent /\ IsPrefix(was, file)
      BY <1>1, <2>1, <3>1, <3>5 DEF FileKept
    <3>6. CASE was = Absent
      BY <2>1, <3>2, <3>3, <3>6 DEF FileKept
    <3> QED  BY <3>4, <3>5, <3>6 DEF RedirectInv, FileKept
  <2> QED  BY <2>4, <2>6, <2>7 DEF RedirectInv
<1>8. CASE redirect_waitpid
  <2>1. rdChild' = "reaped" /\ rdPc' = "returned" /\ UNCHANGED <<op, fds, given, file, was>>
    BY <1>8 DEF redirect_waitpid
  <2>2. RedirectTypeOK'
    BY <2>1 DEF RedirectInv, RedirectTypeOK
  <2>3. RedirectSteps' /\ Redirected' /\ FileKept'
    BY <2>1 DEF RedirectInv, RedirectSteps, Redirected, FileKept, Alive
  <2> QED  BY <2>2, <2>3 DEF RedirectInv
<1> QED  BY <1>4, <1>5, <1>6, <1>7, <1>8 DEF redirect

-----------------------------------------------------------------------------
(* The session.                                                            *)

(* Steps of the other programs leave an invariant alone.                   *)
LEMMA Untouched ==
  /\ ShellInv /\ UNCHANGED shellVars => ShellInv'
  /\ PipeInv /\ UNCHANGED pipelineVars => PipeInv'
  /\ RedirectInv /\ UNCHANGED redirectVars => RedirectInv'
<1>1. ASSUME ShellInv, UNCHANGED shellVars PROVE ShellInv'
  BY <1>1 DEF shellVars, input, lineVars, ShellInv, ShellTypeOK, LineFits, ReadAhead, Moved, LineRead,
              ChildWaitedFor
<1>2. ASSUME PipeInv, UNCHANGED pipelineVars PROVE PipeInv'
  BY <1>2 DEF pipelineVars, PipeInv, PipelineTypeOK, PipeChildren, PipeEnds, EofMeansComplete
<1>3. ASSUME RedirectInv, UNCHANGED redirectVars PROVE RedirectInv'
  BY <1>3 DEF redirectVars, RedirectInv, RedirectTypeOK, RedirectSteps, Redirected, FileKept, fd
<1> QED  BY <1>1, <1>2, <1>3

(* A program whose main() has returned has waited for its children.        *)
LEMMA ReturnedMeansQuiet ==
  /\ PipeInv /\ pipePc \in {"returned", "exited"} => {cmd1, cmd2} \cap Alive = {}
  /\ RedirectInv /\ rdPc = "returned" => rdChild \notin Alive
BY DEF PipeInv, PipeChildren, RedirectInv, RedirectSteps, Alive

(* The session begins in the invariant.                                    *)
LEMMA InitIInv == ASSUME Init PROVE IInv
<1>1. ShellInv /\ PipeInv /\ RedirectInv
  BY ShellStarts, PipelineStarts, RedirectStarts DEF Init
<1>2. NoOrphans
  BY DEF Init, PipelineInit, RedirectInit, NoOrphans, Alive
<1> QED  BY <1>1, <1>2 DEF IInv

(* Every step of the session keeps it.                                     *)
LEMMA NextIInv == ASSUME IInv, [Next]_vars PROVE IInv'
<1> USE DEF IInv
<1>1. CASE Shell
  <2>1. ShellInv'
    BY <1>1, ReadlineKeeps, LoopKeeps, ChildKeeps DEF Shell, shell
  <2>2. PipeInv' /\ RedirectInv'
    BY <1>1, Untouched DEF Shell
  <2>3. (child # "running" /\ child' # "running") \/ UNCHANGED <<child, line>>
    BY <1>1 DEF Shell, shell, interpret, fill, readline_stores, readline_returns, tokenize, execute, builtin_cd,
                builtin_help, builtin_exit, builtin_pwd, bin_exec, builtin_pwd_grows, waitpid, child_signals,
                lineVars, ShellInv, ChildWaitedFor
  <2>4. NoOrphans'
    BY <1>1, <2>3 DEF Shell, pipelineVars, redirectVars, NoOrphans, Runs
  <2> QED  BY <2>1, <2>2, <2>4
<1>2. CASE Exec
  <2>1. ShellInv'
    BY <1>2, ChildKeeps DEF Exec
  <2>2. PipeInv' /\ RedirectInv'
    BY <1>2, Untouched, PipelineStarts, RedirectStarts DEF Exec, RedirectInv
  <2>3. child = "default" /\ line' = line
    BY <1>2 DEF Exec, child_execvp, lineVars
  <2>4. cmd1' \notin Alive /\ cmd2' \notin Alive
    BY <1>2, <2>3 DEF Exec, pipeline_main, pipelineVars, NoOrphans, Runs, Alive
  <2>5. rdChild' \notin Alive
    BY <1>2, <2>3 DEF Exec, redirect_main, redirectVars, NoOrphans, Runs, Alive
  <2>6. NoOrphans'
    BY <2>4, <2>5 DEF NoOrphans, Alive
  <2> QED  BY <2>1, <2>2, <2>6
<1>3. CASE Redirect
  <2>1. ShellInv' /\ PipeInv' /\ RedirectInv'
    BY <1>3, Untouched, RedirectKeeps DEF Redirect
  <2>2. NoOrphans'
    BY <1>3 DEF Redirect, shellVars, lineVars, pipelineVars, NoOrphans, Runs
  <2> QED  BY <2>1, <2>2
<1>4. CASE Ends
  <2>1. ShellInv' /\ PipeInv' /\ RedirectInv'
    BY <1>4, ChildKeeps, Untouched DEF Ends
  <2>2. {cmd1, cmd2} \cap Alive = {} /\ rdChild \notin Alive
    BY <1>4, ReturnedMeansQuiet DEF Ends, NoOrphans
  <2>3. NoOrphans'
    BY <1>4, <2>2 DEF Ends, pipelineVars, redirectVars, NoOrphans, Alive
  <2> QED  BY <2>1, <2>3
<1>5. CASE Stops
  <2>1. ShellInv' /\ PipeInv' /\ RedirectInv'
    BY <1>5, ChildKeeps, Untouched DEF Stops
  <2>2. NoOrphans'
    BY <1>5 DEF Stops, child_stops, lineVars, pipelineVars, redirectVars, NoOrphans, Runs
  <2> QED  BY <2>1, <2>2
<1>6. CASE Sigint
  <2>1. ShellInv'
    BY <1>6, ChildKeeps DEF Sigint
  <2>2. pipePc' = "exited" /\ cmd1' \in {"none", "reaped"} /\ cmd2' \in {"none", "reaped"}
    BY <1>6 DEF Sigint, Killed, PipeInv, PipelineTypeOK, Child
  <2>3. rdPc' = "returned" /\ rdChild' \in {"none", "reaped"} /\ UNCHANGED <<op, fds, given, file, was>>
    BY <1>6 DEF Sigint, Killed, RedirectInv, RedirectTypeOK
  <2>4. left' = 0 /\ pipe' = 0 /\ taken' = 0 /\ writers' = {} /\ readers' = {}
    BY <1>6, Zenon DEF Sigint
  <2>5. sawEof' \in BOOLEAN /\ ~sawEof'
    BY <1>6, Zenon DEF Sigint
  <2>6. MaxOut \in Nat /\ Capacity \in Nat
    BY PipelineAssumption
  <2>7. PipelineTypeOK'
    BY <2>2, <2>4, <2>5, <2>6 DEF PipelineTypeOK, Child
  <2>8. PipeChildren' /\ PipeEnds' /\ EofMeansComplete'
    BY <2>2, <2>4, <2>5, <2>6 DEF PipeChildren, PipeEnds, EofMeansComplete
  <2>9. RedirectInv'
    BY <2>3 DEF RedirectInv, RedirectTypeOK, RedirectSteps, Redirected, FileKept, Alive
  <2>10. NoOrphans'
    BY <2>2, <2>3 DEF NoOrphans, Alive
  <2> QED  BY <2>1, <2>7, <2>8, <2>9, <2>10 DEF PipeInv
<1>7. CASE \/ Pipeline(run_pipeline) \/ Pipeline(cmd1_starts) \/ Pipeline(cmd1_writes) \/ Pipeline(cmd1_ends)
           \/ Pipeline(cmd2_starts) \/ Pipeline(cmd2_reads) \/ Pipeline(cmd2_ends)
  <2>1. Runs("mini-pipeline") /\ UNCHANGED shellVars /\ UNCHANGED redirectVars
    BY <1>7 DEF Pipeline
  <2>2. ShellInv' /\ PipeInv' /\ RedirectInv'
    BY <1>7, <2>1, Untouched, RunKeeps, CommandsKeep DEF Pipeline
  <2>3. NoOrphans'
    BY <2>1 DEF shellVars, lineVars, redirectVars, NoOrphans, Runs
  <2> QED  BY <2>2, <2>3
<1>8. CASE Finished \/ UNCHANGED vars
  <2>1. UNCHANGED shellVars /\ UNCHANGED pipelineVars /\ UNCHANGED redirectVars
    BY <1>8 DEF Finished, vars
  <2>2. NoOrphans'
    BY <2>1 DEF shellVars, lineVars, pipelineVars, redirectVars, NoOrphans, Runs
  <2> QED  BY <2>1, <2>2, Untouched
<1> QED  BY <1>1, <1>2, <1>3, <1>4, <1>5, <1>6, <1>7, <1>8 DEF Next

(* The invariants of the three programs and of the session hold always.    *)
THEOREM Invariance == Spec => []IInv
BY InitIInv, NextIInv, PTL DEF Spec

(* Shell, pipeline and redirector stay within their types; the pipe never  *)
(* holds more than its capacity and no byte of it is invented.             *)
THEOREM TypeCorrect == Spec => [](ShellTypeOK /\ PipelineTypeOK /\ RedirectTypeOK)
<1>1. IInv => ShellTypeOK /\ PipelineTypeOK /\ RedirectTypeOK
  BY DEF IInv, ShellInv, PipeInv, RedirectInv
<1> QED  BY Invariance, <1>1, PTL

(* readline() never writes behind its buffer, however long the line and    *)
(* whatever the step by which the buffer grows.                            *)
THEOREM LinesAlwaysFit == Spec => []LineFits
<1>1. IInv => LineFits
  BY DEF IInv, ShellInv
<1> QED  BY Invariance, <1>1, PTL

(* At the prompt nothing of the last line is left running.                 *)
THEOREM QuietAtPrompt == Spec => []PromptMeansQuiet
<1>1. IInv => PromptMeansQuiet
  BY DEF IInv, NoOrphans, ShellInv, ChildWaitedFor, PromptMeansQuiet, Runs
<1> QED  BY Invariance, <1>1, PTL

(* The second command of a pipeline sees end of file only behind the last  *)
(* byte of the first.                                                      *)
THEOREM EofIsComplete == Spec => []EofMeansComplete
<1>1. IInv => EofMeansComplete
  BY DEF IInv, PipeInv
<1> QED  BY Invariance, <1>1, PTL

(* The command of io-redirector runs with exactly one descriptor changed.  *)
THEOREM AlwaysRedirected == Spec => []Redirected
<1>1. IInv => Redirected
  BY DEF IInv, RedirectInv
<1> QED  BY Invariance, <1>1, PTL

(* io-redirector never loses what a file held except by "out".             *)
THEOREM FileAlwaysKept == Spec => []FileKept
<1>1. IInv => FileKept
  BY DEF IInv, RedirectInv
<1> QED  BY Invariance, <1>1, PTL

(* The lines of the script run in order, each of them once, unless a       *)
(* missing command's exit() moved the position of a script file.           *)
THEOREM EachLineOnce == Spec => LinesOnce
<1> DEFINE Onward == next' # next => \/ next' = next + 1
                                     \/ stdin = "file" /\ \E m \in 1..next - 1 : script[m].cmd = "missing"
<1>1. ASSUME IInv, [Next]_vars PROVE [Onward]_shellVars
  <2>1. CASE next' = next
    BY <2>1
  <2>2. CASE fill
    <3>1. next' = offset \/ next' = next
      BY <2>2 DEF fill
    <3>2. next > filled
      BY <2>2 DEF fill
    <3>3. filled \in Nat /\ next \in Nat
      BY <1>1 DEF IInv, ShellInv, ShellTypeOK
    <3> QED  BY <1>1, <3>1, <3>2, <3>3 DEF IInv, ShellInv, ReadAhead, Moved
  <2>3. CASE readline_returns
    BY <2>3 DEF readline_returns
  <2>4. next' # next => fill \/ readline_returns
    BY <1>1 DEF Next, vars, Shell, Exec, Redirect, Ends, Stops, Sigint, Finished, Pipeline, shell, shellVars, input,
                interpret, readline_stores, tokenize, execute, builtin_pwd_grows, waitpid, child_signals,
                child_execvp, child_ends, child_stops, sigint
  <2> QED  BY <2>1, <2>2, <2>3, <2>4
<1>2. LinesOnce <=> [][Onward]_shellVars
  BY DEF LinesOnce
<1> HIDE DEF Onward
<1> QED  BY Invariance, <1>1, <1>2, PTL DEF Spec

-----------------------------------------------------------------------------
(* Nobody holds an end of the pipe it has no use for.                      *)
EndsClosed ==
  /\ "run" \in writers \cup readers => pipePc \in {"fork", "fork2", "close"}
  /\ "cmd1" \in writers => cmd1 \in {"forked", "running"}
  /\ "cmd2" \in writers => cmd2 = "forked"
  /\ "cmd1" \in readers => cmd1 = "forked"
  /\ "cmd2" \in readers => cmd2 \in {"forked", "running"}

(* run() waits for a child, and each child that is alive waits in write()  *)
(* for room or in read() for data.                                         *)
PipelineStuck ==
  /\ \/ pipePc = "wait" /\ (cmd1 \in Alive \/ (cmd1 = "none" /\ cmd2 \in Alive))
     \/ pipePc = "wait2" /\ cmd2 \in Alive
  /\ cmd1 \in Alive => cmd1 = "running" /\ left > 0 /\ readers # {} /\ pipe >= Capacity
  /\ cmd2 \in Alive => cmd2 = "running" /\ ~sawEof /\ writers # {} /\ pipe = 0

(* A step keeps the ends closed that were.                                 *)
LEMMA EndsStep ==
  ASSUME IInv, EndsClosed, [Next]_vars PROVE EndsClosed'
<1>0. PipelineTypeOK /\ PipeChildren
  BY DEF IInv, PipeInv
<1>1. CASE run_pipeline
  <2>1. CASE run_pipe
    BY <1>0, <2>1 DEF run_pipe, EndsClosed, PipeChildren, PipelineTypeOK
  <2>2. CASE run_fork
    BY <1>0, <2>2 DEF run_fork, EndsClosed, PipeChildren, PipelineTypeOK
  <2>3. CASE run_fork2
    BY <1>0, <2>3 DEF run_fork2, EndsClosed, PipeChildren, PipelineTypeOK
  <2>4. CASE run_close
    BY <2>4 DEF run_close, EndsClosed
  <2>5. CASE run_wait \/ run_wait2
    BY <2>5 DEF run_wait, run_wait2, EndsClosed
  <2> QED  BY <1>1, <2>1, <2>2, <2>3, <2>4, <2>5 DEF run_pipeline
<1>2. CASE cmd1_starts \/ cmd1_writes \/ cmd1_ends
  BY <1>2 DEF cmd1_starts, cmd1_writes, cmd1_ends, EndsClosed
<1>3. CASE cmd2_starts \/ cmd2_reads \/ cmd2_ends
  BY <1>3 DEF cmd2_starts, cmd2_reads, cmd2_ends, EndsClosed
<1>4. CASE pipeline_main \/ Sigint
  <2>1. writers' = {} /\ readers' = {}
    BY <1>4 DEF pipeline_main, Sigint
  <2> QED  BY <2>1 DEF EndsClosed
<1>5. CASE UNCHANGED pipelineVars
  BY <1>5 DEF pipelineVars, EndsClosed
<1>6. \/ run_pipeline \/ cmd1_starts \/ cmd1_writes \/ cmd1_ends \/ cmd2_starts \/ cmd2_reads \/ cmd2_ends
      \/ pipeline_main \/ Sigint \/ UNCHANGED pipelineVars
  <2>1. CASE Shell \/ Exec \/ Redirect \/ Ends \/ Stops \/ Sigint
    BY <2>1 DEF Shell, Exec, Redirect, Ends, Stops
  <2>2. CASE Finished \/ UNCHANGED vars
    BY <2>2 DEF Finished, vars
  <2>3. CASE \/ Pipeline(run_pipeline) \/ Pipeline(cmd1_starts) \/ Pipeline(cmd1_writes)
             \/ Pipeline(cmd1_ends) \/ Pipeline(cmd2_starts) \/ Pipeline(cmd2_reads) \/ Pipeline(cmd2_ends)
    BY <2>3 DEF Pipeline
  <2> QED  BY <2>1, <2>2, <2>3 DEF Next
<1> QED  BY <1>1, <1>2, <1>3, <1>4, <1>5, <1>6

(* mini-pipeline cannot hang: run() and its two commands never all wait    *)
(* for each other, however much the first command writes, whichever fork() *)
(* fails and in whatever order the three close their ends.                 *)
THEOREM PipelineNeverStuck == Spec => []~PipelineStuck
<1>1. Init => EndsClosed
  BY DEF Init, PipelineInit, EndsClosed
<1>2. IInv /\ EndsClosed /\ [Next]_vars => EndsClosed'
  BY EndsStep
<1>3. ASSUME IInv, EndsClosed, PipelineStuck PROVE FALSE
  <2>1. /\ pipePc \in {"wait", "wait2"} /\ PipelineTypeOK /\ Capacity \in Nat \ {0}
        /\ cmd1 \in Alive \/ cmd2 \in Alive
    BY <1>3, PipelineAssumption DEF PipelineStuck, IInv, PipeInv
  <2>2. CASE cmd1 \in Alive
    <3>1. cmd1 = "running" /\ readers # {} /\ pipe >= Capacity /\ pipe \in Nat
      BY <1>3, <2>1, <2>2 DEF PipelineStuck, PipelineTypeOK
    <3>2. "cmd2" \in readers
      BY <1>3, <2>1, <3>1 DEF EndsClosed, PipelineTypeOK
    <3>3. cmd2 \in Alive
      BY <1>3, <3>2 DEF EndsClosed, Alive
    <3> QED  BY <1>3, <2>1, <3>1, <3>3 DEF PipelineStuck
  <2>3. CASE cmd1 \notin Alive
    <3>1. cmd2 = "running" /\ writers # {}
      BY <1>3, <2>1, <2>3 DEF PipelineStuck
    <3> QED  BY <1>3, <2>1, <2>3, <3>1 DEF EndsClosed, PipelineTypeOK, Alive
  <2> QED  BY <2>2, <2>3
<1>4. IInv /\ EndsClosed => ~PipelineStuck
  BY <1>3
<1> QED  BY <1>1, <1>2, <1>4, Invariance, PTL DEF Spec
=============================================================================
