----------------------------- MODULE ShellSession -----------------------------
(***************************************************************************)
(* A session: mini-shell runs mini-pipeline and io-redirector among other  *)
(* commands.  ^C reaches every process of the command and the shell.       *)
(***************************************************************************)
EXTENDS MiniShell, MiniPipeline, IoRedirector

vars == <<shellVars, pipelineVars, redirectVars>>

Init == ShellInit /\ PipelineInit /\ left = 0 /\ RedirectInit

Runs(cmd) == child = "running" /\ line.cmd = cmd

Shell == shell /\ UNCHANGED <<pipelineVars, redirectVars>>

(* execvp() turns the child into the program of the line.                  *)
Exec ==
  /\ child_execvp
  /\ IF line.cmd = "mini-pipeline" THEN pipeline_main ELSE UNCHANGED pipelineVars
  /\ IF line.cmd = "io-redirector" THEN redirect_main ELSE UNCHANGED redirectVars

Pipeline(A) == Runs("mini-pipeline") /\ A /\ UNCHANGED <<shellVars, redirectVars>>
Redirect == Runs("io-redirector") /\ redirect /\ UNCHANGED <<shellVars, pipelineVars>>

(* The child ends when its main() has returned.                            *)
Ends ==
  /\ child_ends
  /\ Runs("mini-pipeline") => pipePc \in {"returned", "exited"}
  /\ Runs("io-redirector") => rdPc = "returned"
  /\ UNCHANGED <<pipelineVars, redirectVars>>

Stops == line.cmd = "program" /\ child_stops /\ UNCHANGED <<pipelineVars, redirectVars>>

(* The orphans of a killed program are reaped by init.                     *)
Killed(c) == IF c \in {"forked", "opened", "running", "zombie"} THEN "reaped" ELSE c

(* ^C ends the processes of the command together; their pipe goes with     *)
(* them, the file stays.                                                   *)
Sigint ==
  /\ sigint
  /\ pipePc' = "exited" /\ cmd1' = Killed(cmd1) /\ cmd2' = Killed(cmd2)
  /\ writers' = {} /\ readers' = {} /\ left' = 0 /\ pipe' = 0 /\ taken' = 0 /\ sawEof' = FALSE
  /\ rdPc' = "returned" /\ rdChild' = Killed(rdChild)
  /\ UNCHANGED <<op, fds, given, file, was>>

Finished == shPc \in {"exited", "undefined"} /\ UNCHANGED vars

Next ==
  \/ Shell \/ Exec \/ Redirect \/ Ends \/ Stops \/ Sigint \/ Finished
  \/ Pipeline(run_pipeline) \/ Pipeline(cmd1_starts) \/ Pipeline(cmd1_writes) \/ Pipeline(cmd1_ends)
  \/ Pipeline(cmd2_starts) \/ Pipeline(cmd2_reads) \/ Pipeline(cmd2_ends)

Spec == Init /\ [][Next]_vars

(* Every process runs, and a program ends.  The second command of a        *)
(* pipeline owes nobody an end before it has seen the end of its input,    *)
(* and nothing promises that a stopped program is continued.               *)
FairSpec ==
  /\ Spec /\ WF_vars(Shell) /\ WF_vars(Exec) /\ WF_vars(Redirect) /\ SF_vars(Ends)
  /\ WF_vars(Pipeline(run_pipeline)) /\ WF_vars(Pipeline(cmd1_starts)) /\ WF_vars(Pipeline(cmd1_writes))
  /\ WF_vars(Pipeline(cmd1_ends)) /\ WF_vars(Pipeline(cmd2_starts)) /\ WF_vars(Pipeline(cmd2_reads))
  /\ WF_vars(Pipeline(sawEof /\ cmd2_ends))

-----------------------------------------------------------------------------
Alive == {"forked", "opened", "running"}

(* When the shell asks for the next line nothing of the last one is left:  *)
(* its child has been reaped and no process the child started still runs,  *)
(* whichever call failed, however ^C and the stops fell.                   *)
PromptMeansQuiet ==
  shPc \in {"prompt", "readline"} =>
    child = "none" /\ {cmd1, cmd2, rdChild} \cap Alive = {}

(* A line with fewer words than the array of tokens has room for comes to  *)
(* its end: the shell prompts again or exits, whatever the line runs and   *)
(* wherever ^C falls.  Only a program that stays stopped holds it up.      *)
PromptReturns ==
  \/ shPc = "tokenize" /\ line.words < STRTOK_BUF \div POINTER ~> shPc \in {"prompt", "exited"}
  \/ <>[](child = "stopped")
=============================================================================
