------------------------------ MODULE MiniShell ------------------------------
(***************************************************************************)
(* projects/ipc/mini-shell: interpret() reads a line, splits it and runs   *)
(* it, as a built-in or as a child it waits for.  stdin is a script of     *)
(* lines that stdio reads ahead of readline(); the position in a file is   *)
(* shared with the children.                                               *)
(***************************************************************************)
EXTENDS Integers, Sequences, SequencesExt

CONSTANTS
  Lines,        \* the lines scripts are made of: [cmd, len, words]
  MaxLines,     \* bound: lines in a script
  BUFFER_SIZE,  \* step by which readline's and builtin_pwd's buffers grow
  STRTOK_BUF,   \* step by which the array of tokens grows, in bytes
  POINTER,      \* bytes of a pointer
  MaxPwd,       \* size at which realloc() fails in builtin_pwd
  ShellFaults   \* calls that may fail

ASSUME ShellAssumption ==
  /\ MaxLines \in Nat /\ {BUFFER_SIZE, STRTOK_BUF, POINTER, MaxPwd} \subseteq Nat \ {0}
  /\ ShellFaults \subseteq {"alloc", "shell fork"}

VARIABLES
  shPc,      \* where interpret() is
  stdin,     \* what stdin is
  script,    \* all the lines that come from it
  offset,    \* first line the next read() of stdin returns
  filled,    \* last line in stdio's buffer
  next,      \* first line that readline has not returned
  eof,       \* stdio has seen end of file
  position,  \* characters of the line in readline's buffer
  size,      \* size of readline's or builtin_pwd's buffer
  line,      \* the line readline has returned
  cwd,       \* length of the working directory's name
  child      \* the child of bin_exec

input == <<offset, filled, next, eof>>
lineVars == <<position, size, line>>
shellVars == <<shPc, stdin, script, input, lineVars, cwd, child>>

NoLine == [cmd |-> "", len |-> 0, words |-> 0]

ShellInit ==
  /\ shPc = "prompt" /\ stdin \in {"terminal", "pipe", "file"}
  /\ script \in BoundedSeq(Lines, MaxLines)
  /\ offset = 1 /\ filled = 0 /\ next = 1 /\ eof = FALSE
  /\ position = 0 /\ size = 0 /\ line = NoLine /\ cwd = "short" /\ child = "none"

(* The prompt, and readline's malloc().                                    *)
interpret ==
  /\ shPc = "prompt"
  /\ \/ shPc' = "readline" /\ position' = 0 /\ size' = BUFFER_SIZE
     \/ "alloc" \in ShellFaults /\ shPc' = "exited" /\ UNCHANGED <<position, size>>
  /\ UNCHANGED <<stdin, script, input, line, cwd, child>>

(* getchar() on an empty buffer: read() returns one line of a terminal,    *)
(* some of a pipe and all the rest of a file; end of file is remembered.   *)
fill ==
  /\ shPc = "readline" /\ next > filled /\ ~eof
  /\ IF offset > Len(script) THEN eof' = TRUE /\ UNCHANGED <<offset, filled, next>>
     ELSE /\ filled' \in CASE stdin = "terminal" -> {offset}
                           [] stdin = "pipe" -> offset..Len(script)
                           [] stdin = "file" -> {Len(script)}
          /\ next' = offset /\ offset' = filled' + 1 /\ UNCHANGED eof
  /\ UNCHANGED <<shPc, stdin, script, lineVars, cwd, child>>

(* Mutant: the buffer grows one character late.                            *)
Grown_late(n) == IF n > size THEN size + BUFFER_SIZE ELSE size

Grown(n) == IF n >= size THEN size + BUFFER_SIZE ELSE size

(* One character that does not end the line.                               *)
readline_stores ==
  /\ shPc = "readline" /\ next <= filled /\ position < script[next].len
  /\ position' = position + 1 /\ size' = Grown(position')
  /\ shPc' \in {"readline"} \cup (IF size' # size /\ "alloc" \in ShellFaults THEN {"exited"} ELSE {})
  /\ UNCHANGED <<stdin, script, input, line, cwd, child>>

(* The newline or end of file: the string is closed and returned.          *)
readline_returns ==
  /\ shPc = "readline" /\ shPc' = "tokenize"
  /\ \/ /\ next <= filled /\ position = script[next].len
        /\ line' = script[next] /\ next' = next + 1
     \/ next > filled /\ eof /\ line' = NoLine /\ UNCHANGED next
  /\ UNCHANGED <<stdin, script, offset, filled, eof, position, size, cwd, child>>

(* Bytes of the array when p tokens are stored.                            *)
TokenBytes(p) == STRTOK_BUF * (1 + p \div STRTOK_BUF)

(* tokens[0] to tokens[words] are written; buffer_size counts bytes as if  *)
(* they were pointers, and a write behind the end is undefined.            *)
tokenize ==
  /\ shPc = "tokenize"
  /\ \/ shPc' = IF \A p \in 0..line.words : POINTER * (p + 1) <= TokenBytes(p) THEN "execute" ELSE "undefined"
     \/ "alloc" \in ShellFaults /\ shPc' = "exited"
  /\ UNCHANGED <<stdin, script, input, lineVars, cwd, child>>

(* The built-ins return 1 and the loop goes on, builtin_exit returns 0.    *)
builtin_cd ==
  /\ line.cmd = "cd" /\ shPc' = "prompt"
  /\ cwd' \in {cwd} \cup (IF line.words > 1 THEN {"short", "long"} ELSE {})
  /\ UNCHANGED <<size, child>>
builtin_help == line.cmd \in {"", "help"} /\ shPc' = "prompt" /\ UNCHANGED <<size, cwd, child>>
builtin_exit == line.cmd = "exit" /\ shPc' = "exited" /\ UNCHANGED <<size, cwd, child>>
builtin_pwd ==
  /\ line.cmd = "pwd"
  /\ \/ shPc' = (IF cwd = "short" THEN "prompt" ELSE "pwd") /\ size' = BUFFER_SIZE
     \/ "alloc" \in ShellFaults /\ shPc' = "exited" /\ UNCHANGED size
  /\ UNCHANGED <<cwd, child>>

(* bin_exec: the fork().                                                   *)
bin_exec ==
  /\ line.cmd \notin {"", "cd", "help", "exit", "pwd"}
  /\ \/ shPc' = "waitpid" /\ child' = "forked"
     \/ "shell fork" \in ShellFaults /\ shPc' = "prompt" /\ UNCHANGED child
  /\ UNCHANGED <<size, cwd>>

execute ==
  /\ shPc = "execute"
  /\ builtin_cd \/ builtin_help \/ builtin_exit \/ builtin_pwd \/ bin_exec
  /\ UNCHANGED <<stdin, script, input, position, line>>

(* getcwd() has failed with ERANGE.  A later success leaves errno alone,   *)
(* so the loop ends only when realloc() fails.                             *)
builtin_pwd_grows ==
  /\ shPc = "pwd" /\ size' = size + BUFFER_SIZE
  /\ shPc' = IF size' >= MaxPwd THEN "exited" ELSE "pwd"
  /\ UNCHANGED <<stdin, script, input, position, line, cwd, child>>

(* Mutant: a stopped child is taken for an ended one.                      *)
waitpid_untraced ==
  /\ shPc = "waitpid" /\ child \in {"zombie", "stopped"}
  /\ shPc' = "prompt" /\ child' = IF child = "zombie" THEN "none" ELSE child
  /\ UNCHANGED <<stdin, script, input, lineVars, cwd>>

(* waitpid() also reports a child that stops; the loop waits again.        *)
waitpid ==
  /\ shPc = "waitpid" /\ child = "zombie"
  /\ shPc' = "prompt" /\ child' = "none"
  /\ UNCHANGED <<stdin, script, input, lineVars, cwd>>

(* The child makes SIGINT and SIGQUIT fatal again.                         *)
child_signals ==
  /\ child = "forked" /\ child' = "default"
  /\ UNCHANGED <<shPc, stdin, script, input, lineVars, cwd>>

(* Mutant: stdin is flushed before every execvp().                         *)
child_execvp_flushed ==
  /\ child = "default" /\ child' = IF line.cmd = "missing" THEN "zombie" ELSE "running"
  /\ LET back == offset - (filled - next + 1)
     IN  offset' = IF stdin = "file" /\ back >= 1 THEN back ELSE offset
  /\ UNCHANGED <<shPc, stdin, script, filled, next, eof, lineVars, cwd>>

(* execvp(); when it fails, exit() gives back what stdio has read ahead:   *)
(* it moves the position that the shell shares, if stdin can be sought.    *)
child_execvp ==
  /\ child = "default"
  /\ \/ line.cmd # "missing" /\ child' = "running" /\ UNCHANGED offset
     \/ /\ line.cmd = "missing" /\ child' = "zombie"
        /\ LET back == offset - (filled - next + 1)
           IN  offset' = IF stdin = "file" /\ back >= 1 THEN back ELSE offset
  /\ UNCHANGED <<shPc, stdin, script, filled, next, eof, lineVars, cwd>>

child_ends ==
  /\ child = "running" /\ child' = "zombie"
  /\ UNCHANGED <<shPc, stdin, script, input, lineVars, cwd>>

(* kill -STOP and -CONT from elsewhere.                                    *)
child_stops ==
  /\ \/ child = "running" /\ child' = "stopped"
     \/ child = "stopped" /\ child' = "running"
  /\ UNCHANGED <<shPc, stdin, script, input, lineVars, cwd>>

(* ^C ends the child; the shell, and a child that has just been forked,    *)
(* ignore it.                                                              *)
sigint ==
  /\ child \in {"default", "running"} /\ child' = "zombie"
  /\ UNCHANGED <<shPc, stdin, script, input, lineVars, cwd>>

shell == interpret \/ fill \/ readline_stores \/ readline_returns \/ tokenize \/ execute
         \/ builtin_pwd_grows \/ waitpid \/ child_signals

ShellNext == shell \/ child_execvp \/ child_ends \/ child_stops \/ sigint
ShellSpec == ShellInit /\ [][ShellNext]_shellVars

-----------------------------------------------------------------------------
ShellTypeOK ==
  /\ shPc \in {"prompt", "readline", "tokenize", "execute", "pwd", "waitpid", "exited", "undefined"}
  /\ stdin \in {"terminal", "pipe", "file"} /\ script \in Seq(Lines)
  /\ offset \in 1..Len(script) + 1 /\ filled \in 0..Len(script) /\ next \in 1..Len(script) + 1
  /\ eof \in BOOLEAN /\ position \in Nat /\ size \in Nat /\ line \in Lines \cup {NoLine}
  /\ cwd \in {"short", "long"}
  /\ child \in {"none", "forked", "default", "running", "stopped", "zombie"}

(* Every character readline stores, and the '\0' behind the last one, lies *)
(* inside its buffer, at any length of the line.                           *)
LineFits == shPc = "readline" => position < size

(* The lines of stdin are run one after the other and each of them once:   *)
(* processes forked between two of them do not disturb what the shell has  *)
(* read ahead, and after the last one end of file brings only empty lines. *)
(* The shell goes back in its script only when that is a file and a        *)
(* command was not found: the child's exit() has moved the position.       *)
LinesOnce ==
  [][next' # next => \/ next' = next + 1
                     \/ stdin = "file" /\ \E m \in 1..next - 1 : script[m].cmd = "missing"]_shellVars
=============================================================================
