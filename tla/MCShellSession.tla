--------------------------- MODULE MCShellSession ---------------------------
(* Lines of every kind for ShellSession.                                    *)
EXTENDS ShellSession

Cmd(c, l, w) == [cmd |-> c, len |-> l, words |-> w]

MCLines ==
  {Cmd("cd", 2, 2), Cmd("help", 1, 1), Cmd("exit", 1, 1), Cmd("pwd", 1, 1),
   Cmd("missing", 1, 1), Cmd("program", 4, 3), Cmd("program", 3, 4), Cmd("mini-pipeline", 1, 3),
   Cmd("io-redirector", 1, 3)}
=============================================================================
