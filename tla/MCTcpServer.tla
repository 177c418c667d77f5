------------------------------ MODULE MCTcpServer ------------------------------
(* Small instances of TcpServer for TLC.                                   *)
EXTENDS TcpServer, TLC

(* Connections are interchangeable; used by the safety runs only.          *)
ConnSymmetry == Permutations(Conns)
=============================================================================
