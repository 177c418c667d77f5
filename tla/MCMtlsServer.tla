----------------------------- MODULE MCMtlsServer -----------------------------
(* Small instances of MtlsServer for TLC.                                  *)
EXTENDS MtlsServer, TLC

(* Connections are interchangeable; used by the safety runs only.          *)
ConnSymmetry == Permutations(Conns)
=============================================================================
