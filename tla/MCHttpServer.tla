----------------------------- MODULE MCHttpServer -----------------------------
(* Small instances of HttpServer for TLC.                                  *)
EXTENDS HttpServer, TLC

(* Connections are interchangeable; used by the safety run only.           *)
ConnSymmetry == Permutations(Conns)
=============================================================================
