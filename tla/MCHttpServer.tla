----------------------------- MODULE MCHttpServer -----------------------------
(***************************************************************************)
(* HttpServer for TLC.  Connection objects are interchangeable.            *)
(***************************************************************************)
EXTENDS HttpServer, TLC

ConnSymmetry == Permutations(Conn)
=============================================================================
