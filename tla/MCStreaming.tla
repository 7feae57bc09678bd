----------------------------- MODULE MCStreaming -----------------------------
(***************************************************************************)
(* Streaming for TLC.  Connection objects are interchangeable.             *)
(***************************************************************************)
EXTENDS Streaming, TLC

ConnSymmetry == Permutations(Conn)
=============================================================================
