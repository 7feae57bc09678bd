---------------------------- MODULE MCSlimServer ----------------------------
(* Instances of SlimServer for TLC.  Connection objects are interchangeable. *)
EXTENDS SlimRegistry, TLC

ConnSymmetry == Permutations(Conn)
=============================================================================
