---------------------------- MODULE MCSlimBroadcast ----------------------------
(***************************************************************************)
(* SlimBroadcast for TLC: what on_chunk sends with a track's first chunk,  *)
(* and the play command it repeats for one player.                         *)
(***************************************************************************)
EXTENDS SlimBroadcast

MCCalls == {<<"audg", "strm">>} \cup {<<m>> : m \in Mac}
=============================================================================
