----------------------------- MODULE SlimRegistry -----------------------------
(***************************************************************************)
(* SlimServer implements PlayerRegistry, when a player reconnects only     *)
(* after its old connection was closed (~HalfOpen) and says HELO once per  *)
(* connection (MaxHelo = 1).                                               *)
(***************************************************************************)
EXTENDS SlimServer

\* A connection counts from the moment the manager starts it.
Phase(c) ==
    CASE device_initialized[c] -> "active"
      [] c \in connections /\ ~device_initialized[c] -> "connected"
      [] sock[c] = "closed" -> "closed"
      [] OTHER -> "idle"

Registry == INSTANCE PlayerRegistry WITH
    Nobody <- NoMac,
    Limit  <- DISCONNECT_COUNT,
    phase  <- [c \in Conn |-> Phase(c)],
    who    <- mac_address,
    up     <- [c \in Conn |-> peer[c] = "up"],
    missed <- [c \in Conn |-> IF device_initialized[c] THEN disconnection_counter[c] ELSE 0],
    listed <- {m \in Mac : shm_map[m] # NoConn}

\* Every step of the server is a step of the registry or none: the list of
\* clients in shared memory is always the set of active players, and no
\* connection is ended that the registry would have kept.
RegistrySpec == Registry!Spec
=============================================================================
