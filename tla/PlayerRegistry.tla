--------------------------- MODULE PlayerRegistry ---------------------------
(***************************************************************************)
(* What the control server promises about players, without sockets,        *)
(* timers, handlers or shared memory: the list of active clients is at     *)
(* every moment the set of players that have said HELO on a connection     *)
(* that lasts, and a connection ends only because the player left, because *)
(* it missed Limit polls in a row, or because the server stops.            *)
(***************************************************************************)
EXTENDS Naturals

CONSTANTS Conn, Mac, Nobody, Limit

VARIABLES
    phase,    \* "idle", "connected", "active", "closed"
    who,      \* the active player of a connection, or Nobody
    up,       \* is the player still at its end?
    missed,   \* polls missed in a row
    listed    \* the active clients a user of the plug-in sees

vars == <<phase, who, up, missed, listed>>

Live(c) == phase[c] \in {"connected", "active"}

Init ==
    /\ phase = [c \in Conn |-> "idle"]
    /\ who = [c \in Conn |-> Nobody]
    /\ up = [c \in Conn |-> TRUE]
    /\ missed = [c \in Conn |-> 0]
    /\ listed = {}

\* The list is not maintained, it is what it is.
ListFollows == listed' = {who'[c] : c \in {d \in Conn : phase'[d] = "active"}}

Connect(c) ==
    /\ phase[c] = "idle"
    /\ phase' = [phase EXCEPT ![c] = "connected"]
    /\ UNCHANGED <<who, up, missed>>

Hello(c, m) ==
    /\ phase[c] = "connected"
    /\ phase' = [phase EXCEPT ![c] = "active"]
    /\ who' = [who EXCEPT ![c] = m]
    /\ UNCHANGED <<up, missed>>

\* The player reports: whatever it missed is forgiven.
Report(c) ==
    /\ phase[c] = "active"
    /\ missed' = [missed EXCEPT ![c] = 0]
    /\ UNCHANGED <<phase, who, up>>

Miss(c) ==
    /\ phase[c] = "active"
    /\ missed[c] + 1 < Limit
    /\ missed' = [missed EXCEPT ![c] = @ + 1]
    /\ UNCHANGED <<phase, who, up>>

PlayerLeaves(c) ==
    /\ up[c]
    /\ up' = [up EXCEPT ![c] = FALSE]
    /\ UNCHANGED <<phase, who, missed>>

\* The connections of S end.
End(S) ==
    /\ phase' = [c \in Conn |-> IF c \in S THEN "closed" ELSE phase[c]]
    /\ who' = [c \in Conn |-> IF c \in S THEN Nobody ELSE who[c]]
    /\ missed' = [c \in Conn |-> IF c \in S THEN 0 ELSE missed[c]]
    /\ UNCHANGED up

EndLeft(c) == Live(c) /\ ~up[c] /\ End({c})

EndSilent(c) == phase[c] = "active" /\ missed[c] + 1 = Limit /\ End({c})

StopAll == End({c \in Conn : Live(c)})

Next ==
    /\ \/ \E c \in Conn :
            \/ Connect(c) \/ Report(c) \/ Miss(c) \/ PlayerLeaves(c)
            \/ EndLeft(c) \/ EndSilent(c)
            \/ \E m \in Mac : Hello(c, m)
       \/ StopAll
    /\ ListFollows

Spec == Init /\ [][Next]_vars
=============================================================================
