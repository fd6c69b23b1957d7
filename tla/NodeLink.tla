------------------------------ MODULE NodeLink ------------------------------
(***************************************************************************)
(* The stream between the panel and one node, as the modules about rosters *)
(* and upgrades see it.                                                    *)
(***************************************************************************)
EXTENDS Faults

CONSTANT Climates  \* of "rough" and "calm"

VARIABLES
    stream,  \* "down", "hello" (the Welcome is under way) or "live"
    down,    \* messages in the stream, panel to agent
    up,      \* messages in the stream, agent to panel
    climate  \* "rough" or "calm", from the beginning to the end: what can go wrong, see the modules

Rough == climate = "rough"
=============================================================================
