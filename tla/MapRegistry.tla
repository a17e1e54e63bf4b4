---------------------------- MODULE MapRegistry -----------------------------
(***************************************************************************)
(* What the pipeline from the SLAM node's maps to the occupancy map        *)
(* promises: each map is decided at most once, a rejection starts the      *)
(* world anew, and only maps that have been decided, or map 0, get         *)
(* geometry into the world.                                                *)
(***************************************************************************)
CONSTANTS Maps, MapZero

VARIABLES
    decided,    \* maps whose registration has been accepted or rejected
    world       \* maps with geometry in the world

vars == <<decided, world>>

Init == decided = {} /\ world = {}

Accept(m) ==
    /\ m \notin decided
    /\ decided' = decided \cup {m}
    /\ UNCHANGED world

Reject(m) ==
    /\ m \notin decided
    /\ decided' = decided \cup {m}
    /\ world' = {}

Insert(m) ==
    /\ m \in decided \cup {MapZero}
    /\ world' = world \cup {m}
    /\ UNCHANGED decided

Next == \E m \in Maps : Accept(m) \/ Reject(m) \/ Insert(m)

Spec == Init /\ [][Next]_vars
=============================================================================
