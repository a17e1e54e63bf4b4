---------------------------- MODULE MCNbvPlanner -----------------------------
(* Three places, and the octrees of a corridor that opens, closes at one   *)
(* end, and closes altogether.                                             *)
EXTENDS NbvPlanner

CONSTANTS a, b, c

MCPlaces == {a, b, c}
MCOctrees == {{}, {{a, b}}, {{a, b}, {b, c}}, {{a, b}, {b, c}, {a, c}}}
==============================================================================
