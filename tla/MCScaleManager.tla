--------------------------- MODULE MCScaleManager ---------------------------
(* One map: what is kept of a map, its requests and its marks are its own. *)
EXTENDS ScaleManager
=============================================================================
