--------------------------- MODULE MCMapPipeline ----------------------------
(* MapPipeline for TLC.  A symmetry of the maps other than map 0 would do  *)
(* for its safety properties, but not for its liveness properties.         *)
EXTENDS MapPipeline
=============================================================================
