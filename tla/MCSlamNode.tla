----------------------------- MODULE MCSlamNode ------------------------------
(* SlamNode for TLC.                                                       *)
EXTENDS SlamNode
=============================================================================
