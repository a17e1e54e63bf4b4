------------------------- MODULE MCCommandChannel -------------------------
(* CommandChannel for TLC.                                                 *)
EXTENDS CommandChannel
=============================================================================
