---------------------- MODULE MCMissionController ----------------------
(* MissionController for TLC.                                              *)
EXTENDS MissionController
=============================================================================
