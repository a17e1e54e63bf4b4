---------------------------- MODULE MCSlamThreads -----------------------------
(* Every property accepts what follows once the protocol is loose, and it  *)
(* never is tight again: the search ends there. What the invariants say of *)
(* the states beyond is in SlamThreadsProofs.                              *)
EXTENDS SlamThreads

Tight == loose = {}
==============================================================================
