---------------------------- MODULE MCFrameStream -----------------------------
(* Two processes, each started up to twice, and four frames.              *)
EXTENDS FrameStream
==============================================================================
