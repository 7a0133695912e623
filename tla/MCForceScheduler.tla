---------------------------- MODULE MCForceScheduler ----------------------------
(* Three native chunks: a first, a middle and a last checkpoint.           *)
EXTENDS ForceScheduler

MCChunks == 3
=============================================================================
