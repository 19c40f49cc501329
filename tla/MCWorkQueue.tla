---------------------------- MODULE MCWorkQueue ----------------------------
(* Small instance of WorkQueue: more keys than handlers.                   *)
EXTENDS WorkQueue, TLC
=============================================================================
