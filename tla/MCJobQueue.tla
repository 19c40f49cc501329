----------------------------- MODULE MCJobQueue -----------------------------
(* Small instances of the job queue.                                       *)
EXTENDS JobQueue, TLC

CONSTANTS w1, w2, d1, k1
=============================================================================
