----------------------------- MODULE MCEventBus -----------------------------
(* Small instances of the event log and one consumer.                      *)
EXTENDS EventBus, TLC

CONSTANTS r1, r2

ReplicaSymmetry == Permutations(Replicas)
=============================================================================
