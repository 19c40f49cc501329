------------------------- MODULE MCTaskEnvironment -------------------------
(* Small instance of TaskEnvironment. *)
EXTENDS TaskEnvironment, TLC

Symmetry == Permutations(Call) \cup Permutations(Task)

=============================================================================
