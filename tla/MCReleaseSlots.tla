---------------------------- MODULE MCReleaseSlots ----------------------------
(* Small instance of ReleaseSlots. *)
EXTENDS ReleaseSlots, TLC

=============================================================================
