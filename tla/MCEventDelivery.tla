--------------------------- MODULE MCEventDelivery ---------------------------
(* Small instance of EventDelivery. *)
EXTENDS EventDelivery, TLC

=============================================================================
