--------------------------- MODULE MCSlotRetention ---------------------------
(* Small instance of SlotRetention: two policies, of which each prolongs   *)
(* one kind of countdown and shortens the other, and one that is refused.  *)
EXTENDS SlotRetention, TLC

FirstPolicy == [rollback |-> 3, idle |-> 2, lead |-> 1]
OtherPolicy == [rollback |-> 2, idle |-> 3, lead |-> 1]
Refused == [rollback |-> 2, idle |-> 2, lead |-> 2]
AllPolicies == {FirstPolicy, OtherPolicy, Refused}
=============================================================================
