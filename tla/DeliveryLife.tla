---------------------------- MODULE DeliveryLife ----------------------------
(***************************************************************************)
(* What the module promises of a delivery, with neither jobs, callbacks,   *)
(* snapshots nor locks: its row goes through the states of                 *)
(* domain/delivery.ts one step at a time.  Each attempt is counted and has *)
(* at most one outcome, what is delivered is never attempted again, only   *)
(* an attempt or its failure changes what can be attempted, and once the   *)
(* content is sealed nothing happens but its removal.                      *)
(***************************************************************************)
EXTENDS Integers

CONSTANTS Deliveries, Limit

VARIABLES
    row,     \* of each delivery its state and the attempts begun
    content  \* "open", "deleting", "sealed", "purged"

lvars == <<row, content>>

Nothing == [state |-> "absent", attempts |-> 0]
New     == [state |-> "pending", attempts |-> 0]

Open       == content = "open"
Unsealed   == content \in {"open", "deleting"}
Attemptable(d) == row[d].state \in {"pending", "retrying", "delivering"}

Becomes(d, s, n) ==
    /\ row' = [row EXCEPT ![d] = [state |-> s, attempts |-> n]]
    /\ UNCHANGED content

AInit == row = [d \in Deliveries |-> Nothing] /\ content = "open"

(* An event is accepted once, with all its deliveries.                     *)
Accept ==
    /\ Open /\ \A d \in Deliveries : row[d].state = "absent"
    /\ row' = [d \in Deliveries |-> New]
    /\ UNCHANGED content

(* One that a stopped process left as delivering is attempted anew.        *)
Attempt(d) ==
    /\ Unsealed /\ Attemptable(d)
    /\ Becomes(d, "delivering", row[d].attempts + 1)

Outcome(d) ==
    /\ Unsealed /\ row[d].state = "delivering"
    /\ \/ \E s \in {"delivered", "dead"} : Becomes(d, s, row[d].attempts)
       \/ row[d].attempts < Limit /\ Becomes(d, "retrying", row[d].attempts)

(* Maintenance of the subscriber neither counts as an attempt nor ends it. *)
Hold(d) == Unsealed /\ Attemptable(d) /\ Becomes(d, "held", row[d].attempts)

Release(d) == Open /\ row[d].state = "held" /\ Becomes(d, "pending", row[d].attempts)

Replay(d) == Open /\ row[d].state = "dead" /\ Becomes(d, "pending", 0)

Delete == Open /\ content' = "deleting" /\ UNCHANGED row

Seal == content = "deleting" /\ content' = "sealed" /\ UNCHANGED row

Purge ==
    /\ content = "sealed" /\ content' = "purged"
    /\ row' = [d \in Deliveries |-> Nothing]

ANext ==
    \/ \E d \in Deliveries : \/ Attempt(d) \/ Outcome(d) \/ Hold(d)
                             \/ Release(d) \/ Replay(d)
    \/ Accept \/ Delete \/ Seal \/ Purge

ASpec == AInit /\ [][ANext]_lvars
=============================================================================
