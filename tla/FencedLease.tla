----------------------------- MODULE FencedLease -----------------------------
(***************************************************************************)
(* What a leased job promises to the code that runs under it, with neither *)
(* clocks, rows nor processes: every grant opens a new term, effects are   *)
(* committed in the order of the terms and only while their term is open,  *)
(* and only the open term can be given back or closed.                     *)
(***************************************************************************)
EXTENDS Integers

CONSTANT Tasks

VARIABLES
    phase,  \* "none", "open" (waiting), "leased", "closed"
    term,   \* the last term granted
    effect  \* the term of the last effect committed

avars == <<phase, term, effect>>

AInit ==
    /\ phase = [t \in Tasks |-> "none"]
    /\ term = [t \in Tasks |-> 0]
    /\ effect = [t \in Tasks |-> 0]

Submit(t) ==
    /\ phase[t] = "none"
    /\ phase' = [phase EXCEPT ![t] = "open"]
    /\ UNCHANGED <<term, effect>>

(* A batch is granted at once; a closed task may be granted again.         *)
Grant(S) ==
    /\ \A t \in S : phase[t] # "none"
    /\ phase' = [t \in Tasks |-> IF t \in S THEN "leased" ELSE phase[t]]
    /\ term' = [t \in Tasks |-> IF t \in S THEN term[t] + 1 ELSE term[t]]
    /\ UNCHANGED effect

Commit(t) ==
    /\ phase[t] = "leased"
    /\ effect' = [effect EXCEPT ![t] = term[t]]
    /\ UNCHANGED <<phase, term>>

Yield(t) ==
    /\ phase[t] = "leased"
    /\ \E p \in {"open", "closed"} : phase' = [phase EXCEPT ![t] = p]
    /\ UNCHANGED <<term, effect>>

ANext ==
    \/ \E t \in Tasks : Submit(t) \/ Commit(t) \/ Yield(t)
    \/ \E S \in SUBSET Tasks : Grant(S)

ASpec == AInit /\ [][ANext]_avars
=============================================================================
