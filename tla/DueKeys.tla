------------------------------ MODULE DueKeys ------------------------------
(***************************************************************************)
(* What the work queue promises a reconciler, with neither lists, dirty    *)
(* marks nor delays: a set of keys that are due.  A trigger makes its key  *)
(* due, only a handler that begins afterwards takes the debt away, a key   *)
(* has one handler at a time, no handler is idle while it could work, a    *)
(* key that fails is put off and never dropped, and once the queue has     *)
(* closed no handler begins.                                               *)
(***************************************************************************)
EXTENDS Integers, FiniteSets

CONSTANTS Keys, Handlers

VARIABLES
    due,   \* keys triggered since their last handler began
    busy,  \* keys with a handler
    later, \* keys that will trigger themselves
    mode   \* "new", "open", "closing", "closed"

dvars == <<due, busy, later, mode>>

AInit == due = {} /\ busy = {} /\ later = {} /\ mode = "new"

(* Handlers begin with keys of d beside those of b: as many as can, and    *)
(* none unless the queue is open.                                          *)
Begin(open, d, b) ==
    \E S \in SUBSET (d \ b) :
        /\ due' = d \ S /\ busy' = b \cup S
        /\ Cardinality(busy') <= Handlers
        /\ IF open THEN due' \subseteq busy' \/ Cardinality(busy') = Handlers
                   ELSE S = {}

Trigger(k) == Begin(mode = "open", due \cup {k}, busy) /\ UNCHANGED <<later, mode>>

PutOff(k) == later' = later \cup {k} /\ UNCHANGED <<due, busy, mode>>

ComeDue(k) ==
    /\ k \in later
    /\ later' = later \ {k}
    /\ Begin(mode = "open", due \cup {k}, busy)
    /\ UNCHANGED mode

(* The end of a handler.  An open queue keeps what its key was triggered   *)
(* for meanwhile; another one has no use for it.                           *)
Return(k) ==
    /\ k \in busy
    /\ Begin(mode = "open", IF mode = "open" THEN due ELSE due \ {k}, busy \ {k})
    /\ UNCHANGED mode

ReturnWell(k) == Return(k) /\ UNCHANGED later

ReturnIll(k) ==
    /\ Return(k)
    /\ later' = IF mode = "open" THEN later \cup {k} ELSE later

Open ==
    /\ mode = "new" /\ mode' = "open"
    /\ Begin(TRUE, due, busy)
    /\ UNCHANGED later

Close ==
    /\ mode = "open" /\ mode' = "closing" /\ later' = {}
    /\ UNCHANGED <<due, busy>>

(* Closing has an end: nobody works any more.                              *)
Closed ==
    /\ mode = "closing" /\ busy = {} /\ mode' = "closed"
    /\ UNCHANGED <<due, busy, later>>

ANext ==
    \/ \E k \in Keys : \/ Trigger(k) \/ PutOff(k) \/ ComeDue(k)
                       \/ ReturnWell(k) \/ ReturnIll(k)
    \/ Open \/ Close \/ Closed

ASpec == AInit /\ [][ANext]_dvars
=============================================================================
