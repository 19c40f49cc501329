------------------------------ MODULE EventBus ------------------------------
(***************************************************************************)
(* packages/eventbus: the transactional event log and one named consumer,  *)
(* whose replicas share a cursor row.  publishDomainEvent inserts in the   *)
(* caller's transaction, so the bigserial id is taken at the insert and    *)
(* becomes visible at the commit.  runOnce reads a batch after the cursor  *)
(* under the cursor's row lock, calls the handlers (which write in         *)
(* transactions of their own), and commits the cursor it reached together  *)
(* with the dead letters.                                                  *)
(***************************************************************************)
EXTENDS Integers, FiniteSets

CONSTANTS
    MaxEvents,   \* bound: events published
    MaxOpen,     \* bound: publishing transactions open at a time
    Replicas,    \* processes that run the consumer
    Batch,       \* ConsumerOptions.batch
    MaxAttempts, \* ConsumerOptions.maxAttempts
    MaxFaults    \* bound: crashes and lost database sessions

ASSUME BusAssumption ==
    /\ MaxEvents \in Nat /\ MaxOpen \in Nat /\ MaxFaults \in Nat
    /\ Batch \in Nat \ {0} /\ MaxAttempts \in Nat \ {0} /\ IsFiniteSet(Replicas)

Ids == 1..MaxEvents

VARIABLES
    event,     \* id -> "unused", "open", "committed", "aborted", "removed"
    nextId,    \* the sequence behind the bigserial id
    cursor,    \* event_cursors.last_event_id, committed
    dead,      \* event_dead_letters of this consumer, committed
    surveyed,  \* id -> what a content survey last read of the event
    pc,        \* replica -> "idle", "active", "severed" (session lost)
    batch,     \* replica -> rows its transaction read, locked FOR KEY SHARE
    reached,   \* replica -> cursor value written in its transaction
    letters,   \* replica -> dead letters written in its transaction
    attempts,  \* replica -> id -> failures counted in its memory
    handled,   \* ghost: id -> times all handlers of the event succeeded
    failed,    \* ghost: id -> times a handler of the event threw
    faults

log   == <<event, nextId, surveyed>>
local == <<pc, batch, reached, letters, attempts>>
vars  == <<event, nextId, cursor, dead, surveyed, pc, batch, reached, letters,
           attempts, handled, failed, faults>>

OpenIds   == {i \in Ids : event[i] = "open"}
Committed == {i \in Ids : event[i] = "committed"}
Locked    == {i \in Ids : \E r \in Replicas : pc[r] = "active" /\ i \in batch[r]}
Todo(r)   == {i \in batch[r] : i > reached[r]}
NextIn(r) == {i \in Todo(r) : \A k \in Todo(r) : i <= k}

Init ==
    /\ event = [i \in Ids |-> "unused"] /\ nextId = 1
    /\ cursor = 0 /\ dead = {}
    /\ surveyed = [i \in Ids |-> "none"]
    /\ pc = [r \in Replicas |-> "idle"]
    /\ batch = [r \in Replicas |-> {}]
    /\ reached = [r \in Replicas |-> 0]
    /\ letters = [r \in Replicas |-> {}]
    /\ attempts = [r \in Replicas |-> [i \in Ids |-> 0]]
    /\ handled = [i \in Ids |-> 0] /\ failed = [i \in Ids |-> 0]
    /\ faults = 0

-----------------------------------------------------------------------------
(* publishDomainEvent inside a caller's transaction, and that              *)
(* transaction's end.                                                      *)
Publish ==
    /\ nextId <= MaxEvents /\ Cardinality(OpenIds) < MaxOpen
    /\ event' = [event EXCEPT ![nextId] = "open"]
    /\ nextId' = nextId + 1
    /\ UNCHANGED <<cursor, dead, surveyed, local, handled, failed, faults>>

EndPublish(i) ==
    /\ event[i] = "open"
    /\ \E end \in {"committed", "aborted"} : event' = [event EXCEPT ![i] = end]
    /\ UNCHANGED <<nextId, cursor, dead, surveyed, local, handled, failed, faults>>

(* runOnce opens its transaction: the cursor row FOR UPDATE, then the      *)
(* first Batch committed events after it FOR KEY SHARE.                    *)
Begin(r) ==
    /\ pc[r] = "idle"
    /\ \A q \in Replicas : pc[q] # "active"
    /\ LET after == {i \in Committed : i > cursor}
           rank(i) == Cardinality({k \in after : k <= i})
       IN  /\ after # {}
           /\ batch' = [batch EXCEPT ![r] = {i \in after : rank(i) <= Batch}]
    /\ pc' = [pc EXCEPT ![r] = "active"]
    /\ reached' = [reached EXCEPT ![r] = cursor]
    /\ letters' = [letters EXCEPT ![r] = {}]
    /\ UNCHANGED <<log, cursor, dead, attempts, handled, failed, faults>>

(* The transaction ends.  The callback of db.transaction has returned.     *)
EndTx(r) ==
    /\ pc' = [pc EXCEPT ![r] = "idle"]
    /\ batch' = [batch EXCEPT ![r] = {}]
    /\ reached' = [reached EXCEPT ![r] = 0]
    /\ letters' = [letters EXCEPT ![r] = {}]

CommitTx(r, upTo, dl) == cursor' = upTo /\ dead' = dead \cup dl /\ EndTx(r)
RollBack(r) == UNCHANGED <<cursor, dead>> /\ EndTx(r)

(* The batch moves on past event i; after the last one it commits.  With   *)
(* the session lost the next statement throws and the callback rejects.    *)
Advance(r, i, dl) ==
    IF pc[r] = "severed" THEN RollBack(r)
    ELSE IF Todo(r) = {i} THEN CommitTx(r, i, dl)
    ELSE /\ reached' = [reached EXCEPT ![r] = i]
         /\ letters' = [letters EXCEPT ![r] = dl]
         /\ UNCHANGED <<cursor, dead, pc, batch>>

(* dispatch: every handler of the event returned.                          *)
Handle(r) ==
    \E i \in NextIn(r) :
        /\ handled' = [handled EXCEPT ![i] = @ + 1]
        /\ attempts' = [attempts EXCEPT ![r][i] = 0]
        /\ Advance(r, i, letters[r])
        /\ UNCHANGED <<log, failed, faults>>

(* Mutants: the loop continues with the next event; the exception leaves   *)
(* the transaction; the failure is not counted.                            *)
RetrySkips(r) ==
    \E i \in NextIn(r) :
        /\ failed' = [failed EXCEPT ![i] = @ + 1]
        /\ attempts[r][i] + 1 < MaxAttempts
        /\ attempts' = [attempts EXCEPT ![r][i] = @ + 1]
        /\ Advance(r, i, letters[r])
        /\ UNCHANGED <<log, handled, faults>>
RetryRollsBack(r) ==
    \E i \in NextIn(r) :
        /\ failed' = [failed EXCEPT ![i] = @ + 1]
        /\ attempts[r][i] + 1 < MaxAttempts
        /\ attempts' = [attempts EXCEPT ![r][i] = @ + 1]
        /\ RollBack(r)
        /\ UNCHANGED <<log, handled, faults>>
RetryUncounted(r) ==
    \E i \in NextIn(r) :
        /\ attempts[r][i] + 1 < MaxAttempts
        /\ CommitTx(r, reached[r], letters[r])
        /\ UNCHANGED <<log, handled, failed, attempts, faults>>

(* dispatch: a handler threw, and the process has failures left: the loop  *)
(* breaks off and the transaction commits what it reached.                 *)
Retry(r) ==
    \E i \in NextIn(r) :
        /\ failed' = [failed EXCEPT ![i] = @ + 1]
        /\ attempts[r][i] + 1 < MaxAttempts
        /\ attempts' = [attempts EXCEPT ![r][i] = @ + 1]
        /\ IF pc[r] = "severed" THEN RollBack(r)
                                ELSE CommitTx(r, reached[r], letters[r])
        /\ UNCHANGED <<log, handled, faults>>

(* dispatch: a handler threw for the last time.  On a lost session the     *)
(* dead letter insert throws before the counter is dropped.                *)
DeadLetter(r) ==
    \E i \in NextIn(r) :
        /\ failed' = [failed EXCEPT ![i] = @ + 1]
        /\ attempts[r][i] + 1 >= MaxAttempts
        /\ attempts' = [attempts EXCEPT ![r][i] =
                            IF pc[r] = "severed" THEN @ + 1 ELSE 0]
        /\ Advance(r, i, letters[r] \cup {i})
        /\ UNCHANGED <<log, handled, faults>>

-----------------------------------------------------------------------------
(* The process dies: its transaction rolls back, its memory is gone.       *)
Crash(r) ==
    /\ faults < MaxFaults /\ faults' = faults + 1
    /\ pc[r] # "idle"
    /\ RollBack(r)
    /\ attempts' = [attempts EXCEPT ![r] = [i \in Ids |-> 0]]
    /\ UNCHANGED <<log, handled, failed>>

(* The database drops the session: locks and writes of the transaction are *)
(* gone at once, the handler that is running does not know yet.            *)
SessionLost(r) ==
    /\ faults < MaxFaults /\ faults' = faults + 1
    /\ pc[r] = "active"
    /\ pc' = [pc EXCEPT ![r] = "severed"]
    /\ UNCHANGED <<log, cursor, dead, batch, reached, letters, attempts,
                   handled, failed>>

(* Mutant: the consumer's row locks are not waited for.                    *)
RemoveUnlocked(i) ==
    /\ i \in Ids /\ event[i] = "committed"
    /\ surveyed[i] = IF i \in dead THEN "dead" ELSE "clean"
    /\ event' = [event EXCEPT ![i] = "removed"]
    /\ dead' = dead \ {i}
    /\ UNCHANGED <<nextId, cursor, surveyed, local, handled, failed, faults>>

(* readEventContents and removeEventContents of a project deletion: rows   *)
(* whose content, dead letters included, is still what was surveyed.       *)
Content(i) == IF i \in dead THEN "dead" ELSE "clean"

Survey(i) ==
    /\ i \in Committed
    /\ surveyed' = [surveyed EXCEPT ![i] = Content(i)]
    /\ UNCHANGED <<event, nextId, cursor, dead, local, handled, failed, faults>>

Remove(i) ==
    /\ i \in Committed /\ surveyed[i] = Content(i)
    /\ i \notin Locked
    /\ event' = [event EXCEPT ![i] = "removed"]
    /\ dead' = dead \ {i}
    /\ UNCHANGED <<nextId, cursor, surveyed, local, handled, failed, faults>>

Next ==
    \/ Publish
    \/ \E i \in Ids : EndPublish(i) \/ Survey(i) \/ Remove(i)
    \/ \E r \in Replicas : \/ Begin(r) \/ Handle(r) \/ Retry(r) \/ DeadLetter(r)
                           \/ Crash(r) \/ SessionLost(r)

Spec == Init /\ [][Next]_vars

(* Publishing transactions end, and a running consumer loop polls, and     *)
(* dispatches the rows it read (a handler returns or throws).              *)
Fairness ==
    /\ \A i \in Ids : WF_vars(EndPublish(i))
    /\ WF_vars(\E r \in Replicas : Begin(r))
    /\ \A r \in Replicas : WF_vars(Handle(r) \/ Retry(r) \/ DeadLetter(r))

FairSpec == Spec /\ Fairness

-----------------------------------------------------------------------------
(* The log, the cursor and each replica's transaction keep their types.    *)
TypeOK ==
    /\ event \in [Ids -> {"unused", "open", "committed", "aborted", "removed"}]
    /\ nextId \in 1..(MaxEvents + 1) /\ cursor \in 0..MaxEvents
    /\ dead \subseteq Ids
    /\ surveyed \in [Ids -> {"none", "clean", "dead"}]
    /\ pc \in [Replicas -> {"idle", "active", "severed"}]
    /\ batch \in [Replicas -> SUBSET Ids]
    /\ reached \in [Replicas -> 0..MaxEvents]
    /\ letters \in [Replicas -> SUBSET Ids]
    /\ attempts \in [Replicas -> [Ids -> Nat]]
    /\ handled \in [Ids -> Nat] /\ failed \in [Ids -> Nat] /\ faults \in Nat

(* At least once (consumer.ts): the cursor passes a committed event only   *)
(* after its handlers ran or a dead letter was kept for it.                *)
NoEventSkipped ==
    \A i \in Committed : i <= cursor => handled[i] > 0 \/ i \in dead

(* A dead letter is kept only after a handler threw MaxAttempts times, and *)
(* belongs to an event that still exists: a removed event gets no late     *)
(* error.                                                                  *)
DeadLettersEarned == \A i \in dead : /\ failed[i] >= MaxAttempts
                                     /\ event[i] = "committed"

(* Without a crash or a lost session every event is handled at most once:  *)
(* a retry re-runs the event that failed, never those before it.           *)
DuplicatesNeedFaults == \A i \in Ids : handled[i] <= 1 + faults

(* While the replicas run, every committed event ends as handled, dead     *)
(* lettered or removed, even one whose handler always throws.              *)
EveryEventSettles ==
    \A i \in Ids : event[i] = "committed" ~>
        handled[i] > 0 \/ i \in dead \/ event[i] = "removed"
=============================================================================
