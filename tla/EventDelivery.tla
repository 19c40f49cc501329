---------------------------- MODULE EventDelivery ----------------------------
(***************************************************************************)
(* modules/events: one delivery of an event to a subscriber, driven by a   *)
(* queue job.  Several callbacks may work for one delivery at a time: a    *)
(* lease that lapses hands the job to another worker, and a callback whose *)
(* admission connection broke outlives the worker that awaited it.  Three  *)
(* pieces of durable state keep them apart: the job's fencing token, the   *)
(* deletion_work row that names the callback in flight, and the admission  *)
(* lock that the deletion of the project takes exclusively.                *)
(*                                                                         *)
(* All deliveries belong to one event, one service and one project.  The   *)
(* backoff is the freedom of a pending job to be claimed at any time.      *)
(***************************************************************************)
EXTENDS Integers, FiniteSets

CONSTANTS
    Deliveries,   \* the subscriptions the event fans out to
    Processes,    \* containers of cs-events; a stopped one never returns
    MaxAttempts,  \* EventsSettings.maxAttempts
    Margin,       \* JOB_ATTEMPT_MARGIN
    MaxReplays,   \* bound: dead letters replayed
    MaxHolds,     \* bound: changes of the subscriber's maintenance hold
    MaxFaults     \* bound: crashes, lapsed leases, lost locks, failed writes

ASSUME DeliveryAssumption ==
    /\ MaxAttempts \in Nat \ {0} /\ Margin \in Nat
    /\ MaxReplays \in Nat /\ MaxHolds \in Nat /\ MaxFaults \in Nat
    /\ Processes # {}

RESUMABLE == {"pending", "retrying", "delivering"}
Final     == {"delivered", "dead", "held"}
Row       == [state : RESUMABLE \cup Final \cup {"absent"}, attempts : Nat]
Job       == [state : {"none", "pending", "running", "done", "dead"},
              attempts : Nat, token : Nat]
Work      == [state : {"none", "running", "finished"}, generation : Nat,
              owner : Processes]
Call      == [d : Deliveries, proc : Processes, token : Nat,
              pc : {"claimed", "seen", "admitted", "working", "holding",
                    "beginning", "pushing", "exiting", "replying"},
              snap : Row, generation : Nat, guard : BOOLEAN, waited : BOOLEAN,
              ok : BOOLEAN]
Phases    == {"open", "deleting", "sealed", "purged"}

VARIABLES
    row,      \* events.deliveries
    job,      \* the newest events.deliver job of each delivery
    work,     \* events.deletion_work
    calls,    \* callbacks in the memory of the processes
    alive,    \* processes not stopped
    hold,     \* the subscriber is in maintenance and holds its events
    sweep,    \* the deliveries releaseHeld listed and has yet to try
    phase,    \* the project and its deletion fence
    replays, holds, faults

vars   == <<row, job, work, calls, alive, hold, sweep, phase, replays, holds,
            faults>>
world  == <<alive, hold, sweep, phase, replays, holds>>

Absent    == [state |-> "absent", attempts |-> 0]
NoWork    == [state |-> "none", generation |-> 0,
              owner |-> CHOOSE p \in Processes : TRUE]
JobMax    == MaxAttempts + Margin
Busy(d)   == job[d].state \in {"pending", "running"}
Current(c) == job[c.d].state = "running" /\ job[c.d].token = c.token
Fault     == faults < MaxFaults /\ faults' = faults + 1
Replace(c, e) == calls' = (calls \ {c}) \cup {e}
At(pc)    == {c \in calls : c.pc = pc}
Owning(c) == c.pc \in {"working", "holding", "beginning", "pushing", "exiting"}

(* queueDeliveryScheduler: a fresh job; the caller has excluded a busy one. *)
Schedule(d) == job' = [job EXCEPT ![d].state = "pending", ![d].attempts = 0]

(* Mutant: the trigger does not look at the fence.                          *)
WritableAlways(c) == TRUE

(* guard_project_content: the writer's own admission lock keeps the fence   *)
(* open; without one the trigger takes the lock and reads the fence.        *)
Writable(c) == c.guard \/ phase \in {"open", "deleting"}

Init ==
    /\ row = [d \in Deliveries |-> Absent]
    /\ job = [d \in Deliveries |-> [state |-> "none", attempts |-> 0, token |-> 0]]
    /\ work = [d \in Deliveries |-> NoWork]
    /\ calls = {} /\ alive = Processes
    /\ hold = FALSE /\ sweep = {} /\ phase = "open"
    /\ replays = 0 /\ holds = 0 /\ faults = 0

-----------------------------------------------------------------------------
(* produceEvent: one transaction accepts the event, inserts a delivery for *)
(* every active subscription and enqueues its job; a second production of  *)
(* the same dedup key changes nothing.                                     *)
Produce ==
    /\ phase = "open"
    /\ \A d \in Deliveries : row[d].state = "absent"
    /\ row' = [d \in Deliveries |-> [state |-> "pending", attempts |-> 0]]
    /\ job' = [d \in Deliveries |-> [job[d] EXCEPT !.state = "pending"]]
    /\ UNCHANGED <<work, calls, world, faults>>

(* Mutant: the jobs of stopped workers are not claimed again.              *)
ClaimPending(d, p) ==
    /\ p \in alive
    /\ job[d].state = "pending"
    /\ job' = [job EXCEPT ![d] = [state |-> "running", attempts |-> @.attempts + 1,
                                  token |-> @.token + 1]]
    /\ calls' = calls \cup {[d |-> d, proc |-> p, token |-> job[d].token + 1,
                             pc |-> "claimed", snap |-> Absent, generation |-> 0,
                             guard |-> FALSE, waited |-> TRUE, ok |-> FALSE]}
    /\ UNCHANGED <<row, work, world, faults>>

(* claimJobs by the worker of process p.  Taking over from a callback that *)
(* is still awaited needs a lapsed lease, which is a bounded fault.        *)
Claim(d, p) ==
    /\ p \in alive
    /\ \/ job[d].state = "pending" /\ UNCHANGED faults
       \/ /\ job[d].state = "running"
          /\ IF \E c \in calls : c.d = d /\ c.waited /\ Current(c)
             THEN Fault ELSE UNCHANGED faults
    /\ job' = [job EXCEPT ![d] = [state |-> "running", attempts |-> @.attempts + 1,
                                  token |-> @.token + 1]]
    /\ calls' = calls \cup {[d |-> d, proc |-> p, token |-> job[d].token + 1,
                             pc |-> "claimed", snap |-> Absent, generation |-> 0,
                             guard |-> FALSE, waited |-> TRUE, ok |-> FALSE]}
    /\ UNCHANGED <<row, work, world>>

(* The check before admission: a delivery that is final, or gone, ends it. *)
Look(c) ==
    /\ c.pc = "claimed"
    /\ Replace(c, IF row[c.d].state \in RESUMABLE
                  THEN [c EXCEPT !.pc = "seen"]
                  ELSE [c EXCEPT !.pc = "replying", !.ok = TRUE])
    /\ UNCHANGED <<row, job, work, world, faults>>

(* withSharedDatabaseAdmissions, then the fence and assertProjectAvailable. *)
Admit(c) ==
    /\ c.pc = "seen"
    /\ Replace(c, IF phase = "open" THEN [c EXCEPT !.pc = "admitted", !.guard = TRUE]
                                    ELSE [c EXCEPT !.pc = "replying"])
    /\ UNCHANGED <<row, job, work, world, faults>>

(* Mutant: a delivery still in flight is not a conflict.                   *)
BeginDeliveryWorkAnyway(c) ==
    /\ c.pc = "admitted"
    /\ work' = [work EXCEPT ![c.d] = [state |-> "running", owner |-> c.proc,
                                      generation |-> @.generation + 1]]
    /\ Replace(c, [c EXCEPT !.pc = "working",
                            !.generation = work[c.d].generation + 1])
    /\ UNCHANGED <<row, job, world, faults>>

(* beginDeliveryWork with the trigger guard_delivery_work: refused while    *)
(* another callback is recorded in flight, or without the admission lock.   *)
BeginDeliveryWork(c) ==
    /\ c.pc = "admitted"
    /\ IF c.guard /\ work[c.d].state # "running"
       THEN /\ work' = [work EXCEPT ![c.d] = [state |-> "running", owner |-> c.proc,
                                              generation |-> @.generation + 1]]
            /\ Replace(c, [c EXCEPT !.pc = "working",
                                    !.generation = work[c.d].generation + 1])
       ELSE /\ Replace(c, [c EXCEPT !.pc = "replying", !.guard = FALSE])
            /\ UNCHANGED work
    /\ UNCHANGED <<row, job, world, faults>>

(* attemptDelivery reads the delivery again, and then the hold.            *)
Inspect(c) ==
    /\ c.pc = "working"
    /\ Replace(c, IF row[c.d].state \notin RESUMABLE
                  THEN [c EXCEPT !.pc = "exiting", !.ok = TRUE]
                  ELSE [c EXCEPT !.pc = IF hold THEN "holding" ELSE "beginning",
                                 !.snap = row[c.d]])
    /\ UNCHANGED <<row, job, work, world, faults>>

(* deliveries.update writes the whole row from the callback's snapshot.    *)
Write(c, next, pc) ==
    /\ IF Writable(c)
       THEN /\ row' = [row EXCEPT ![c.d] = next]
            /\ Replace(c, [c EXCEPT !.pc = pc, !.ok = next.state \in Final,
                                    !.snap = IF pc = "exiting" THEN Absent ELSE next])
       ELSE /\ Replace(c, [c EXCEPT !.pc = "exiting", !.snap = Absent])
            /\ UNCHANGED row
    /\ UNCHANGED <<job, work, world, faults>>

HoldDelivery(c) ==
    /\ c.pc = "holding"
    /\ Write(c, [c.snap EXCEPT !.state = "held"], "exiting")

BeginAttempt(c) ==
    /\ c.pc = "beginning"
    /\ Write(c, [state |-> "delivering", attempts |-> c.snap.attempts + 1], "pushing")

(* Mutant: the limit of attempts is not looked at.                         *)
MarkFailedAgain(r) == [r EXCEPT !.state = "retrying"]

MarkFailed(r) ==
    [r EXCEPT !.state = IF r.attempts >= MaxAttempts THEN "dead" ELSE "retrying"]

(* From the attempt to its outcome: 2xx; a removed subscription or event,  *)
(* which is fatal; a paused one, no active slot, or a failed POST.         *)
Settle(c) ==
    /\ c.pc = "pushing"
    /\ \E next \in {[c.snap EXCEPT !.state = "delivered"],
                    [c.snap EXCEPT !.state = "dead"], MarkFailed(c.snap)} :
          Write(c, next, "exiting")

(* A statement of the callback throws: the finally block runs next.        *)
Broken(c) ==
    /\ Owning(c) /\ c.pc # "exiting"
    /\ Fault
    /\ Replace(c, [c EXCEPT !.pc = "exiting", !.snap = Absent])
    /\ UNCHANGED <<row, job, work, world>>

(* finishDeliveryWork in the finally block; it may fail too, and the work  *)
(* row then stays running until its process is proved stopped.             *)
FinishDeliveryWork(c) ==
    /\ c.pc = "exiting"
    /\ \/ /\ work' = IF work[c.d].state = "running" /\ work[c.d].generation = c.generation
                     THEN [work EXCEPT ![c.d].state = "finished"] ELSE work
          /\ Replace(c, [c EXCEPT !.pc = "replying", !.guard = FALSE,
                                  !.generation = 0])
          /\ UNCHANGED faults
       \/ /\ Fault
          /\ Replace(c, [c EXCEPT !.pc = "replying", !.guard = FALSE, !.ok = FALSE,
                                  !.generation = 0])
          /\ UNCHANGED work
    /\ UNCHANGED <<row, job, world>>

(* completeJob or failJob; a stale token updates nothing.                  *)
JobAfter(c) ==
    IF ~Current(c) THEN job
    ELSE [job EXCEPT ![c.d].state =
            IF c.ok THEN "done"
            ELSE IF job[c.d].attempts >= JobMax THEN "dead" ELSE "pending"]

Reply(c) ==
    /\ c.pc = "replying"
    /\ calls' = calls \ {c}
    /\ job' = IF c.waited THEN JobAfter(c) ELSE job
    /\ UNCHANGED <<row, work, world, faults>>

(* The admission connection breaks: the driver rejects at once, the worker *)
(* fails the job, and the callback goes on without the lock.               *)
LoseGuard(c) ==
    /\ c.guard
    /\ Fault
    /\ Replace(c, [c EXCEPT !.guard = FALSE, !.waited = FALSE])
    /\ job' = IF c.waited THEN JobAfter([c EXCEPT !.ok = FALSE]) ELSE job
    /\ UNCHANGED <<row, work, world>>

(* A container stops; its replacement is another member of Processes.      *)
Crash(p) ==
    /\ p \in alive /\ alive # {p}
    /\ Fault
    /\ alive' = alive \ {p}
    /\ calls' = {c \in calls : c.proc # p}
    /\ UNCHANGED <<row, job, work, hold, sweep, phase, replays, holds>>

(* Mutant: a replacement container counts as the proof of the stop.        *)
RecoverAnyProcess(p) ==
    /\ \E d \in Deliveries : work[d].state = "running" /\ work[d].owner = p
    /\ work' = [d \in Deliveries |->
                  IF work[d].state = "running" /\ work[d].owner = p
                  THEN [work[d] EXCEPT !.state = "finished"] ELSE work[d]]
    /\ UNCHANGED <<row, job, calls, world, faults>>

(* recoverDeliveryProcess: the original container is proved to have ended. *)
RecoverDeliveryProcess(p) ==
    /\ p \notin alive
    /\ \E d \in Deliveries : work[d].state = "running" /\ work[d].owner = p
    /\ work' = [d \in Deliveries |->
                  IF work[d].state = "running" /\ work[d].owner = p
                  THEN [work[d] EXCEPT !.state = "finished"] ELSE work[d]]
    /\ UNCHANGED <<row, job, calls, world, faults>>

-----------------------------------------------------------------------------
(* Maintenance of the subscriber begins or ends.                           *)
ChangeHold ==
    /\ holds < MaxHolds /\ holds' = holds + 1
    /\ hold' = ~hold
    /\ UNCHANGED <<row, job, work, calls, alive, sweep, phase, replays, faults>>

Held == {d \in Deliveries : row[d].state = "held"}

(* Mutant: the test of the hold is inverted.                               *)
BeginSweepInverted ==
    /\ sweep = {} /\ Held # {} /\ hold
    /\ sweep' = Held
    /\ UNCHANGED <<row, job, work, calls, alive, hold, phase, replays, holds, faults>>

(* releaseHeld, by the 30 s sweep or on maintenanceChanged: it lists the   *)
(* held deliveries and asks the hold, and then tries them one by one.      *)
BeginSweep ==
    /\ sweep = {} /\ Held # {} /\ ~hold
    /\ sweep' = Held
    /\ UNCHANGED <<row, job, work, calls, alive, hold, phase, replays, holds, faults>>

(* Mutant: the enqueue is taken as accepted though it was deduplicated.    *)
ReleaseHeldBusy(d) ==
    /\ d \in sweep /\ sweep' = sweep \ {d}
    /\ IF phase = "open" /\ row[d].state = "held"
       THEN /\ row' = [row EXCEPT ![d].state = "pending"]
            /\ IF Busy(d) THEN UNCHANGED job ELSE Schedule(d)
       ELSE UNCHANGED <<row, job>>
    /\ UNCHANGED <<work, calls, alive, hold, phase, replays, holds, faults>>

(* The state is read again under the row lock, and a busy job rolls the    *)
(* transaction back: such a delivery is left to the next sweep.            *)
ReleaseHeld(d) ==
    /\ d \in sweep /\ sweep' = sweep \ {d}
    /\ IF phase = "open" /\ row[d].state = "held" /\ ~Busy(d)
       THEN row' = [row EXCEPT ![d].state = "pending"] /\ Schedule(d)
       ELSE UNCHANGED <<row, job>>
    /\ UNCHANGED <<work, calls, alive, hold, phase, replays, holds, faults>>

(* A dead letter starts a new count and a new job, in one transaction.     *)
ReplayDelivery(d) ==
    /\ phase = "open" /\ row[d].state = "dead" /\ ~Busy(d)
    /\ replays < MaxReplays /\ replays' = replays + 1
    /\ row' = [row EXCEPT ![d] = [state |-> "pending", attempts |-> 0]]
    /\ Schedule(d)
    /\ UNCHANGED <<work, calls, alive, hold, sweep, phase, holds, faults>>

-----------------------------------------------------------------------------
(* The project enters deletion: assertProjectAvailable fails from here on. *)
DeleteProject ==
    /\ phase = "open" /\ phase' = "deleting"
    /\ UNCHANGED <<row, job, work, calls, alive, hold, sweep, replays, holds, faults>>

(* seal: the exclusive admission waits for every shared holder.            *)
Seal ==
    /\ phase = "deleting" /\ \A c \in calls : ~c.guard
    /\ phase' = "sealed"
    /\ UNCHANGED <<row, job, work, calls, alive, hold, sweep, replays, holds, faults>>

(* Mutant: deletionWorkPending is not consulted.                           *)
PurgePending ==
    /\ phase = "sealed"
    /\ phase' = "purged"
    /\ row' = [d \in Deliveries |-> Absent]
    /\ UNCHANGED <<job, work, calls, alive, hold, sweep, replays, holds, faults>>

(* purge: refused while any delivery of the project is recorded in flight. *)
Purge ==
    /\ phase = "sealed"
    /\ \A d \in Deliveries : work[d].state # "running"
    /\ phase' = "purged"
    /\ row' = [d \in Deliveries |-> Absent]
    /\ work' = [d \in Deliveries |-> NoWork]
    /\ UNCHANGED <<job, calls, alive, hold, sweep, replays, holds, faults>>

-----------------------------------------------------------------------------
Callback(c) ==
    \/ Look(c) \/ Admit(c) \/ BeginDeliveryWork(c) \/ Inspect(c)
    \/ HoldDelivery(c) \/ BeginAttempt(c) \/ Settle(c)
    \/ FinishDeliveryWork(c) \/ Reply(c)

Next ==
    \/ Produce \/ ChangeHold \/ BeginSweep
    \/ DeleteProject \/ Seal \/ Purge
    \/ \E d \in Deliveries : \/ ReleaseHeld(d) \/ ReplayDelivery(d)
                             \/ \E p \in Processes : Claim(d, p)
    \/ \E p \in Processes : Crash(p) \/ RecoverDeliveryProcess(p)
    \/ \E c \in calls : Callback(c) \/ Broken(c) \/ LoseGuard(c)

Spec == Init /\ [][Next]_vars

(* Workers poll, a push ends within pushTimeoutMs and every statement      *)
(* returns; the held sweep runs every 30 s and tries each held delivery.   *)
Fairness ==
    /\ WF_vars(\E c \in calls : Callback(c))
    /\ WF_vars(BeginSweep)
    /\ \A d \in Deliveries : /\ WF_vars(\E p \in Processes : Claim(d, p))
                            /\ WF_vars(ReleaseHeld(d))

FairSpec == Spec /\ Fairness

-----------------------------------------------------------------------------
(* The columns keep their types.                                           *)
TypeOK ==
    /\ row \in [Deliveries -> Row] /\ job \in [Deliveries -> Job]
    /\ work \in [Deliveries -> Work] /\ calls \subseteq Call
    /\ alive \subseteq Processes
    /\ hold \in BOOLEAN /\ sweep \subseteq Deliveries /\ phase \in Phases
    /\ replays \in 0..MaxReplays /\ holds \in 0..MaxHolds
    /\ faults \in 0..MaxFaults

(* At most one callback works for a delivery at any time, however often    *)
(* the job changed hands: no two pushes of one delivery overlap.           *)
OneCallbackWorks ==
    \A c, e \in calls : Owning(c) /\ Owning(e) /\ c.d = e.d => c = e

(* What a callback will write is derived from the row as it stands, though *)
(* the callback read it several awaits ago in no transaction.              *)
SnapshotFresh ==
    \A c \in At("holding") \cup At("beginning") \cup At("pushing") :
        phase = "purged" \/ c.snap = row[c.d]

(* Once the content of a deleted project is purged no callback is at work. *)
PurgeFindsNoCallback == phase = "purged" => ~\E c \in calls : Owning(c)

(* A delivery that can still be attempted has a job that will attempt it,  *)
(* unless that job exhausted its own attempts.                             *)
NotForgotten ==
    \A d \in Deliveries : row[d].state \in RESUMABLE =>
        Busy(d) \/ job[d].state = "dead"

(* Behind the fence no delivery changes any more, except by the purge.     *)
SealedIsFrozen ==
    [][phase = "sealed" => row' = row \/ phase' = "purged"]_vars

(* Whatever callbacks, leases and processes do, each row lives the life of *)
(* a delivery: one step of the table at a time, every attempt counted, no  *)
(* outcome overwritten, and nothing behind the fence but the purge.        *)
Life == INSTANCE DeliveryLife WITH Limit <- MaxAttempts, content <- phase

LivesALife == Life!ASpec

(* An attempt beyond MaxAttempts was paid for by a fault that took the     *)
(* outcome of an earlier one: beginAttempt itself never looks at the limit.*)
PushesBounded == \A d \in Deliveries : row[d].attempts <= MaxAttempts + faults

(* queueDeliveryScheduler.ts: the margin guarantees that the delivery is   *)
(* decided dead before its job is.                                         *)
DeliveryDiesFirst ==
    \A d \in Deliveries : phase = "open" /\ job[d].state = "dead" =>
        row[d].state \notin RESUMABLE

(* Every delivery is decided or held, unless its job was exhausted or its  *)
(* project is being deleted.                                               *)
EveryDeliverySettles ==
    \A d \in Deliveries : row[d].state \in RESUMABLE ~>
        \/ row[d].state \in Final \/ job[d].state = "dead" \/ phase # "open"

(* A held delivery is released once the subscriber leaves maintenance.     *)
HeldIsReleased ==
    \A d \in Deliveries : row[d].state = "held" ~>
        row[d].state # "held" \/ hold \/ phase # "open"

=============================================================================
