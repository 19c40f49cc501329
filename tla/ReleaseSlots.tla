---------------------------- MODULE ReleaseSlots ----------------------------
(***************************************************************************)
(* modules/release: the releases of one service and its two slots, with    *)
(* everything that moves them: the publish pipeline and its queue jobs,    *)
(* redeployment, taking offline, cluster maintenance, the switch of        *)
(* traffic and the controlled handoff.  Slots are built by the resource    *)
(* centre (creation = 'ledger').                                           *)
(*                                                                         *)
(* Every transaction of this module locks the service's slot row first, so *)
(* a transaction is one step; what is read outside of one and used later   *)
(* is kept in the memory of whoever read it.  A job is run by one worker   *)
(* at a time, which is what the queue's lease promises (module JobQueue);  *)
(* the handoffs have a lease of their own and it may run out here.         *)
(***************************************************************************)
EXTENDS Integers, FiniteSets

CONSTANTS
    NRelease,    \* releases, numbered by the time of their creation
    Controlled,  \* releases whose manifest asks for fenced execution
    Blocking,    \* releases that refuse a return to older ones
    Worker,      \* processes that progress handoffs
    MaxFault     \* bound: faults of either kind

Release == 1..NRelease

ASSUME ReleaseAssumption ==
    /\ NRelease \in Nat \ {0} /\ MaxFault \in Nat
    /\ Controlled \subseteq Release /\ Blocking \subseteq Release
    /\ Worker \subseteq Nat \ {0}

VARIABLES
    row,       \* release.releases: status, target slot, readyAt
    late,      \* the release in progress has exceeded its stage's time limit
    job,       \* the pipeline's job and, while it runs, what it has read
    active,    \* service_slots.active
    slot,      \* service_slots.blue and .green
    record,    \* the ledger's service-slot records: whose workload, serving
    synced,    \* slots whose recorded spec is that of the slot row
    deployed,  \* the Deployments as the ledger observes them
    report,    \* slotFailed callbacks of the reconciler in flight
    op,        \* the maintenance operation that is prepared or applied
    verdict,   \* what its observer has seen and not yet acted on
    handoff,   \* the execution handoff that is not complete
    holder, leased,  \* owner and lease of the handoff's row
    hand,      \* the stage a worker claimed the handoff in
    owed,      \* ghost: moves of traffic without a switch record
    faults     \* ghost: how often each kind of fault has happened

pipeVars == <<late, job>>
ledgerVars == <<record, synced, deployed, report>>
opVars == <<op, verdict>>
handVars == <<handoff, holder, leased, hand>>
vars == <<row, late, job, active, slot, record, synced, deployed, report,
          op, verdict, handoff, holder, leased, hand, owed, faults>>

None == 0
Slot == {"blue", "green"}
StandbyOf(p) == IF p = "blue" THEN "green" ELSE "blue"
Standby == StandbyOf(active)

InProgress == {"pending", "building", "migrating", "deploying"}
Settled == {"ready", "superseded", "offline", "failed"}
Stage == {"freezing", "preparing", "routing", "activating"}
Kind == {"crash", "projection"}

Row == [status : {"none"} \cup InProgress \cup Settled, target : Slot, readyAt : BOOLEAN]
(* rel: releaseId; work: workload.releaseId; off: offline is recorded      *)
SlotRow == [rel : Release \cup {None}, state : {"empty", "deploying", "ready", "failed"},
            work : Release \cup {None}, off : BOOLEAN]
JobState == [pc : {"none", "accepted", "queued", "run", "act"}, rel : Release \cup {None},
             snap : Row, saw : {"none", "deploying", "ready", "failed"}]
Handoff == [stage : Stage \cup {"none"}, target : Release \cup {None},
            from : Release \cup {None}, slot : Slot]
NoRow == [status |-> "none", target |-> "blue", readyAt |-> FALSE]
NoSlot == [rel |-> None, state |-> "empty", work |-> None, off |-> FALSE]
NoRecord == [rel |-> None, serving |-> FALSE]
NoDeployment == [rel |-> None, phase |-> "absent", fresh |-> FALSE]
NoJob == [pc |-> "none", rel |-> None, snap |-> NoRow, saw |-> "none"]
NoOp == [action |-> "none", slot |-> "blue"]
NoHandoff == [stage |-> "none", target |-> None, from |-> None, slot |-> "blue"]

Init ==
    /\ row = [r \in Release |-> NoRow] /\ late = FALSE /\ job = NoJob
    /\ active = "blue" /\ slot = [p \in Slot |-> NoSlot]
    /\ record = [p \in Slot |-> NoRecord] /\ synced = [p \in Slot |-> TRUE]
    /\ deployed = [p \in Slot |-> NoDeployment] /\ report = [p \in Slot |-> FALSE]
    /\ op = NoOp /\ verdict = "none"
    /\ handoff = NoHandoff /\ holder = None /\ leased = FALSE
    /\ hand = [w \in Worker |-> "none"]
    /\ owed = 0 /\ faults = [k \in Kind |-> 0]

Busy(r) == row[r].status \in InProgress
FindInProgress == {r \in Release : Busy(r)}
OnASlot(r) == \E p \in Slot : slot[p].rel = r
HasWorkload(s) == s.rel # None /\ s.state # "empty"

(* busyReason, and the same three questions in publish, switchTraffic,     *)
(* check and stepService.                                                  *)
Quiet == handoff = NoHandoff /\ FindInProgress = {} /\ op = NoOp

(* crash: a process dies, or stalls until its lease is lost; projection:   *)
(* the slot row is saved without its ledger record.                        *)
Fault(k) ==
    /\ faults["crash"] + faults["projection"] < MaxFault
    /\ faults' = [faults EXCEPT ![k] = @ + 1]

-----------------------------------------------------------------------------
(* Saving the slot row projects both slots into the ledger in a savepoint: *)
(* a projection that fails is only logged.                                 *)

Projected(s) == [p \in Slot |-> [rel |-> s[p].work, serving |-> s[p].rel # None /\ ~s[p].off]]

(* SlotRepository.save with its projection; `changed` are the slots whose  *)
(* workload (revision, restart mark or replicas) is a new one.             *)
SaveSlots(s, changed) ==
    /\ slot' = s
    /\ \/ /\ record' = Projected(s)
          /\ synced' = [p \in Slot |-> TRUE]
          /\ deployed' = [p \in Slot |-> [deployed[p] EXCEPT
                            !.fresh = @ /\ synced[p] /\ p \notin changed]]
          /\ UNCHANGED faults
       \/ /\ Fault("projection")
          /\ synced' = [p \in Slot |-> synced[p] /\ p \notin changed]
          /\ UNCHANGED <<record, deployed>>

(* resyncSlotLedger: the periodic projection that makes up for lost ones.  *)
Resync ==
    /\ record # Projected(slot) \/ \E p \in Slot : ~synced[p]
    /\ record' = Projected(slot)
    /\ synced' = [p \in Slot |-> TRUE]
    /\ deployed' = [p \in Slot |-> [deployed[p] EXCEPT !.fresh = @ /\ synced[p]]]
    /\ UNCHANGED <<row, active, slot, report, pipeVars, opVars, handVars, owed, faults>>

(* wants(slot, ref) for the reference the record names.                    *)
Wants(p) ==
    /\ synced[p] /\ ~slot[p].off
    /\ slot[p].rel # None /\ slot[p].rel = slot[p].work

(* The reconciler: the environment Secret (slotEnvValues), then the        *)
(* Deployment of the recorded generation.                                  *)
Apply(p) ==
    /\ record[p].serving /\ ~deployed[p].fresh /\ Wants(p)
    /\ deployed' = [deployed EXCEPT ![p] =
                      [rel |-> record[p].rel, phase |-> "starting", fresh |-> TRUE]]
    /\ UNCHANGED <<row, active, slot, record, synced, report, pipeVars, opVars, handVars,
                   owed, faults>>

RollOut(p) ==
    /\ \/ deployed[p].phase = "starting" /\ \E ph \in {"ready", "stalled"} :
             deployed' = [deployed EXCEPT ![p].phase = ph]
       \/ deployed[p].phase = "stalled" /\ deployed' = [deployed EXCEPT ![p].phase = "ready"]
    /\ UNCHANGED <<row, active, slot, record, synced, report, pipeVars, opVars, handVars,
                   owed, faults>>

Remove(p) ==
    /\ ~record[p].serving /\ deployed[p].phase # "absent"
    /\ deployed' = [deployed EXCEPT ![p] = NoDeployment]
    /\ UNCHANGED <<row, active, slot, record, synced, report, pipeVars, opVars, handVars,
                   owed, faults>>

(* The deployment cannot be built: the reconciler calls slotFailed with    *)
(* the reference it has read, and the call may be under way for long.      *)
CannotBuild(p) ==
    /\ record[p].serving /\ ~deployed[p].fresh /\ Wants(p) /\ ~report[p]
    /\ report' = [report EXCEPT ![p] = TRUE]
    /\ UNCHANGED <<row, active, slot, record, synced, deployed, pipeVars, opVars, handVars,
                   owed, faults>>

(* The reference names a revision: once the slot has the next one, the     *)
(* call is refused and counts as gone.                                     *)
Outdate(p) == report' = [report EXCEPT ![p] = FALSE]

SlotFailed(p) ==
    /\ report[p]
    /\ report' = [report EXCEPT ![p] = FALSE]
    /\ IF ~slot[p].off /\ slot[p].rel # None /\ slot[p].state = "deploying"
       THEN SaveSlots([slot EXCEPT ![p].state = "failed"], {})
       ELSE UNCHANGED <<slot, record, synced, deployed, faults>>
    /\ UNCHANGED <<row, active, pipeVars, opVars, handVars, owed>>

(* Mutant: the Deployment of any generation counts.                        *)
RolloutOfAny(p) ==
    CASE deployed[p].phase = "ready" -> "ready"
      [] deployed[p].phase = "stalled" -> "failed"
      [] OTHER -> "deploying"

(* slotRolloutOf: only the Deployment of the recorded generation counts.   *)
RolloutOf(p) ==
    CASE deployed[p].phase = "ready" /\ deployed[p].fresh -> "ready"
      [] deployed[p].phase = "stalled" /\ deployed[p].fresh -> "failed"
      [] OTHER -> "deploying"

-----------------------------------------------------------------------------
(* The pipeline: a job runs one step of a release and enqueues the next.   *)

(* After the transaction that accepted r, enqueuePipelineStep is to come.  *)
Accept(r) == job' = [NoJob EXCEPT !.pc = "accepted", !.rel = r]
NextJob == [NoJob EXCEPT !.pc = "queued", !.rel = job.rel]
Wait == job' = NextJob
Done == job' = NoJob
Timely == late' = FALSE

(* Mutant: the transaction does not look for an operation of maintenance.  *)
PublishOverMaintenance ==
    /\ handoff = NoHandoff /\ FindInProgress = {}
    /\ \E r \in Release :
          /\ row[r].status = "none" /\ \A q \in 1..(r - 1) : row[q].status # "none"
          /\ row' = [row EXCEPT ![r] = [status |-> "pending", target |-> Standby, readyAt |-> FALSE]]
          /\ Accept(r)
    /\ UNCHANGED <<late, active, slot, ledgerVars, opVars, handVars, owed, faults>>

(* publish: the transaction looks again at all that was checked before the *)
(* tag was made.                                                           *)
Publish ==
    /\ Quiet
    /\ \E r \in Release :
          /\ row[r].status = "none" /\ \A q \in 1..(r - 1) : row[q].status # "none"
          /\ row' = [row EXCEPT ![r] = [status |-> "pending", target |-> Standby, readyAt |-> FALSE]]
          /\ Accept(r)
    /\ UNCHANGED <<late, active, slot, ledgerVars, opVars, handVars, owed, faults>>

Enqueue ==
    /\ job.pc = "accepted"
    /\ Wait
    /\ UNCHANGED <<row, late, active, slot, ledgerVars, opVars, handVars, owed, faults>>

(* The process dies between the commit and the enqueue.                    *)
LoseEnqueue ==
    /\ job.pc = "accepted" /\ Fault("crash")
    /\ Done
    /\ UNCHANGED <<row, late, active, slot, ledgerVars, opVars, handVars, owed>>

(* runPipelineStep reads the release; one that is not in progress is the   *)
(* end of the chain.                                                       *)
Begin ==
    /\ job.pc = "queued"
    /\ job' = IF Busy(job.rel) THEN [job EXCEPT !.pc = "run", !.snap = row[job.rel]] ELSE NoJob
    /\ UNCHANGED <<row, late, active, slot, ledgerVars, opVars, handVars, owed, faults>>

(* The step writes the whole row as it has read it, with a new status.     *)
Write(rows, st) == row' = [rows EXCEPT ![job.rel] = [job.snap EXCEPT !.status = st]]

(* bump while a build or a migration runs, and the wait for writers.       *)
Poll ==
    /\ job.pc = "run" /\ job.snap.status \in {"pending", "building", "migrating"}
    /\ ~late
    /\ Write(row, job.snap.status) /\ Wait
    /\ UNCHANGED <<late, active, slot, ledgerVars, opVars, handVars, owed, faults>>

(* Mutant: the step goes on with the release as it was before it saved it. *)
AdvanceAndGoOn ==
    /\ job.pc = "run"
    /\ \E to \in {"building", "migrating"} :
          /\ \/ job.snap.status = "pending"
             \/ job.snap.status = "building" /\ to = "migrating"
          /\ Write(row, to)
    /\ UNCHANGED job /\ Timely
    /\ UNCHANGED <<active, slot, ledgerVars, opVars, handVars, owed, faults>>

(* startBuild, and startMigration after the build or without one.          *)
Advance ==
    /\ job.pc = "run"
    /\ \E to \in {"building", "migrating"} :
          /\ \/ job.snap.status = "pending"
             \/ job.snap.status = "building" /\ to = "migrating"
          /\ Write(row, to)
    /\ Wait /\ Timely
    /\ UNCHANGED <<active, slot, ledgerVars, opVars, handVars, owed, faults>>

(* Mutant: the release that leaves keeps its status.                       *)
NotSuperseded(p, r) == row

(* The release that leaves a slot because another is deployed there.       *)
Superseded(p, r) ==
    LET old == slot[p].rel
    IN  IF old # None /\ old # r /\ row[old].status = "ready"
        THEN [row EXCEPT ![old].status = "superseded"] ELSE row

DeployedOn(p, r) ==
    [slot EXCEPT ![p] = [rel |-> r, state |-> "deploying", work |-> r, off |-> FALSE]]

StartDeploy ==
    LET t == job.snap.target
    IN  /\ job.pc = "run" /\ job.snap.status \in {"pending", "building", "migrating"}
        /\ Write(Superseded(t, job.rel), "deploying")
        /\ SaveSlots(DeployedOn(t, job.rel), {t})
        /\ Outdate(t)
        /\ Wait /\ Timely
        /\ UNCHANGED <<active, opVars, handVars, owed>>

(* pollDeploy up to its verdict: the slot row and the ledger, unlocked.    *)
Verdict ==
    LET t == job.snap.target
        v == IF slot[t].state = "failed" THEN "failed" ELSE RolloutOf(t)
    IN  IF v = "deploying" /\ late THEN "failed" ELSE v

Look ==
    /\ job.pc = "run" /\ job.snap.status = "deploying"
    /\ job' = [job EXCEPT !.pc = "act", !.saw = Verdict]
    /\ UNCHANGED <<row, late, active, slot, ledgerVars, opVars, handVars, owed, faults>>

Bump ==
    /\ job.pc = "act" /\ job.saw = "deploying"
    /\ Write(row, "deploying") /\ Wait
    /\ UNCHANGED <<late, active, slot, ledgerVars, opVars, handVars, owed, faults>>

RegisterReady ==
    /\ job.pc = "act" /\ job.saw = "ready"
    /\ row' = [row EXCEPT ![job.rel] = [job.snap EXCEPT !.status = "ready", !.readyAt = TRUE]]
    /\ SaveSlots([slot EXCEPT ![job.snap.target].state = "ready"], {})
    /\ Done /\ Timely
    /\ UNCHANGED <<active, report, opVars, handVars, owed>>

(* ctx.fail, where the step decides it or where it has thrown.             *)
FailRelease ==
    /\ job.pc = "run" \/ (job.pc = "act" /\ job.saw \in {"ready", "failed"})
    /\ Write(row, "failed")
    /\ IF job.snap.status = "deploying"
       THEN SaveSlots([slot EXCEPT ![job.snap.target].state = "failed"], {})
       ELSE UNCHANGED <<slot, record, synced, deployed, faults>>
    /\ Done /\ Timely
    /\ UNCHANGED <<active, report, opVars, handVars, owed>>

(* The worker dies, or the step throws out of the handler: the job is      *)
(* claimed again unless its attempts are used up.                          *)
Crash ==
    /\ job.pc \in {"run", "act"} /\ Fault("crash")
    /\ Wait \/ Done
    /\ UNCHANGED <<row, late, active, slot, ledgerVars, opVars, handVars, owed>>

BecomeLate ==
    /\ FindInProgress # {} /\ ~late
    /\ late' = TRUE
    /\ UNCHANGED <<row, job, active, slot, ledgerVars, opVars, handVars, owed, faults>>

-----------------------------------------------------------------------------
(* What people do with the standby slot.                                   *)

(* redeployIncompatibility and the rollback guard of switchTraffic.        *)
BlockedBy(cur, r) == cur # None /\ r < cur /\ cur \in Blocking

(* isRedeployable                                                          *)
Redeployable(r) ==
    /\ ~OnASlot(r) /\ row[r].status \in Settled
    /\ row[r].readyAt \/ row[r].status # "failed"

(* redeploy, with the checks its transaction repeats.                      *)
Redeploy(r) ==
    /\ Quiet /\ Redeployable(r) /\ ~BlockedBy(slot[active].rel, r)
    /\ row' = [Superseded(Standby, r) EXCEPT ![r].status = "deploying", ![r].target = Standby]
    /\ SaveSlots(DeployedOn(Standby, r), {Standby})
    /\ Outdate(Standby)
    /\ Accept(r)
    /\ UNCHANGED <<late, active, opVars, handVars, owed>>

Emptied(p) == [slot EXCEPT ![p].rel = None, ![p].state = "empty", ![p].off = TRUE]

(* offlineInScope                                                          *)
OfflineInScope(p) ==
    /\ row' = LET r == slot[p].rel
              IN  IF row[r].status = "ready" THEN [row EXCEPT ![r].status = "offline"] ELSE row
    /\ SaveSlots(Emptied(p), {})

(* Mutant: nobody asks whether a handoff counts on the slot.               *)
TakeOfflineAnyway ==
    /\ FindInProgress = {} /\ op = NoOp /\ HasWorkload(slot[Standby])
    /\ OfflineInScope(Standby)
    /\ UNCHANGED <<active, report, pipeVars, opVars, handVars, owed>>

(* takeOffline, and the sweep's step for a deadline that has passed (when  *)
(* it has is the matter of SlotRetention).                                 *)
TakeOffline ==
    /\ Quiet /\ HasWorkload(slot[Standby])
    /\ OfflineInScope(Standby)
    /\ UNCHANGED <<active, report, pipeVars, opVars, handVars, owed>>

-----------------------------------------------------------------------------
(* Cluster maintenance.  "restart" stands for the operations that keep the *)
(* release: restart, scale and restore-replicas.                           *)

(* Mutant: the slot that serves may be deleted.                            *)
ExecuteAnywhere(a, p) ==
    /\ Quiet /\ deployed[p].phase # "absent" /\ slot[p].work # None
    /\ op' = [action |-> a, slot |-> p]
    /\ IF a = "restart" THEN SaveSlots(slot, {p}) /\ Outdate(p) /\ UNCHANGED row
       ELSE /\ UNCHANGED report
            /\ IF HasWorkload(slot[p]) THEN OfflineInScope(p)
               ELSE UNCHANGED <<row, slot, record, synced, deployed, faults>>
    /\ UNCHANGED <<active, pipeVars, verdict, handVars, owed>>

(* executeSlotOperation with check and applyToWorkload.  The operation is  *)
(* offered for a Deployment that the cluster holds.                        *)
Execute(a, p) ==
    /\ Quiet /\ deployed[p].phase # "absent" /\ slot[p].work # None
    /\ a = "delete" => p # active
    /\ op' = [action |-> a, slot |-> p]
    /\ IF a = "restart" THEN SaveSlots(slot, {p}) /\ Outdate(p) /\ UNCHANGED row
       ELSE /\ UNCHANGED report
            /\ IF HasWorkload(slot[p]) THEN OfflineInScope(p)
               ELSE UNCHANGED <<row, slot, record, synced, deployed, faults>>
    /\ UNCHANGED <<active, pipeVars, verdict, handVars, owed>>

(* observeViaLedger                                                        *)
Seen ==
    IF op.action = "restart" THEN RolloutOf(op.slot)
    ELSE IF deployed[op.slot].phase = "absent" THEN "gone" ELSE "deploying"

(* observeSlotOperation up to its verdict: the record and the ledger,      *)
(* unlocked.                                                               *)
Observe ==
    /\ op # NoOp /\ verdict = "none" /\ Seen # "deploying"
    /\ verdict' = Seen
    /\ UNCHANGED <<row, active, slot, ledgerVars, pipeVars, op, handVars, owed, faults>>

(* Its transaction.                                                        *)
Conclude ==
    /\ op # NoOp /\ verdict # "none"
    /\ op' = NoOp /\ verdict' = "none"
    /\ IF verdict = "ready"
       THEN UNCHANGED row /\ SaveSlots([slot EXCEPT ![op.slot].state = "ready"], {})
       ELSE IF op.action = "delete" /\ op.slot # active /\ HasWorkload(slot[op.slot])
       THEN OfflineInScope(op.slot)
       ELSE UNCHANGED <<row, slot, record, synced, deployed, faults>>
    /\ UNCHANGED <<active, report, pipeVars, handVars, owed>>

-----------------------------------------------------------------------------
(* The switch of traffic and the handoff.                                  *)

(* domain switchTraffic with the guards of its use case.                   *)
CanSwitch ==
    /\ Quiet
    /\ slot[Standby].state = "ready" /\ slot[Standby].rel # None
    /\ ~BlockedBy(slot[active].rel, slot[Standby].rel)

UnderControl == {slot[active].rel, slot[Standby].rel} \cap Controlled # {}

SwitchTraffic ==
    /\ CanSwitch /\ ~UnderControl
    /\ active' = Standby
    /\ SaveSlots(slot, {})
    /\ UNCHANGED <<row, report, pipeVars, opVars, handVars, owed>>

(* The same request where execution is fenced: the operation is recorded   *)
(* and the workers carry it out.                                           *)
BeginHandoff ==
    /\ CanSwitch /\ UnderControl /\ slot[Standby].rel \in Controlled
    /\ handoff' = [stage |-> "freezing", target |-> slot[Standby].rel,
                   from |-> slot[active].rel, slot |-> Standby]
    /\ UNCHANGED <<row, active, slot, ledgerVars, pipeVars, opVars, holder, leased, hand,
                   owed, faults>>

(* Mutant: a lease that has run out is not taken over.                     *)
ClaimUnowned(w) ==
    /\ handoff # NoHandoff /\ holder = None /\ hand[w] = "none"
    /\ holder' = w /\ leased' = TRUE
    /\ hand' = [hand EXCEPT ![w] = handoff.stage]
    /\ UNCHANGED <<row, active, slot, ledgerVars, pipeVars, opVars, handoff, owed, faults>>

(* handoffs.claim                                                          *)
Claim(w) ==
    /\ handoff # NoHandoff /\ ~leased /\ hand[w] = "none"
    /\ holder' = w /\ leased' = TRUE
    /\ hand' = [hand EXCEPT ![w] = handoff.stage]
    /\ UNCHANGED <<row, active, slot, ledgerVars, pipeVars, opVars, handoff, owed, faults>>

(* Mutant: settle asks for neither owner nor lease.                        *)
Unfenced(w) == TRUE

(* handoffs.settle succeeds for the current owner within its lease.        *)
Current(w) == holder = w /\ leased

SettleTo(w, from, to) ==
    /\ hand[w] = from /\ Current(w)
    /\ handoff' = IF to = "none" THEN NoHandoff ELSE [handoff EXCEPT !.stage = to]
    /\ holder' = None /\ leased' = FALSE
    /\ hand' = [hand EXCEPT ![w] = "none"]

(* A settle that comes too late changes nothing.                           *)
Fenced(w) ==
    /\ hand[w] # "none" /\ ~Current(w)
    /\ hand' = [hand EXCEPT ![w] = "none"]
    /\ UNCHANGED <<row, active, slot, ledgerVars, pipeVars, opVars, handoff, holder, leased,
                   owed, faults>>

(* The authority is not there yet.                                         *)
Stay(w) ==
    /\ \E s \in Stage : SettleTo(w, s, s)
    /\ UNCHANGED <<row, active, slot, ledgerVars, pipeVars, opVars, owed, faults>>

(* The authority is no longer prepared as it was.                          *)
PrepareAgain(w) ==
    /\ SettleTo(w, "routing", "preparing") /\ Fault("crash")
    /\ UNCHANGED <<row, active, slot, ledgerVars, pipeVars, opVars, owed>>

Freeze(w) ==
    /\ SettleTo(w, "freezing", "preparing")
    /\ UNCHANGED <<row, active, slot, ledgerVars, pipeVars, opVars, owed, faults>>

Prepare(w) ==
    /\ SettleTo(w, "preparing", "routing")
    /\ UNCHANGED <<row, active, slot, ledgerVars, pipeVars, opVars, owed, faults>>

(* commitRoute                                                             *)
CommitRoute(w) ==
    LET t == handoff.slot
    IN  /\ SettleTo(w, "routing", "activating")
        /\ slot[t].rel = handoff.target /\ slot[t].state = "ready"
        /\ IF active = t
           THEN UNCHANGED <<active, slot, record, synced, deployed, owed, faults>>
           ELSE /\ slot[active].rel = handoff.from
                /\ active' = t /\ owed' = owed + 1
                /\ SaveSlots(slot, {})
    /\ UNCHANGED <<row, report, pipeVars, opVars>>

(* The switch record is written with the end of the operation.             *)
CompleteHandoff(w) ==
    /\ SettleTo(w, "activating", "none")
    /\ owed' = owed - 1
    /\ UNCHANGED <<row, active, slot, ledgerVars, pipeVars, opVars, faults>>

(* A process dies with its claim.                                          *)
HandoffCrash(w) ==
    /\ hand[w] # "none" /\ Fault("crash")
    /\ hand' = [hand EXCEPT ![w] = "none"]
    /\ UNCHANGED <<row, active, slot, ledgerVars, pipeVars, opVars, handoff, holder, leased,
                   owed>>

(* The lease runs out, of a dead holder or under a live one.               *)
LeaseEnds ==
    /\ leased /\ leased' = FALSE
    /\ IF hand[holder] = "none" THEN UNCHANGED faults ELSE Fault("crash")
    /\ UNCHANGED <<row, active, slot, ledgerVars, pipeVars, opVars, handoff, holder, hand, owed>>

-----------------------------------------------------------------------------
Step ==
    \/ Enqueue \/ Begin \/ Poll \/ Advance \/ StartDeploy
    \/ Look \/ Bump \/ RegisterReady \/ FailRelease

Reconcile(p) ==
    \/ Apply(p) \/ Remove(p)
    \/ deployed[p].phase = "starting" /\ RollOut(p)

Progress(w) == Freeze(w) \/ Prepare(w) \/ CommitRoute(w) \/ CompleteHandoff(w)

Next ==
    \/ Publish \/ TakeOffline \/ SwitchTraffic \/ BeginHandoff
    \/ \E r \in Release : Redeploy(r)
    \/ Step \/ LoseEnqueue \/ Crash \/ BecomeLate
    \/ \E p \in Slot : Apply(p) \/ RollOut(p) \/ Remove(p) \/ CannotBuild(p) \/ SlotFailed(p)
    \/ Resync
    \/ \E a \in {"restart", "delete"}, p \in Slot : Execute(a, p)
    \/ Observe \/ Conclude
    \/ \E w \in Worker :
          \/ Claim(w) \/ Fenced(w) \/ Stay(w) \/ PrepareAgain(w) \/ Progress(w)
          \/ HandoffCrash(w)
    \/ LeaseEnds

Spec == Init /\ [][Next]_vars

Fairness ==
    /\ WF_vars(Step) /\ WF_vars(BecomeLate) /\ WF_vars(Observe \/ Conclude)
    /\ \A p \in Slot : WF_vars(Reconcile(p))
    /\ WF_vars(Resync) /\ WF_vars(LeaseEnds)
    /\ \A w \in Worker : WF_vars(Claim(w) \/ Fenced(w))
    /\ SF_vars(\E w \in Worker : Progress(w))

FairSpec == Spec /\ Fairness

-----------------------------------------------------------------------------
TypeOK ==
    /\ row \in [Release -> Row] /\ late \in BOOLEAN /\ job \in JobState
    /\ active \in Slot /\ slot \in [Slot -> SlotRow]
    /\ record \in [Slot -> [rel : Release \cup {None}, serving : BOOLEAN]]
    /\ deployed \in [Slot -> [rel : Release \cup {None}, fresh : BOOLEAN,
                            phase : {"absent", "starting", "ready", "stalled"}]]
    /\ synced \in [Slot -> BOOLEAN] /\ report \in [Slot -> BOOLEAN]
    /\ op \in [action : {"none", "restart", "delete"}, slot : Slot]
    /\ verdict \in {"none", "ready", "failed", "gone"}
    /\ handoff \in Handoff /\ holder \in Worker \cup {None} /\ leased \in BOOLEAN
    /\ hand \in [Worker -> Stage \cup {"none"}]
    /\ owed \in Int /\ faults \in [Kind -> Nat]

(* Publishing, a maintenance operation and a handoff never work on the     *)
(* service at once, there is never a second release in progress, and the   *)
(* one there is goes to the slot without traffic: the promise behind       *)
(* publish's second look at the slot row after the tag has been made, and  *)
(* behind busyReason.                                                      *)
OneOwner ==
    /\ \A r \in FindInProgress : row[r].target # active
    /\ Cardinality(FindInProgress) <= 1
    /\ FindInProgress # {} => op = NoOp /\ handoff = NoHandoff
    /\ op = NoOp \/ handoff = NoHandoff

(* Every step of the pipeline writes the whole row of its release back as  *)
(* it has read it; status, target and readyAt are still there when it      *)
(* does: of a release in progress nobody else writes these.                *)
SnapshotFresh == job.pc \in {"run", "act"} => job.snap = row[job.rel]

(* What the releases say agrees with what the slots say: a ready release   *)
(* is on exactly one slot, and one that was superseded or taken offline is *)
(* on none, so that it may be deployed again.                              *)
ReadyIsOnASlot ==
    \A r \in Release :
        /\ row[r].status = "ready" => Cardinality({p \in Slot : slot[p].rel = r}) = 1
        /\ row[r].status \in {"superseded", "offline"} => ~OnASlot(r)

(* A slot that is ready runs the release it names: what was ready of the   *)
(* release before does not count (slotRolloutOf), as long as no projection *)
(* into the ledger has been lost.                                          *)
ReadyIsRolledOut ==
    faults["projection"] = 0 =>
    \A p \in Slot : slot[p].state = "ready" => deployed[p].rel = slot[p].rel

(* Each handoff that has moved the traffic writes its switch record once,  *)
(* whichever workers claim it, die or come too late.                       *)
EveryMoveRecorded == owed = IF handoff.stage = "activating" THEN 1 ELSE 0

(* While traffic stays where it is, nothing empties, fails or exchanges    *)
(* the slot that serves it: not a deployment, a late failure report, a     *)
(* sweep or a maintenance operation.                                       *)
LiveStays == [][active' = active /\ slot[active].state = "ready"
                => slot'[active].state = "ready" /\ slot'[active].rel = slot[active].rel]_vars

(* Whatever jobs, workers, maintenance and the cluster do to the slots,    *)
(* traffic moves as it was promised: to a release that was made ready      *)
(* beside the serving one and is not kept back by it, by an exchange of    *)
(* the two, and while such a move is fenced nothing else happens.          *)
Promise == INSTANCE BlueGreen WITH
    live  <- slot[active].rel,
    spare <- slot[Standby].rel,
    able  <- slot[Standby].rel # None /\ slot[Standby].state = "ready",
    move  <- CASE handoff.stage = "none"       -> "none"
               [] handoff.stage = "activating" -> "moved"
               [] OTHER                        -> "asked"

KeepsPromise == Promise!ASpec

(* The release in progress has lost its job.                               *)
Stranded == FindInProgress # {} /\ job = NoJob
(* A restart of a slot that was taken offline while its Deployment was     *)
(* still there.                                                            *)
RestartOfEmpty == op.action = "restart" /\ slot[op.slot].rel = None

(* The service always becomes free again for the next release, switch or   *)
(* operation: a release settles, an operation is concluded and a handoff   *)
(* completes, but for the two cases named above, in which it stays busy.   *)
AlwaysFreed == []<>(Quiet \/ Stranded \/ RestartOfEmpty)
=============================================================================
