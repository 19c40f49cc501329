---------------------------- MODULE SlotRetention ----------------------------
(***************************************************************************)
(* modules/release: how long the version on the standby slot of a service  *)
(* is kept (domain/slotLifecycle.ts), with what starts, moves and ends the *)
(* countdown: readiness, the switch of traffic, visits to the preview,     *)
(* postponement, the administrator's policy and the sweep, which reads the *)
(* time, the policy and the list of slots before it locks a slot.          *)
(* Time is counted in ticks.  Only the standby slot counts down, so it has *)
(* a record and the active one only its release.  A service starts as one  *)
(* that was running before there were countdowns.                          *)
(***************************************************************************)
EXTENDS Integers, FiniteSetsExt

CONSTANTS
    Release,     \* releases that may be deployed
    First,       \* the one that serves at the start
    Sweeper,     \* replicas that run the sweep
    Gateway,     \* processes that note visits to the preview
    Policies, Default,   \* policies an administrator may ask for, the first one
    Interval,    \* ACCESS_NOTE_INTERVAL_MS
    Gap,         \* bound: ticks between two sweeps, of whichever replica
    MaxLag,      \* bound: ticks between the reads of a sweep and its step
    Horizon,     \* bound: after it nobody acts on the service but the sweep
    MaxTime,     \* bound: the last tick
    MaxActs      \* bound: what people do, of all kinds together

Never == -1
None == "none"

(* assertOfflinePolicy                                                     *)
Allowed(pol) == pol.lead >= 1 /\ pol.lead < pol.rollback /\ pol.lead < pol.idle

ASSUME RetentionAssumption ==
    /\ Policies \subseteq [rollback : Nat, idle : Nat, lead : Nat]
    /\ Default \in Policies /\ Allowed(Default)
    /\ Interval \in Nat \ {0} /\ Gap \in Nat \ {0} /\ MaxLag \in Nat /\ MaxActs \in Nat
    /\ Horizon \in Nat /\ MaxTime \in Nat
    /\ None \notin Release /\ First \in Release

VARIABLES
    now,       \* the clock
    policy,    \* offline_policy
    active,    \* service_slots.active, as one of two sides
    live,      \* the release on the active slot
    standby,   \* the standby slot
    lastFrom,  \* previousReleaseId of the last switch record
    noted,     \* lastNoted of each gateway process
    sweep,     \* what a sweep has read
    swept,     \* ghost: when the last sweep began
    told,      \* ghost: the last reminder and visit of this countdown
    acts       \* ghost: how much people have done

vars == <<now, policy, active, live, standby, lastFrom, noted, sweep, swept, told, acts>>
inputs == <<noted, policy>>

NoRetention == [kind |-> "none", since |-> Never, access |-> Never, until |-> Never,
                at |-> Never, for |-> Never]
Empty == [rel |-> None, state |-> "empty", ret |-> NoRetention, off |-> "none"]
Idle == [pc |-> "idle", now |-> Never, policy |-> Default, side |-> FALSE, rel |-> None]
Untold == [for |-> Never, at |-> Never, visit |-> Never]

Init ==
    /\ now = 0 /\ policy = Default /\ active = FALSE
    /\ live = First /\ lastFrom \in (Release \ {First}) \cup {None}
    /\ standby \in {Empty} \cup {[Empty EXCEPT !.rel = r, !.state = "ready"] : r \in Release \ {First}}
    /\ noted = [g \in Gateway |-> Never] /\ sweep = [s \in Sweeper |-> Idle] /\ swept = 0
    /\ told = Untold /\ acts = 0

HasWorkload == standby.rel # None /\ standby.state # "empty"
InProgress == standby.state = "deploying"

(* People act on the service.                                              *)
Act == now <= Horizon /\ acts < MaxActs /\ acts' = acts + 1

(* startRetention                                                          *)
StartRetention(kind, at) == [NoRetention EXCEPT !.kind = kind, !.since = at]

(* retentionPeriodMs                                                       *)
Period(kind, pol) == IF kind = "rollback-target" THEN pol.rollback ELSE pol.idle

(* Mutant: a postponement fixes the deadline instead of bounding it.       *)
PostponedDeadline(ret, pol) ==
    LET period == Period(ret.kind, pol)
    IN  IF ret.until # Never THEN ret.until
        ELSE IF ret.kind = "pending" THEN Max({ret.since, ret.access}) + period
        ELSE ret.since + period

(* offlineDeadline: only what waits to be verified is prolonged by visits. *)
Deadline(ret, pol) ==
    LET period == Period(ret.kind, pol)
        from == IF ret.kind = "pending" THEN {ret.since, ret.access} ELSE {ret.since}
    IN  Max({t + period : t \in from} \cup {ret.until})

(* Mutant: any reminder counts, whatever deadline it was for.              *)
AnyReminderStep(ret, pol, at) ==
    LET deadline == Deadline(ret, pol)
        reminded == ret.at # Never
    IN  CASE reminded /\ at >= Max({deadline, ret.at + pol.lead}) -> "offline"
          [] ~reminded /\ at >= deadline - pol.lead -> "remind"
          [] OTHER -> "none"

(* retentionStep: a reminder counts only for the deadline it was for.      *)
RetentionStep(ret, pol, at) ==
    LET deadline == Deadline(ret, pol)
        reminded == ret.at # Never /\ ret.for = deadline
    IN  CASE reminded /\ at >= Max({deadline, ret.at + pol.lead}) -> "offline"
          [] ~reminded /\ at >= deadline - pol.lead -> "remind"
          [] OTHER -> "none"

(* markReminded                                                            *)
MarkReminded(ret, deadline, at) == [ret EXCEPT !.at = at, !.for = deadline]

(* canPostpone and postponeRetention                                       *)
CanPostpone(ret, pol) == ret.at # Never /\ ret.for = Deadline(ret, pol)
PostponeRetention(ret, pol) ==
    [ret EXCEPT !.until = Deadline(ret, pol) + Period(ret.kind, pol), !.at = Never, !.for = Never]

-----------------------------------------------------------------------------
(* What happens to the slots (module ReleaseSlots).                        *)

(* startDeploy and redeploy: the slot gets another release and no          *)
(* countdown.                                                              *)
Deploy(r) ==
    /\ Act /\ ~InProgress /\ r \notin {live, standby.rel}
    /\ standby' = [Empty EXCEPT !.rel = r, !.state = "deploying"]
    /\ told' = Untold
    /\ UNCHANGED <<now, active, live, lastFrom, sweep, swept, inputs>>

(* registerReady                                                           *)
RegisterReady ==
    /\ InProgress
    /\ standby' = [standby EXCEPT !.state = "ready", !.ret = StartRetention("pending", now)]
    /\ told' = Untold
    /\ UNCHANGED <<now, active, live, lastFrom, sweep, swept, inputs, acts>>

(* ctx.fail: the slot keeps its workload, without a countdown.             *)
DeployFails ==
    /\ InProgress
    /\ standby' = [standby EXCEPT !.state = "failed"]
    /\ UNCHANGED <<now, active, live, lastFrom, sweep, swept, told, inputs, acts>>

(* switchTraffic: what served becomes the target of a rollback.            *)
SwitchTraffic ==
    /\ Act /\ standby.state = "ready"
    /\ active' = ~active /\ live' = standby.rel /\ lastFrom' = live
    /\ standby' = [rel |-> live, state |-> "ready", off |-> "none",
                    ret |-> StartRetention("rollback-target", now)]
    /\ told' = Untold
    /\ UNCHANGED <<now, sweep, swept, inputs>>

(* takeSlotOffline                                                         *)
Emptied(reason) == [Empty EXCEPT !.off = reason]

TakeOffline ==
    /\ Act /\ HasWorkload /\ ~InProgress
    /\ standby' = Emptied("manual") /\ told' = Untold
    /\ UNCHANGED <<now, active, live, lastFrom, sweep, swept, inputs>>

-----------------------------------------------------------------------------
(* What moves the countdown.                                               *)

(* notePreviewAccess: each process notes a service at most once in an      *)
(* interval, whether or not something counts down.                         *)
Visit(g) ==
    LET fresh == noted[g] = Never \/ now - noted[g] >= Interval
        counts == standby.ret # NoRetention /\ HasWorkload
    IN  /\ Act
        /\ noted' = IF fresh THEN [noted EXCEPT ![g] = now] ELSE noted
        /\ standby' = IF fresh /\ counts /\ standby.ret.access < now
                      THEN [standby EXCEPT !.ret.access = now] ELSE standby
        /\ told' = IF counts THEN [told EXCEPT !.visit = now] ELSE told
        /\ UNCHANGED <<now, active, live, lastFrom, sweep, swept, policy>>

(* postponeOffline, for the deadline the page has shown.                   *)
Postpone ==
    /\ Act /\ HasWorkload /\ standby.ret # NoRetention
    /\ CanPostpone(standby.ret, policy)
    /\ standby' = [standby EXCEPT !.ret = PostponeRetention(@, policy)]
    /\ told' = [told EXCEPT !.for = Never, !.at = Never]
    /\ UNCHANGED <<now, active, live, lastFrom, sweep, swept, noted, policy>>

(* setAutoOfflinePolicy                                                    *)
SetPolicy(pol) ==
    /\ Act /\ pol # policy /\ Allowed(pol)
    /\ policy' = pol
    /\ UNCHANGED <<now, active, live, standby, lastFrom, noted, sweep, swept, told>>

-----------------------------------------------------------------------------
(* sweepSlotLifecycle up to the lock of a slot that has a workload.        *)
SweepReads(s) ==
    /\ sweep[s] = Idle /\ swept' = now
    /\ sweep' = [sweep EXCEPT ![s] = [pc |-> "listed", now |-> now, policy |-> policy,
                                      side |-> active, rel |-> standby.rel]]
    /\ UNCHANGED <<now, active, live, standby, lastFrom, told, inputs, acts>>

(* stepService                                                             *)
Matches(s) ==
    /\ active = sweep[s].side /\ standby.rel = sweep[s].rel
    /\ HasWorkload /\ ~InProgress

(* Mutant: a countdown starts only where the switch has left a version.    *)
InitializeReturned(s) ==
    /\ standby.ret = NoRetention
    /\ standby' = IF standby.rel # lastFrom THEN standby
                  ELSE [standby EXCEPT !.ret = StartRetention("rollback-target", sweep[s].now)]
    /\ told' = Untold

(* A version from before the countdowns, or after a failed deployment.     *)
Initialize(s) ==
    /\ standby.ret = NoRetention
    /\ standby' = [standby EXCEPT !.ret = StartRetention(
                     IF standby.rel = lastFrom THEN "rollback-target" ELSE "pending", sweep[s].now)]
    /\ told' = Untold

Remind(s) ==
    LET ret == standby.ret  deadline == Deadline(ret, sweep[s].policy)
    IN  /\ ret # NoRetention /\ RetentionStep(ret, sweep[s].policy, sweep[s].now) = "remind"
        /\ standby' = [standby EXCEPT !.ret = MarkReminded(ret, deadline, sweep[s].now)]
        /\ told' = [told EXCEPT !.for = deadline, !.at = now]

Expire(s) ==
    /\ standby.ret # NoRetention
    /\ RetentionStep(standby.ret, sweep[s].policy, sweep[s].now) = "offline"
    /\ standby' = Emptied(IF standby.ret.kind = "pending" THEN "idle" ELSE "rollback-expired")
    /\ told' = Untold

SweepSteps(s) ==
    /\ sweep[s] # Idle
    /\ sweep' = [sweep EXCEPT ![s] = Idle]
    /\ \/ Matches(s) /\ (Initialize(s) \/ Remind(s) \/ Expire(s))
       \/ /\ ~Matches(s) \/ (/\ standby.ret # NoRetention
                             /\ RetentionStep(standby.ret, sweep[s].policy, sweep[s].now) = "none")
          /\ UNCHANGED <<standby, told>>
    /\ UNCHANGED <<now, active, live, lastFrom, swept, inputs, acts>>

Tick ==
    /\ now < MaxTime /\ (InProgress => now < Horizon)
    /\ now - swept < Gap /\ \A s \in Sweeper : sweep[s] # Idle => now - sweep[s].now < MaxLag
    /\ now' = now + 1
    /\ UNCHANGED <<active, live, standby, lastFrom, sweep, swept, told, inputs, acts>>

-----------------------------------------------------------------------------
Next ==
    \/ \E r \in Release : Deploy(r)
    \/ RegisterReady \/ DeployFails \/ SwitchTraffic \/ TakeOffline
    \/ \E g \in Gateway : Visit(g)
    \/ Postpone \/ \E pol \in Policies : SetPolicy(pol)
    \/ \E s \in Sweeper : SweepReads(s) \/ SweepSteps(s)
    \/ Tick

Spec == Init /\ [][Next]_vars
FairSpec ==
    /\ Spec /\ WF_vars(Tick) /\ WF_vars(RegisterReady \/ DeployFails)
    /\ \A s \in Sweeper : WF_vars(SweepReads(s) \/ SweepSteps(s))

-----------------------------------------------------------------------------
TypeOK ==
    /\ now \in 0..MaxTime /\ swept \in 0..MaxTime
    /\ policy \in Policies /\ Allowed(policy)
    /\ active \in BOOLEAN /\ live \in Release
    /\ standby.rel \in (Release \ {live}) \cup {None}
    /\ acts \in 0..MaxActs

(* The sweep of s takes the standby version offline.                       *)
Expires(s) ==
    /\ sweep[s] # Idle /\ sweep'[s] = Idle
    /\ HasWorkload /\ standby'.off \in {"idle", "rollback-expired"}

(* No version is taken offline without a reminder that named the deadline  *)
(* it had in the end, at least the policy's lead before it went: neither a *)
(* shorter policy, a visit nor a postponement between the reminder and the *)
(* step gets around retentionStep.  The notice is short by no more than a  *)
(* sweep may lag, since the reminder is dated by the time the sweep began. *)
NoticeGiven == [][\A s \in Sweeper : Expires(s) =>
    /\ told.for = Deadline(standby.ret, sweep[s].policy)
    /\ now - told.at >= sweep[s].policy.lead - MaxLag]_vars

(* A version somebody looks after stays: it is not taken offline before    *)
(* the time a postponement has promised, nor, while it waits to be         *)
(* verified, within the idle period of its last visit.  A visit may go     *)
(* unrecorded for an interval (notePreviewAccess), and a countdown that a  *)
(* sweep has started begins when the sweep did.                            *)
AttendedStays == [][\A s \in Sweeper : Expires(s) =>
    /\ now >= standby.ret.until
    /\ standby.ret.kind = "pending" /\ told.visit # Never =>
          now > told.visit + sweep[s].policy.idle - Interval - MaxLag]_vars

(* A version nobody looks after goes: once nobody acts on the service, the *)
(* sweeps remind and then empty the standby slot, whatever was visited,    *)
(* postponed, switched or changed before.                                  *)
UnattendedGoes == []<>~HasWorkload
=============================================================================
