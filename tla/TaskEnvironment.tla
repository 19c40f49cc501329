--------------------------- MODULE TaskEnvironment ---------------------------
(***************************************************************************)
(* modules/task-runtime: the environments of persistent business tasks,    *)
(* whose Pods the cluster reconciler builds from the resource ledger.      *)
(*                                                                         *)
(* A use case reads the environment's row, talks to the cluster, and       *)
(* writes the whole row back.  Tasks with an isolated volume (Protected)   *)
(* re-read the row under the project's admission lock before they write;   *)
(* plain ones write from what they read first.  Meanwhile the reconciler   *)
(* builds the Pod in several steps, the runner inside it connects, and a   *)
(* loop judges Pods that are missing.                                      *)
(*                                                                         *)
(* All tasks are of one project.  The ledger's record is a projection made *)
(* in the transaction that writes the row, so its conditions are functions *)
(* of env; only what may disagree with env is state: whether it is still   *)
(* wanted, and the Pod the watch has reported.                             *)
(***************************************************************************)
EXTENDS Integers, FiniteSets

CONSTANTS
    Task,        \* ids of the business tasks
    Protected,   \* those whose render has businessStorage isolated-v1
    Call,        \* requests being served at a time
    Limit,       \* the project's quota
    MaxStart,    \* bound: starts of one environment
    MaxPod,      \* bound: Pods ever created under one name
    MaxFault     \* bound: crashes, API errors, lost Pods, expired graces

Loop == "loop"         \* the reconcile loop's own slot beside the requests
Free == "free"         \* nobody holds the admission lock
Caller == Call \cup {Loop}

ASSUME EnvironmentAssumption ==
    /\ Protected \subseteq Task
    /\ {Loop, Free} \cap Call = {}
    /\ Limit \in Nat /\ MaxStart \in Nat \ {0} /\ MaxPod \in Nat /\ MaxFault \in Nat

VARIABLES
    env,      \* rows of task_environments
    desired,  \* does the ledger's record exist, and is it still wanted
    seen,     \* uid of the Pod the ledger has observed, 0 for none
    secret,   \* token inside the runner Secret of each start, 0 if there is none
    pod,      \* the Pod of that name in the cluster
    uids,     \* uid of the newest Pod
    round,    \* the reconciler's round for the record
    judge,    \* the reconcile loop's judgement of the Pod
    call,     \* use cases in flight
    lock,     \* holder of admissions.lock across two statements
    faults

vars == <<env, desired, seen, secret, pod, uids, round, judge, call, lock, faults>>

EnvironmentState == {"creating", "running", "paused", "failed", "releasing", "released"}
Start == 0..MaxStart
Uid == 0..MaxPod

NextStates(state) ==        \* the transition table NEXT
    CASE state = "creating"  -> {"running", "failed", "releasing"}
      [] state = "running"   -> {"paused", "releasing", "failed"}
      [] state = "paused"    -> {"creating", "releasing"}
      [] state = "failed"    -> {"releasing", "creating"}
      [] state = "releasing" -> {"released", "failed"}
      [] OTHER               -> {}

NoEnv == [state |-> "none", phase |-> "none", podUid |-> 0, start |-> 0,
          token |-> 0, release |-> "none"]
NoPod == [uid |-> 0, start |-> 0, token |-> 0, health |-> "none"]
NoRound == [pc |-> "idle", start |-> 0, asked |-> 0, uid |-> 0]
NoJudge == [pc |-> "idle", waiting |-> FALSE]
NoCall == [op |-> "none", pc |-> "idle", task |-> "none", row |-> NoEnv]

Init ==
    /\ env = [t \in Task |-> NoEnv]
    /\ desired = [t \in Task |-> "none"]
    /\ seen = [t \in Task |-> 0]
    /\ secret = [t \in Task |-> [s \in 1..MaxStart |-> 0]]
    /\ pod = [t \in Task |-> NoPod]
    /\ uids = [t \in Task |-> 0]
    /\ round = [t \in Task |-> NoRound]
    /\ judge = [t \in Task |-> NoJudge]
    /\ call = [c \in Caller |-> NoCall]
    /\ lock = Free
    /\ faults = 0

(***************************************************************************)
(* The ledger's view: the phase of a record and the quota it takes.        *)
(***************************************************************************)
occupiesQuota(state) == state \in {"creating", "running", "releasing"}

wantsProvisioning(t) == env[t].state = "creating" /\ env[t].podUid = 0

Present(t) == seen[t] # 0 \/ \E s \in 1..MaxStart : secret[t][s] # 0

ReleasePending(t) == env[t].state = "releasing" /\ env[t].release = "occupied"

computePhase(t) ==
    CASE desired[t] = "none" -> "none"
      [] desired[t] = "absent" ->
            IF ReleasePending(t) \/ Present(t) THEN "stopping" ELSE "stopped"
      [] env[t].state = "failed" -> "failed"
      [] env[t].state = "paused" -> IF Present(t) THEN "stopping" ELSE "stopped"
      [] OTHER -> "live"

Counted(t) == computePhase(t) \in {"live", "stopping"}
Occupancy == Cardinality({t \in Task : Counted(t)})

(***************************************************************************)
(* Requests.  A transaction under admissions.lock is one step, except the  *)
(* resume of a protected task, whose admission reads the phase in one      *)
(* statement and declares in a later one.                                  *)
(***************************************************************************)
Write(t, row) == env' = [env EXCEPT ![t] = row]
Step(c, pc) == call' = [call EXCEPT ![c].pc = pc]
Return(c) == call' = [call EXCEPT ![c] = NoCall]
Enter(c, op, pc, t) ==
    call' = [call EXCEPT ![c] = [op |-> op, pc |-> pc, task |-> t, row |-> env[t]]]

admitEnvironment(t) ==
    /\ lock = Free /\ env[t].state = "none"
    /\ Occupancy < Limit
    /\ Write(t, [NoEnv EXCEPT !.state = "creating", !.start = 1])
    /\ desired' = [desired EXCEPT ![t] = "present"]
    /\ UNCHANGED <<seen, secret, pod, uids, round, judge, call, lock, faults>>

canPause(t) == env[t].state = "running"

pauseEnvironment(c, t) ==
    /\ c # Loop /\ call[c] = NoCall
    /\ canPause(t)
    /\ Enter(c, "pause", IF t \in Protected THEN "intend" ELSE "delete", t)
    /\ UNCHANGED <<env, desired, seen, secret, pod, uids, round, judge, lock, faults>>

pauseBusinessWorkspace(c) ==
    LET t == call[c].task
        intent == [env[t] EXCEPT !.phase = "pausing", !.token = 0]
        again == canPause(t) /\ env[t].phase = "pausing"
        fresh == canPause(t) /\ env[t].podUid # 0 /\ env[t].podUid = call[c].row.podUid
    IN  /\ call[c].pc = "intend" /\ lock = Free
        /\ \/ /\ again \/ fresh
              /\ Write(t, IF again THEN env[t] ELSE intent)
              /\ call' = [call EXCEPT ![c].pc = "delete",
                                      ![c].row = IF again THEN env[t] ELSE intent]
           \/ /\ ~ again /\ ~ fresh
              /\ Return(c) /\ UNCHANGED env
        /\ UNCHANGED <<desired, seen, secret, pod, uids, round, judge, lock, faults>>

(* Mutant: only pauses are taken up whose row says paused already.         *)
reconcilePauseLate(t) ==
    /\ call[Loop] = NoCall
    /\ env[t].state = "paused" /\ env[t].phase = "pausing"
    /\ Enter(Loop, "pause", "delete", t)
    /\ UNCHANGED <<env, desired, seen, secret, pod, uids, round, judge, lock, faults>>
reconcilePause(t) ==       \* the loop takes up a pause that has not finished
    /\ call[Loop] = NoCall
    /\ env[t].state = "running" /\ env[t].phase = "pausing"
    /\ Enter(Loop, "pause", "delete", t)
    /\ UNCHANGED <<env, desired, seen, secret, pod, uids, round, judge, lock, faults>>

Terminating(p) == IF p.uid = 0 THEN p ELSE [p EXCEPT !.health = "going"]

deletePod(c) ==            \* the uid the caller knows is a precondition
    LET t == call[c].task
        refused == call[c].row.podUid # 0 /\ pod[t].uid \notin {0, call[c].row.podUid}
    IN  /\ call[c].pc = "delete"
        /\ \/ /\ ~ refused
              /\ pod' = [pod EXCEPT ![t] = Terminating(@)]
              /\ Step(c, IF t \in Protected THEN "look" ELSE "write")
           \/ /\ refused
              /\ Return(c) /\ UNCHANGED pod
        /\ UNCHANGED <<env, desired, seen, secret, uids, round, judge, lock, faults>>

(* Mutant: the answer of the cluster is not awaited.                       *)
podPhaseIgnored(c) ==
    /\ call[c].pc = "look"
    /\ Step(c, "write")
    /\ UNCHANGED <<env, desired, seen, secret, pod, uids, round, judge, lock, faults>>
podPhase(c) ==             \* a pause of a protected task goes on if the Pod is Missing
    /\ call[c].pc = "look"
    /\ IF pod[call[c].task].uid = 0 THEN Step(c, "write") ELSE Return(c)
    /\ UNCHANGED <<env, desired, seen, secret, pod, uids, round, judge, lock, faults>>

(* Mutant: the row is not read again under the lock.                       *)
finishBlindly(c) ==
    LET t == call[c].task
    IN  /\ call[c].op = "pause" /\ call[c].pc = "write" /\ t \in Protected
        /\ lock = Free
        /\ Write(t, [call[c].row EXCEPT !.state = "paused", !.phase = "paused"])
        /\ Return(c)
        /\ UNCHANGED <<desired, seen, secret, pod, uids, round, judge, lock, faults>>
finishBusinessPause(c) ==
    LET t == call[c].task
        current == /\ env[t].state = "running" /\ env[t].phase = "pausing"
                   /\ env[t].podUid = call[c].row.podUid
    IN  /\ call[c].op = "pause" /\ call[c].pc = "write" /\ t \in Protected
        /\ lock = Free
        /\ IF current THEN Write(t, [env[t] EXCEPT !.state = "paused", !.phase = "paused"])
                      ELSE UNCHANGED env
        /\ Return(c)
        /\ UNCHANGED <<desired, seen, secret, pod, uids, round, judge, lock, faults>>

writePaused(c) ==          \* a plain task: the row as it was read, now paused
    LET t == call[c].task
    IN  /\ call[c].op = "pause" /\ call[c].pc = "write" /\ t \notin Protected
        /\ Write(t, [call[c].row EXCEPT !.state = "paused"])
        /\ Return(c)
        /\ UNCHANGED <<desired, seen, secret, pod, uids, round, judge, lock, faults>>

resumeEnvironment(c, t) ==
    /\ c # Loop /\ call[c] = NoCall
    /\ env[t].state = "paused" /\ env[t].start < MaxStart
    /\ Enter(c, "resume", "wait", t)
    /\ UNCHANGED <<env, desired, seen, secret, pod, uids, round, judge, lock, faults>>

waitForPausedPodRemoval(c) ==
    /\ call[c].pc = "wait"
    /\ IF pod[call[c].task].uid = 0 THEN Step(c, "admit") ELSE Return(c)
    /\ UNCHANGED <<env, desired, seen, secret, pod, uids, round, judge, lock, faults>>

readPhase(c) ==            \* admitIn: a record that counts already is not counted again
    LET t == call[c].task
        found == IF Counted(t) THEN "declare" ELSE "count"
    IN  /\ call[c].pc = "admit"
        /\ \/ /\ t \in Protected /\ lock = Free
              /\ IF env[t].state = "paused"
                 THEN Step(c, found) /\ lock' = c
                 ELSE Return(c) /\ UNCHANGED lock
           \/ /\ t \notin Protected
              /\ Step(c, found) /\ UNCHANGED lock
        /\ UNCHANGED <<env, desired, seen, secret, pod, uids, round, judge, faults>>

RestartRow(c) ==           \* protected: what the lock protects; plain: what was read first
    IF call[c].task \in Protected THEN [env[call[c].task] EXCEPT !.phase = "resuming"]
                                  ELSE call[c].row

(* Mutant: a record that was given up is declared again.                   *)
AdmissibleAgain(c) ==
    /\ RestartRow(c).start < MaxStart
    /\ call[c].pc = "count" => Occupancy < Limit
Admissible(c) ==
    /\ desired[call[c].task] = "present"
    /\ RestartRow(c).start < MaxStart
    /\ call[c].pc = "count" => Occupancy < Limit

admitAndRestart(c) ==      \* declare, write the row, commit; or roll back
    LET t == call[c].task
    IN  /\ call[c].pc \in {"declare", "count"}
        /\ IF Admissible(c)
           THEN Write(t, [RestartRow(c) EXCEPT !.state = "creating", !.podUid = 0, !.start = @ + 1])
           ELSE UNCHANGED env
        /\ Return(c)
        /\ lock' = IF lock = c THEN Free ELSE lock
        /\ UNCHANGED <<desired, seen, secret, pod, uids, round, judge, faults>>

releaseEnvironment(c, t) ==
    /\ c # Loop /\ call[c] = NoCall /\ lock = Free
    /\ "releasing" \in NextStates(env[t].state)
    /\ \/ /\ t \in Protected                   \* deferred to the cleanup job
          /\ Write(t, [env[t] EXCEPT
                !.state = "releasing",
                !.phase = IF @ = "none" THEN @ ELSE "ready",
                !.release = IF occupiesQuota(env[t].state) THEN "occupied" ELSE "vacant"])
          /\ UNCHANGED call
       \/ /\ t \notin Protected
          /\ Write(t, [env[t] EXCEPT !.state = "releasing"])
          /\ Enter(c, "release", "delete", t)
    /\ desired' = [desired EXCEPT ![t] = "absent"]
    /\ UNCHANGED <<seen, secret, pod, uids, round, judge, lock, faults>>

writeReleased(c) ==
    LET t == call[c].task
    IN  /\ call[c].op = "release" /\ call[c].pc = "write"
        /\ Write(t, [call[c].row EXCEPT !.state = "released"])
        /\ Return(c)
        /\ UNCHANGED <<desired, seen, secret, pod, uids, round, judge, lock, faults>>

(* Mutant: only releases that still occupy quota are taken up.             *)
cleanupOccupied(t) ==
    LET refused == env[t].podUid # 0 /\ pod[t].uid # env[t].podUid
    IN  /\ lock = Free
        /\ env[t].state = "releasing" /\ env[t].release = "occupied"
        /\ \/ /\ pod[t].health \in {"up", "exited"} /\ ~ refused
              /\ pod' = [pod EXCEPT ![t] = Terminating(@)]
              /\ UNCHANGED env
           \/ /\ pod[t].uid = 0
              /\ Write(t, [env[t] EXCEPT !.state = "released", !.release = "none"])
              /\ UNCHANGED pod
        /\ UNCHANGED <<desired, seen, secret, uids, round, judge, call, lock, faults>>
cleanupWorkspace(t) ==     \* the job of a deferred release, retried until the Pod is gone
    LET refused == env[t].podUid # 0 /\ pod[t].uid # env[t].podUid
    IN  /\ lock = Free
        /\ env[t].state = "releasing" /\ env[t].release # "none"
        /\ \/ /\ pod[t].health \in {"up", "exited"} /\ ~ refused
              /\ pod' = [pod EXCEPT ![t] = Terminating(@)]
              /\ UNCHANGED env
           \/ /\ pod[t].uid = 0
              /\ Write(t, [env[t] EXCEPT !.state = "released", !.release = "none"])
              /\ UNCHANGED pod
        /\ UNCHANGED <<desired, seen, secret, uids, round, judge, call, lock, faults>>

(***************************************************************************)
(* The cluster reconciler: one round at a time per record.                 *)
(***************************************************************************)
applyWorkload(t) ==
    /\ round[t] = NoRound
    /\ desired[t] = "present" /\ wantsProvisioning(t)
    /\ round' = [round EXCEPT ![t] = [NoRound EXCEPT !.pc = "secret", !.start = env[t].start]]
    /\ UNCHANGED <<env, desired, seen, secret, pod, uids, judge, call, lock, faults>>

ensureRunnerSecret(t) ==   \* one that exists is taken as it is, else its values are asked for
    /\ round[t].pc = "secret"
    /\ round' = [round EXCEPT ![t] =
            CASE secret[t][@.start] # 0 -> [@ EXCEPT !.pc = "pod"]
              [] wantsProvisioning(t) /\ secret[t][@.start] = 0 ->
                    [@ EXCEPT !.pc = "values", !.asked = env[t].start]
              [] OTHER -> NoRound]
    /\ UNCHANGED <<env, desired, seen, secret, pod, uids, judge, call, lock, faults>>

runnerValues(t) ==
    LET r == round[t]
    IN  /\ r.pc = "values" /\ lock = Free
        /\ \/ /\ wantsProvisioning(t) /\ env[t].start = r.asked
              /\ Write(t, [env[t] EXCEPT !.token = r.asked])
              /\ secret' = [secret EXCEPT ![t][r.start] = r.asked]
              /\ round' = [round EXCEPT ![t].pc = "pod"]
           \/ /\ ~ (wantsProvisioning(t) /\ env[t].start = r.asked)
              /\ round' = [round EXCEPT ![t] = NoRound]
              /\ UNCHANGED <<env, secret>>
        /\ UNCHANGED <<desired, seen, pod, uids, judge, call, lock, faults>>

ensurePod(t) ==            \* a Pod of that name is taken as it is, a terminating one too
    LET r == round[t]
        created == [uid |-> uids[t] + 1, start |-> r.start,
                    token |-> secret[t][r.start], health |-> "up"]
    IN  /\ r.pc = "pod"
        /\ \/ /\ pod[t].uid = 0 /\ uids[t] < MaxPod
              /\ pod' = [pod EXCEPT ![t] = created]
              /\ uids' = [uids EXCEPT ![t] = @ + 1]
           \/ /\ pod[t].uid # 0
              /\ UNCHANGED <<pod, uids>>
        /\ round' = [round EXCEPT ![t].pc = "bind", ![t].uid = pod'[t].uid]
        /\ UNCHANGED <<env, desired, seen, secret, judge, call, lock, faults>>

bindWorkload(t) ==
    /\ round[t].pc = "bind" /\ lock = Free
    /\ IF wantsProvisioning(t) THEN Write(t, [env[t] EXCEPT !.podUid = round[t].uid])
                               ELSE UNCHANGED env
    /\ round' = [round EXCEPT ![t] = NoRound]
    /\ UNCHANGED <<desired, seen, secret, pod, uids, judge, call, lock, faults>>

removeSecrets(t) ==        \* of a paused record, and of one that is not wanted
    /\ round[t] = NoRound
    /\ desired[t] = "absent" \/ (desired[t] = "present" /\ env[t].state = "paused")
    /\ \E s \in 1..MaxStart : secret[t][s] # 0
    /\ secret' = [secret EXCEPT ![t] = [s \in 1..MaxStart |-> 0]]
    /\ UNCHANGED <<env, desired, seen, pod, uids, round, judge, call, lock, faults>>

(* Mutant: only the Pod the row names is removed.                          *)
removeBoundPod(t) ==
    /\ round[t] = NoRound
    /\ desired[t] = "absent" /\ pod[t].health \in {"up", "exited"}
    /\ pod[t].uid = env[t].podUid
    /\ pod' = [pod EXCEPT ![t] = Terminating(@)]
    /\ UNCHANGED <<env, desired, seen, secret, uids, round, judge, call, lock, faults>>
removePod(t) ==
    /\ round[t] = NoRound
    /\ desired[t] = "absent" /\ pod[t].health \in {"up", "exited"}
    /\ pod' = [pod EXCEPT ![t] = Terminating(@)]
    /\ UNCHANGED <<env, desired, seen, secret, uids, round, judge, call, lock, faults>>

observe(t) ==
    /\ desired[t] # "none" /\ seen[t] # pod[t].uid
    /\ seen' = [seen EXCEPT ![t] = pod[t].uid]
    /\ UNCHANGED <<env, desired, secret, pod, uids, round, judge, call, lock, faults>>

(***************************************************************************)
(* The Pod, its runner, and the loop that judges missing Pods.             *)
(***************************************************************************)
PodGone(t) ==              \* the grace period of a deletion is over
    /\ pod[t].health = "going"
    /\ pod' = [pod EXCEPT ![t] = NoPod]
    /\ UNCHANGED <<env, desired, seen, secret, uids, round, judge, call, lock, faults>>

onRunnerConnected(t) ==
    /\ pod[t].health \in {"up", "going"} /\ lock = Free
    /\ env[t].state = "creating" /\ env[t].phase # "pausing"
    /\ pod[t].token # 0 /\ pod[t].token = env[t].token
    /\ Write(t, [env[t] EXCEPT
            !.state = "running",
            !.podUid = IF @ = 0 THEN pod[t].uid ELSE @,
            !.phase = IF t \in Protected THEN "ready" ELSE @])
    /\ UNCHANGED <<desired, seen, secret, pod, uids, round, judge, call, lock, faults>>

listForJudgement(t) ==
    /\ judge[t] = NoJudge
    /\ env[t].state \in {"creating", "running"} /\ env[t].phase # "pausing"
    /\ judge' = [judge EXCEPT ![t] = [pc |-> "listed", waiting |-> wantsProvisioning(t)]]
    /\ UNCHANGED <<env, desired, seen, secret, pod, uids, round, call, lock, faults>>

judgeEnvironment(t) ==     \* Missing while the Pod is awaited counts only after the grace
    LET missing == pod[t].health = "none"
        bad == pod[t].health = "exited" \/ (missing /\ ~ judge[t].waiting)
    IN  /\ judge[t].pc = "listed"
        /\ \/ /\ bad
              /\ judge' = [judge EXCEPT ![t].pc = "bad"] /\ UNCHANGED faults
           \/ /\ ~ bad
              /\ judge' = [judge EXCEPT ![t] = NoJudge] /\ UNCHANGED faults
           \/ /\ missing /\ judge[t].waiting /\ faults < MaxFault
              /\ judge' = [judge EXCEPT ![t].pc = "bad"] /\ faults' = faults + 1
        /\ UNCHANGED <<env, desired, seen, secret, pod, uids, round, call, lock>>

(* Mutants: a pause in progress is not spared; a state nothing else knows. *)
failWhilePausing(t) ==
    /\ judge[t].pc = "bad" /\ lock = Free
    /\ IF env[t].state \in {"creating", "running"}
       THEN Write(t, [env[t] EXCEPT !.state = "failed"])
       ELSE UNCHANGED env
    /\ judge' = [judge EXCEPT ![t] = NoJudge]
    /\ UNCHANGED <<desired, seen, secret, pod, uids, round, call, lock, faults>>

failEnvironment(t) ==
    /\ judge[t].pc = "bad" /\ lock = Free
    /\ IF env[t].state \in {"creating", "running"} /\ env[t].phase # "pausing"
       THEN Write(t, [env[t] EXCEPT !.state = "failed"])
       ELSE UNCHANGED env
    /\ judge' = [judge EXCEPT ![t] = NoJudge]
    /\ UNCHANGED <<desired, seen, secret, pod, uids, round, call, lock, faults>>

(***************************************************************************)
(* Faults.                                                                 *)
(***************************************************************************)
CallFails(c) ==            \* the API refuses, or the process stops
    /\ call[c] # NoCall /\ faults < MaxFault
    /\ faults' = faults + 1
    /\ Return(c)
    /\ lock' = IF lock = c THEN Free ELSE lock
    /\ UNCHANGED <<env, desired, seen, secret, pod, uids, round, judge>>

RoundFails(t) ==
    /\ round[t] # NoRound /\ faults < MaxFault
    /\ faults' = faults + 1
    /\ round' = [round EXCEPT ![t] = NoRound]
    /\ UNCHANGED <<env, desired, seen, secret, pod, uids, judge, call, lock>>

PodBreaks(t) ==            \* it exits, or the node is lost and the Pod is collected
    /\ pod[t].health = "up" /\ faults < MaxFault
    /\ faults' = faults + 1
    /\ \E p \in {NoPod, [pod[t] EXCEPT !.health = "exited"]} : pod' = [pod EXCEPT ![t] = p]
    /\ UNCHANGED <<env, desired, seen, secret, uids, round, judge, call, lock>>

-----------------------------------------------------------------------------
CallStep(c) ==
    \/ pauseBusinessWorkspace(c) \/ deletePod(c) \/ podPhase(c)
    \/ finishBusinessPause(c) \/ writePaused(c)
    \/ waitForPausedPodRemoval(c) \/ readPhase(c) \/ admitAndRestart(c)
    \/ writeReleased(c)

Request(c, t) ==
    pauseEnvironment(c, t) \/ resumeEnvironment(c, t) \/ releaseEnvironment(c, t)

RoundStep(t) ==
    \/ applyWorkload(t) \/ ensureRunnerSecret(t) \/ runnerValues(t)
    \/ ensurePod(t) \/ bindWorkload(t)

Collect(t) == removeSecrets(t) \/ removePod(t)

Judgement(t) == listForJudgement(t) \/ judgeEnvironment(t) \/ failEnvironment(t)

Next ==
    \/ \E c \in Caller : CallStep(c) \/ CallFails(c)
    \/ \E c \in Call, t \in Task : Request(c, t)
    \/ \E t \in Task :
        \/ admitEnvironment(t) \/ reconcilePause(t) \/ cleanupWorkspace(t)
        \/ RoundStep(t) \/ Collect(t) \/ observe(t)
        \/ PodGone(t) \/ onRunnerConnected(t) \/ Judgement(t)
        \/ RoundFails(t) \/ PodBreaks(t)

Spec == Init /\ [][Next]_vars

(***************************************************************************)
(* Fairness: API calls and transactions end; the loop comes back to every  *)
(* unfinished pause and cleanup; the work queue retries rounds; the watch  *)
(* delivers; a deleted Pod ends within its grace period; a runner that is  *)
(* up connects.  No request is ever owed, and no judgement.                *)
(***************************************************************************)
Fairness ==
    /\ \A c \in Caller : WF_vars(CallStep(c))
    /\ \A t \in Task :
        /\ WF_vars(reconcilePause(t)) /\ WF_vars(cleanupWorkspace(t))
        /\ WF_vars(RoundStep(t)) /\ WF_vars(removeSecrets(t)) /\ WF_vars(removePod(t))
        /\ WF_vars(observe(t)) /\ WF_vars(PodGone(t)) /\ WF_vars(onRunnerConnected(t))

FairSpec == Spec /\ Fairness

-----------------------------------------------------------------------------
EnvRow == [state : EnvironmentState \cup {"none"},
           phase : {"none", "ready", "pausing", "paused", "resuming"},
           podUid : Uid, start : Start, token : Start,
           release : {"none", "occupied", "vacant"}]
PodState == [uid : Uid, start : Start, token : Start,
             health : {"none", "up", "exited", "going"}]
RoundState == [pc : {"idle", "secret", "values", "pod", "bind"},
               start : Start, asked : Start, uid : Uid]
JudgeState == [pc : {"idle", "listed", "bad"}, waiting : BOOLEAN]
CallState == [op : {"none", "pause", "resume", "release"},
              pc : {"idle", "intend", "delete", "look", "write",
                    "wait", "admit", "declare", "count"},
              task : Task \cup {"none"}, row : EnvRow]

(* Rows, records, Pods and programs keep their shape and their bounds. *)
TypeOK ==
    /\ env \in [Task -> EnvRow]
    /\ desired \in [Task -> {"none", "present", "absent"}]
    /\ seen \in [Task -> Uid]
    /\ secret \in [Task -> [1..MaxStart -> Start]]
    /\ pod \in [Task -> PodState]
    /\ uids \in [Task -> Uid]
    /\ round \in [Task -> RoundState]
    /\ judge \in [Task -> JudgeState]
    /\ call \in [Caller -> CallState]
    /\ lock \in Caller \cup {Free}
    /\ faults \in 0..MaxFault

(* A protected task gives its quota back only when the Pod it was bound to *)
(* is gone from the cluster: finishBusinessPause and cleanupWorkspace wait *)
(* for Missing, whatever other calls, rounds and judgements do meanwhile.  *)
OriginalPodGone ==
    \A t \in Protected :
        env[t].state \in {"paused", "released"} /\ env[t].podUid # 0
            => pod[t].uid # env[t].podUid

(* A task whose record was given up never is creating or running again, no *)
(* matter which stale row a plain pause or resume writes back: the ledger  *)
(* refuses to declare it.                                                  *)
DroppedNeverRuns ==
    \A t \in Task : desired[t] = "absent" => env[t].state \notin {"creating", "running"}

(* Rows move along the transition table NEXT only, however many use cases  *)
(* write them.                                                             *)
TransitionsAllowed ==
    [][\A t \in Task : LET was == env[t].state
                           is == env'[t].state
                       IN  was \notin {"none", is} => is \in NextStates(was)]_vars

(* The Pod that a pause deletes never makes the task fail: from the intent *)
(* on, a task leaves its pause as paused or releasing, although the loop   *)
(* that judges missing Pods may have listed it before.                     *)
PauseIsNotFailure ==
    [][\A t \in Task : env[t].phase = "pausing" => env'[t].state # "failed"]_vars

(* Never more environments of a project live than its quota allows, in     *)
(* whatever order admissions, pauses, resumes and the observations that    *)
(* give the quota back are interleaved.                                    *)
LiveWithinLimit == Cardinality({t \in Task : computePhase(t) = "live"}) <= Limit

(* Every release ends, also when the process that serves it stops between  *)
(* its two transactions.                                                   *)
ReleaseEnds ==
    \A t \in Task : env[t].state = "releasing" ~> env[t].state = "released"

(* Every pause that was accepted ends, although its request may stop.  The *)
(* one exception: a round that failed and was retried late may have built  *)
(* another Pod under the name, which no pause deletes.                     *)
ForeignPod(t) == pod[t].uid \notin {0, env[t].podUid}

PauseEnds ==
    \A t \in Task : env[t].phase = "pausing" ~> env[t].phase # "pausing" \/ ForeignPod(t)

(* What was given up goes away: no Pod and no runner Secret of a dropped   *)
(* record survives, whatever round was still building them.                *)
DroppedIsCollected ==
    \A t \in Task : desired[t] = "absent" ~>
        pod[t].uid = 0 /\ \A s \in 1..MaxStart : secret[t][s] = 0
=============================================================================
