------------------------ MODULE TaskEnvironmentProofs ------------------------
(* Theorems about task environments, for any number of tasks, requests,    *)
(* starts, Pods and faults.                                                *)
EXTENDS TaskEnvironment, FiniteSetTheorems, TLAPS

(* What the types of a step rest on: a start that is under way has a       *)
(* number, and a request that is being served has a task.                  *)
StartsAreCounted == \A t \in Task : env[t].state = "creating" => env[t].start # 0
RoundsHaveStart == \A t \in Task : round[t].pc # "idle" => round[t].start # 0
CallsHaveTask == \A c \in Caller : call[c].pc # "idle" => call[c].task \in Task

TypeInv == TypeOK /\ StartsAreCounted /\ RoundsHaveStart /\ CallsHaveTask

-----------------------------------------------------------------------------
LEMMA NothingIsTyped ==
    /\ NoEnv \in EnvRow /\ NoPod \in PodState /\ NoRound \in RoundState
    /\ NoJudge \in JudgeState /\ NoCall \in CallState
  BY EnvironmentAssumption
  DEF NoEnv, NoPod, NoRound, NoJudge, NoCall, EnvRow, PodState, RoundState,
      JudgeState, CallState, Start, Uid

LEMMA InitTyped == ASSUME Init PROVE TypeInv
<1>1. TypeOK
  BY NothingIsTyped, EnvironmentAssumption DEF Init, TypeOK, Uid, Start, Caller
<1>2. StartsAreCounted /\ RoundsHaveStart /\ CallsHaveTask
  BY DEF Init, NoEnv, NoRound, NoCall, StartsAreCounted, RoundsHaveStart, CallsHaveTask
<1>. QED
  BY <1>1, <1>2 DEF TypeInv

(* The forms in which rows are written back.                               *)
Phase == {"none", "ready", "pausing", "paused", "resuming"}

LEMMA RowWithState ==
    ASSUME NEW r \in EnvRow, NEW s \in EnvironmentState
    PROVE  [r EXCEPT !.state = s] \in EnvRow /\ [r EXCEPT !.state = s].state = s
  BY DEF EnvRow

LEMMA RowWithStateAndPhase ==
    ASSUME NEW r \in EnvRow, NEW s \in EnvironmentState, NEW p \in Phase
    PROVE  /\ [r EXCEPT !.state = s, !.phase = p] \in EnvRow
           /\ [r EXCEPT !.state = s, !.phase = p].state = s
  BY DEF EnvRow, Phase

LEMMA RowWithIntent ==
    ASSUME NEW r \in EnvRow
    PROVE  [r EXCEPT !.phase = "pausing", !.token = 0] \in EnvRow
<1>1. 0 \in Start
  BY EnvironmentAssumption DEF Start
<1>. QED
  BY <1>1 DEF EnvRow

LEMMA RowWithToken ==
    ASSUME NEW r \in EnvRow, NEW k \in Start
    PROVE  LET w == [r EXCEPT !.token = k]
           IN  w \in EnvRow /\ w.state = r.state /\ w.start = r.start
  BY DEF EnvRow

LEMMA RowWithPod ==
    ASSUME NEW r \in EnvRow, NEW u \in Uid
    PROVE  LET w == [r EXCEPT !.podUid = u]
           IN  w \in EnvRow /\ w.state = r.state /\ w.start = r.start
  BY DEF EnvRow

LEMMA RowRestarted ==
    ASSUME NEW r \in EnvRow, NEW n \in Start
    PROVE  LET w == [r EXCEPT !.state = "creating", !.podUid = 0, !.start = n]
           IN  w \in EnvRow /\ w.start = n
<1>1. 0 \in Uid /\ "creating" \in EnvironmentState
  BY EnvironmentAssumption DEF Uid, EnvironmentState
<1>. QED
  BY <1>1 DEF EnvRow

(* A step that writes one row of the right shape keeps the rows' part.     *)
LEMMA WriteKeepsRows ==
    ASSUME TypeInv, NEW t \in Task, NEW row \in EnvRow, Write(t, row),
           row.state = "creating" => row.start # 0
    PROVE  env' \in [Task -> EnvRow] /\ StartsAreCounted'
  BY DEF TypeInv, TypeOK, StartsAreCounted, Write

(* A call that moves to another program counter, or returns.               *)
LEMMA StepKeepsCalls ==
    ASSUME TypeInv, NEW c \in Caller, call[c].pc # "idle",
           NEW pc \in {"delete", "look", "write", "wait", "admit", "declare", "count"},
           Step(c, pc) \/ Return(c)
    PROVE  CallsHaveTask' /\ call' \in [Caller -> CallState]
<1>1. call[c] \in CallState /\ call[c].task \in Task
  BY DEF TypeInv, TypeOK, CallsHaveTask
<1>2. [call[c] EXCEPT !.pc = pc] \in CallState
  BY <1>1 DEF CallState
<1>3. CASE Step(c, pc)
  BY <1>1, <1>2, <1>3 DEF Step, TypeInv, TypeOK, CallsHaveTask, CallState
<1>4. CASE Return(c)
  <2>1. NoCall.pc = "idle"
    BY DEF NoCall
  <2>. QED
    BY <1>4, <2>1, NothingIsTyped DEF Return, TypeInv, TypeOK, CallsHaveTask
<1>. QED
  BY <1>3, <1>4

LEMMA EnterKeepsCalls ==
    ASSUME TypeInv, NEW c \in Caller, NEW t \in Task,
           NEW op \in {"pause", "resume", "release"},
           NEW pc \in {"intend", "delete", "wait"}, Enter(c, op, pc, t)
    PROVE  CallsHaveTask' /\ call' \in [Caller -> CallState]
<1>1. [op |-> op, pc |-> pc, task |-> t, row |-> env[t]] \in CallState
  BY DEF TypeInv, TypeOK, CallState
<1>. QED
  BY <1>1 DEF Enter, TypeInv, TypeOK, CallsHaveTask

-----------------------------------------------------------------------------
(* The steps of a request keep the types.                                  *)
LEMMA CallStepTyped ==
    ASSUME TypeInv, NEW c \in Caller, CallStep(c) PROVE TypeInv'
<1>. DEFINE t == call[c].task
<1>. USE DEF TypeInv, TypeOK
<1>1. CASE pauseBusinessWorkspace(c)
  <2>1. t \in Task /\ call[c].pc # "idle"
    BY <1>1 DEF pauseBusinessWorkspace, CallsHaveTask
  <2>2. CASE Return(c) /\ UNCHANGED env
    BY <1>1, <2>1, <2>2, StepKeepsCalls DEF pauseBusinessWorkspace, StartsAreCounted, RoundsHaveStart
  <2>3. ASSUME NEW row \in EnvRow, row.state = "creating" => row.start # 0,
               Write(t, row), call' = [call EXCEPT ![c].pc = "delete", ![c].row = row]
        PROVE  TypeInv'
    <3>. DEFINE one == call[c]
    <3>1. one \in CallState
      OBVIOUS
    <3>2. /\ [one EXCEPT !.pc = "delete", !.row = row] \in CallState
          /\ [one EXCEPT !.pc = "delete", !.row = row].task = one.task
      <4>. HIDE DEF one
      <4>. QED
        BY <2>3, <3>1 DEF CallState
    <3>3. CallsHaveTask' /\ call' \in [Caller -> CallState]
      BY <2>1, <2>3, <3>2 DEF CallsHaveTask
    <3>. QED
      BY <1>1, <2>1, <2>3, <3>3, WriteKeepsRows DEF pauseBusinessWorkspace, RoundsHaveStart
  <2>4. env[t] \in EnvRow
    BY <2>1
  <2>5. [env[t] EXCEPT !.phase = "pausing", !.token = 0] \in EnvRow
    BY <2>4, RowWithIntent
  <2>6. /\ env[t].state = "creating" => env[t].start # 0
        /\ [env[t] EXCEPT !.phase = "pausing", !.token = 0].state = env[t].state
        /\ [env[t] EXCEPT !.phase = "pausing", !.token = 0].start = env[t].start
    BY <2>1 DEF StartsAreCounted, EnvRow
  <2>. QED
    BY <1>1, <2>2, <2>3, <2>5, <2>6, <2>4 DEF pauseBusinessWorkspace
<1>2. CASE deletePod(c)
  <2>1. t \in Task /\ call[c].pc # "idle"
    BY <1>2 DEF deletePod, CallsHaveTask
  <2>2. pod' \in [Task -> PodState]
    BY <1>2, <2>1 DEF deletePod, Terminating, PodState
  <2>3. CallsHaveTask' /\ call' \in [Caller -> CallState]
    BY <1>2, <2>1, StepKeepsCalls DEF deletePod
  <2>. QED
    BY <1>2, <2>2, <2>3 DEF deletePod, StartsAreCounted, RoundsHaveStart
<1>3. CASE podPhase(c) \/ waitForPausedPodRemoval(c)
  <2>1. CallsHaveTask' /\ call' \in [Caller -> CallState]
    BY <1>3, StepKeepsCalls DEF podPhase, waitForPausedPodRemoval
  <2>. QED
    BY <1>3, <2>1 DEF podPhase, waitForPausedPodRemoval, StartsAreCounted, RoundsHaveStart
<1>4. CASE finishBusinessPause(c)
  <2>1. t \in Task /\ call[c].pc # "idle"
    BY <1>4 DEF finishBusinessPause, CallsHaveTask
  <2>2. env[t] \in EnvRow /\ "paused" \in EnvironmentState /\ "paused" \in Phase
    BY <2>1 DEF EnvironmentState, Phase
  <2>3. /\ [env[t] EXCEPT !.state = "paused", !.phase = "paused"] \in EnvRow
        /\ [env[t] EXCEPT !.state = "paused", !.phase = "paused"].state = "paused"
    BY <2>2, RowWithStateAndPhase
  <2>4. env' \in [Task -> EnvRow] /\ StartsAreCounted'
    BY <1>4, <2>1, <2>2, <2>3, WriteKeepsRows DEF finishBusinessPause, StartsAreCounted
  <2>5. CallsHaveTask' /\ call' \in [Caller -> CallState]
    BY <1>4, <2>1, StepKeepsCalls DEF finishBusinessPause
  <2>. QED
    BY <1>4, <2>4, <2>5 DEF finishBusinessPause, RoundsHaveStart
<1>5. CASE writePaused(c) \/ writeReleased(c)
  <2>1. t \in Task /\ call[c].pc # "idle"
    BY <1>5 DEF writePaused, writeReleased, CallsHaveTask
  <2>. DEFINE row == call[c].row
  <2>2. row \in EnvRow
    BY DEF CallState
  <2>3. ASSUME NEW s \in {"paused", "released"}
        PROVE  [row EXCEPT !.state = s] \in EnvRow /\ [row EXCEPT !.state = s].state = s
    <3>. HIDE DEF row
    <3>. QED
      BY <2>2 DEF EnvRow, EnvironmentState
  <2>4. env' \in [Task -> EnvRow] /\ StartsAreCounted'
    BY <1>5, <2>1, <2>3, WriteKeepsRows DEF writePaused, writeReleased
  <2>5. CallsHaveTask' /\ call' \in [Caller -> CallState]
    BY <1>5, <2>1, StepKeepsCalls DEF writePaused, writeReleased
  <2>. QED
    BY <1>5, <2>4, <2>5 DEF writePaused, writeReleased, RoundsHaveStart
<1>6. CASE readPhase(c)
  <2>1. CallsHaveTask' /\ call' \in [Caller -> CallState]
    BY <1>6, StepKeepsCalls DEF readPhase
  <2>. QED
    BY <1>6, <2>1 DEF readPhase, StartsAreCounted, RoundsHaveStart
<1>7. CASE admitAndRestart(c)
  <2>1. t \in Task /\ call[c].pc # "idle"
    BY <1>7 DEF admitAndRestart, CallsHaveTask
  <2>2. call[c].row \in EnvRow /\ env[t] \in EnvRow
    BY <2>1 DEF CallState
  <2>3. RestartRow(c) \in EnvRow
    BY <2>1, <2>2 DEF RestartRow, EnvRow
  <2>. DEFINE row == [RestartRow(c) EXCEPT !.state = "creating", !.podUid = 0, !.start = @ + 1]
  <2>4. ASSUME Admissible(c) PROVE env' \in [Task -> EnvRow] /\ StartsAreCounted'
    <3>1. RestartRow(c).start + 1 \in Start \ {0}
      BY <2>3, <2>4, EnvironmentAssumption DEF Admissible, EnvRow, Start
    <3>2. row \in EnvRow /\ row.start # 0
      <4>. DEFINE r == RestartRow(c)
      <4>. HIDE DEF r
      <4>1. r \in EnvRow /\ r.start + 1 \in Start /\ r.start + 1 # 0
        BY <2>3, <3>1 DEF r
      <4>2. LET w == [r EXCEPT !.state = "creating", !.podUid = 0, !.start = r.start + 1]
            IN  w \in EnvRow /\ w.start = r.start + 1
        BY <4>1, RowRestarted
      <4>. QED
        BY <4>1, <4>2 DEF r
    <3>. QED
      BY <1>7, <2>1, <2>4, <3>2, WriteKeepsRows DEF admitAndRestart
  <2>5. env' \in [Task -> EnvRow] /\ StartsAreCounted'
    BY <1>7, <2>4 DEF admitAndRestart, StartsAreCounted
  <2>6. CallsHaveTask' /\ call' \in [Caller -> CallState]
    BY <1>7, <2>1, StepKeepsCalls DEF admitAndRestart
  <2>. QED
    BY <1>7, <2>5, <2>6 DEF admitAndRestart, RoundsHaveStart
<1>. QED
  BY <1>1, <1>2, <1>3, <1>4, <1>5, <1>6, <1>7 DEF CallStep

(* So do a request's first step, and the steps of the loop.                *)
LEMMA RequestTyped ==
    ASSUME TypeInv, NEW c \in Caller, NEW t \in Task,
           (c # Loop /\ Request(c, t)) \/ (c = Loop /\ reconcilePause(t))
    PROVE  TypeInv'
<1>. USE DEF TypeInv, TypeOK
<1>1. CASE pauseEnvironment(c, t) \/ resumeEnvironment(c, t) \/ (c = Loop /\ reconcilePause(t))
  <2>1. CallsHaveTask' /\ call' \in [Caller -> CallState]
    BY <1>1, EnterKeepsCalls DEF pauseEnvironment, resumeEnvironment, reconcilePause
  <2>. QED
    BY <1>1, <2>1
    DEF pauseEnvironment, resumeEnvironment, reconcilePause, StartsAreCounted, RoundsHaveStart
<1>2. CASE releaseEnvironment(c, t)
  <2>. DEFINE row == [env[t] EXCEPT
                !.state = "releasing",
                !.phase = IF @ = "none" THEN @ ELSE "ready",
                !.release = IF occupiesQuota(env[t].state) THEN "occupied" ELSE "vacant"]
  <2>1. env[t] \in EnvRow
    OBVIOUS
  <2>2. row \in EnvRow /\ row.state = "releasing"
    <3>. DEFINE r == env[t]
    <3>. HIDE DEF r
    <3>1. /\ r \in EnvRow
          /\ \A p \in Phase,
               o \in {"occupied", "vacant"} :
               /\ [r EXCEPT !.state = "releasing", !.phase = p, !.release = o] \in EnvRow
               /\ [r EXCEPT !.state = "releasing", !.phase = p, !.release = o].state = "releasing"
      BY <2>1 DEF EnvRow, EnvironmentState, Phase, r
    <3>. DEFINE p == IF r.phase = "none" THEN r.phase ELSE "ready"
                o == IF occupiesQuota(r.state) THEN "occupied" ELSE "vacant"
    <3>2. p \in Phase /\ o \in {"occupied", "vacant"}
      BY DEF Phase
    <3>3. row = [r EXCEPT !.state = "releasing", !.phase = p, !.release = o]
      BY <3>1 DEF EnvRow, r
    <3>. HIDE DEF p, o, row
    <3>. QED
      BY <3>1, <3>2, <3>3
  <2>3. [env[t] EXCEPT !.state = "releasing"] \in EnvRow
        /\ [env[t] EXCEPT !.state = "releasing"].state = "releasing"
    <3>1. "releasing" \in EnvironmentState
      BY DEF EnvironmentState
    <3>. QED
      BY <2>1, <3>1, RowWithState
  <2>4. env' \in [Task -> EnvRow] /\ StartsAreCounted'
    BY <1>2, <2>2, <2>3, WriteKeepsRows DEF releaseEnvironment
  <2>5. CallsHaveTask' /\ call' \in [Caller -> CallState]
    BY <1>2, EnterKeepsCalls DEF releaseEnvironment, CallsHaveTask
  <2>. QED
    BY <1>2, <2>4, <2>5 DEF releaseEnvironment, RoundsHaveStart
<1>. QED
  BY <1>1, <1>2 DEF Request

(* The forms in which the reconciler's round goes on.                      *)
RoundPc == {"secret", "values", "pod", "bind"}

LEMMA RoundGoesOn ==
    ASSUME NEW r \in RoundState, NEW pc \in RoundPc
    PROVE  [r EXCEPT !.pc = pc] \in RoundState /\ [r EXCEPT !.pc = pc].start = r.start
  BY DEF RoundState, RoundPc

LEMMA RoundStarts ==
    ASSUME NEW r \in RoundState, NEW pc \in RoundPc, NEW s \in Start
    PROVE  /\ [r EXCEPT !.pc = pc, !.start = s] \in RoundState
           /\ [r EXCEPT !.pc = pc, !.start = s].start = s
  BY DEF RoundState, RoundPc

LEMMA RoundAsks ==
    ASSUME NEW r \in RoundState, NEW pc \in RoundPc, NEW s \in Start
    PROVE  /\ [r EXCEPT !.pc = pc, !.asked = s] \in RoundState
           /\ [r EXCEPT !.pc = pc, !.asked = s].start = r.start
  BY DEF RoundState, RoundPc

LEMMA RoundBinds ==
    ASSUME NEW r \in RoundState, NEW pc \in RoundPc, NEW u \in Uid
    PROVE  /\ [r EXCEPT !.pc = pc, !.uid = u] \in RoundState
           /\ [r EXCEPT !.pc = pc, !.uid = u].start = r.start
  BY DEF RoundState, RoundPc

LEMMA RoundKept ==
    ASSUME TypeInv, NEW t \in Task, NEW r \in RoundState,
           r.pc # "idle" => r.start # 0, round' = [round EXCEPT ![t] = r]
    PROVE  round' \in [Task -> RoundState] /\ RoundsHaveStart'
  BY DEF TypeInv, TypeOK, RoundsHaveStart

(* The reconciler's round, which takes its start from the row.             *)
LEMMA RoundTyped ==
    ASSUME TypeInv, NEW t \in Task, RoundStep(t) \/ RoundFails(t) PROVE TypeInv'
<1>. USE DEF TypeInv, TypeOK
<1>1. round[t] \in RoundState /\ env[t] \in EnvRow /\ NoRound \in RoundState
      /\ NoRound.pc = "idle"
  BY NothingIsTyped DEF NoRound
<1>2. CASE applyWorkload(t)
  <2>1. env[t].start \in Start \ {0}
    BY <1>1, <1>2 DEF applyWorkload, wantsProvisioning, StartsAreCounted, EnvRow
  <2>2. round' \in [Task -> RoundState] /\ RoundsHaveStart'
    <3>1. round' = [round EXCEPT ![t] = [NoRound EXCEPT !.pc = "secret", !.start = env[t].start]]
      BY <1>2 DEF applyWorkload
    <3>2. "secret" \in RoundPc
      BY DEF RoundPc
    <3>3. env[t].start \in Start
      BY <2>1
    <3>4. \A n \in Start :
            /\ [NoRound EXCEPT !.pc = "secret", !.start = n] \in RoundState
            /\ [NoRound EXCEPT !.pc = "secret", !.start = n].start = n
      BY <1>1, <3>2, RoundStarts
    <3>. DEFINE n == env[t].start
    <3>. HIDE DEF n
    <3>5. n \in Start /\ n # 0 /\ round' = [round EXCEPT ![t] = [NoRound EXCEPT !.pc = "secret", !.start = n]]
      BY <2>1, <3>1, <3>3 DEF n
    <3>. QED
      BY <3>4, <3>5, RoundKept
  <2>. QED
    BY <1>2, <2>2 DEF applyWorkload, StartsAreCounted, CallsHaveTask
<1>3. CASE ensureRunnerSecret(t)
  <2>1. env[t].start \in Start
    BY <1>1 DEF EnvRow
  <2>2. round[t].start # 0
    BY <1>3 DEF ensureRunnerSecret, RoundsHaveStart
  <2>3. \/ round' = [round EXCEPT ![t] = [round[t] EXCEPT !.pc = "pod"]]
        \/ round' = [round EXCEPT ![t] = [round[t] EXCEPT !.pc = "values", !.asked = env[t].start]]
        \/ round' = [round EXCEPT ![t] = NoRound]
    BY <1>3 DEF ensureRunnerSecret
  <2>4. round' \in [Task -> RoundState] /\ RoundsHaveStart'
    <3>1. "pod" \in RoundPc /\ "values" \in RoundPc
      BY DEF RoundPc
    <3>2. CASE round' = [round EXCEPT ![t] = [round[t] EXCEPT !.pc = "pod"]]
      <4>1. [round[t] EXCEPT !.pc = "pod"] \in RoundState
            /\ [round[t] EXCEPT !.pc = "pod"].start # 0
        BY <1>1, <2>2, <3>1, RoundGoesOn
      <4>. QED
        BY <3>2, <4>1, RoundKept
    <3>3. CASE round' = [round EXCEPT ![t] = [round[t] EXCEPT !.pc = "values", !.asked = env[t].start]]
      <4>. DEFINE n == env[t].start
      <4>. HIDE DEF n
      <4>1. n \in Start /\ round' = [round EXCEPT ![t] = [round[t] EXCEPT !.pc = "values", !.asked = n]]
        BY <2>1, <3>3 DEF n
      <4>2. \A k \in Start :
              /\ [round[t] EXCEPT !.pc = "values", !.asked = k] \in RoundState
              /\ [round[t] EXCEPT !.pc = "values", !.asked = k].start = round[t].start
        BY <1>1, <3>1, RoundAsks
      <4>. QED
        BY <2>2, <4>1, <4>2, RoundKept
    <3>. QED
      BY <1>1, <2>3, <3>2, <3>3, RoundKept
  <2>. QED
    BY <1>3, <2>4 DEF ensureRunnerSecret, StartsAreCounted, CallsHaveTask
<1>4. CASE runnerValues(t)
  <2>. DEFINE r == round[t]
  <2>1. r.start \in 1..MaxStart /\ r.asked \in Start /\ r.start # 0
    <3>1. r.start \in Start /\ r.asked \in Start
      BY <1>1 DEF RoundState
    <3>2. r.start # 0
      BY <1>4 DEF runnerValues, RoundsHaveStart
    <3>. QED
      BY <3>1, <3>2, EnvironmentAssumption DEF Start
  <2>2. CASE Write(t, [env[t] EXCEPT !.token = r.asked])
              /\ secret' = [secret EXCEPT ![t][r.start] = r.asked]
              /\ round' = [round EXCEPT ![t] = [r EXCEPT !.pc = "pod"]]
    <3>1. env' \in [Task -> EnvRow] /\ StartsAreCounted'
      <4>1. [env[t] EXCEPT !.token = r.asked] \in EnvRow
            /\ [env[t] EXCEPT !.token = r.asked].state = env[t].state
            /\ [env[t] EXCEPT !.token = r.asked].start = env[t].start
        BY <1>1, <2>1, RowWithToken
      <4>. QED
        BY <2>2, <4>1, WriteKeepsRows DEF StartsAreCounted
    <3>2. secret' \in [Task -> [1..MaxStart -> Start]]
      <4>1. secret[t] \in [1..MaxStart -> Start]
        OBVIOUS
      <4>2. [secret[t] EXCEPT ![r.start] = r.asked] \in [1..MaxStart -> Start]
        BY <2>1, <4>1
      <4>. QED
        BY <2>2, <4>2
    <3>3. round' \in [Task -> RoundState] /\ RoundsHaveStart'
      <4>1. "pod" \in RoundPc
        BY DEF RoundPc
      <4>2. [r EXCEPT !.pc = "pod"] \in RoundState /\ [r EXCEPT !.pc = "pod"].start # 0
        BY <1>1, <2>1, <4>1, RoundGoesOn
      <4>. QED
        BY <2>2, <4>2, RoundKept
    <3>. QED
      BY <1>4, <3>1, <3>2, <3>3 DEF runnerValues, CallsHaveTask
  <2>3. CASE round' = [round EXCEPT ![t] = NoRound] /\ UNCHANGED <<env, secret>>
    <3>1. round' \in [Task -> RoundState] /\ RoundsHaveStart'
      BY <1>1, <2>3, RoundKept
    <3>. QED
      BY <1>4, <2>3, <3>1 DEF runnerValues, StartsAreCounted, CallsHaveTask
  <2>. QED
    BY <1>4, <2>2, <2>3 DEF runnerValues
<1>5. CASE ensurePod(t)
  <2>1. round[t].start \in 1..MaxStart /\ round[t].start # 0
    <3>1. round[t].start \in Start
      BY <1>1 DEF RoundState
    <3>2. round[t].start # 0
      BY <1>5 DEF ensurePod, RoundsHaveStart
    <3>. QED
      BY <3>1, <3>2, EnvironmentAssumption DEF Start
  <2>2. uids[t] < MaxPod => uids[t] + 1 \in Uid
    BY EnvironmentAssumption DEF Uid
  <2>3. pod' \in [Task -> PodState] /\ uids' \in [Task -> Uid]
    <3>. DEFINE created == [uid |-> uids[t] + 1, start |-> round[t].start,
                            token |-> secret[t][round[t].start], health |-> "up"]
    <3>1. secret[t] \in [1..MaxStart -> Start]
      OBVIOUS
    <3>2. secret[t][round[t].start] \in Start /\ round[t].start \in Start
      BY <1>1, <2>1, <3>1 DEF RoundState
    <3>3. uids[t] < MaxPod => created \in PodState
      BY <2>2, <3>2 DEF PodState
    <3>. HIDE DEF created
    <3>4. \/ /\ uids[t] < MaxPod
             /\ pod' = [pod EXCEPT ![t] = created]
             /\ uids' = [uids EXCEPT ![t] = uids[t] + 1]
          \/ UNCHANGED <<pod, uids>>
      BY <1>5 DEF ensurePod, created
    <3>. QED
      BY <2>2, <3>3, <3>4
  <2>4. round' = [round EXCEPT ![t] = [round[t] EXCEPT !.pc = "bind", !.uid = pod'[t].uid]]
        /\ pod'[t].uid \in Uid
    BY <1>5, <2>3 DEF ensurePod, PodState
  <2>5. round' \in [Task -> RoundState] /\ RoundsHaveStart'
    <3>1. "bind" \in RoundPc
      BY DEF RoundPc
    <3>. QED
      <4>1. [round[t] EXCEPT !.pc = "bind", !.uid = pod'[t].uid] \in RoundState
            /\ [round[t] EXCEPT !.pc = "bind", !.uid = pod'[t].uid].start = round[t].start
        BY <1>1, <2>4, <3>1, RoundBinds
      <4>. QED
        BY <2>1, <2>4, <4>1, RoundKept
  <2>. QED
    BY <1>5, <2>3, <2>5 DEF ensurePod, StartsAreCounted, CallsHaveTask
<1>6. CASE bindWorkload(t)
  <2>1. round[t].uid \in Uid
    BY <1>1 DEF RoundState
  <2>2. env' \in [Task -> EnvRow] /\ StartsAreCounted'
    <3>1. [env[t] EXCEPT !.podUid = round[t].uid] \in EnvRow
          /\ [env[t] EXCEPT !.podUid = round[t].uid].state = env[t].state
          /\ [env[t] EXCEPT !.podUid = round[t].uid].start = env[t].start
      BY <1>1, <2>1, RowWithPod
    <3>. QED
      BY <1>6, <3>1, WriteKeepsRows DEF bindWorkload, StartsAreCounted
  <2>3. round' \in [Task -> RoundState] /\ RoundsHaveStart'
    BY <1>1, <1>6, RoundKept DEF bindWorkload
  <2>. QED
    BY <1>6, <2>2, <2>3 DEF bindWorkload, CallsHaveTask
<1>7. CASE RoundFails(t)
  <2>1. round' \in [Task -> RoundState] /\ RoundsHaveStart'
    BY <1>1, <1>7, RoundKept DEF RoundFails
  <2>2. faults' \in 0..MaxFault
    BY <1>7, EnvironmentAssumption DEF RoundFails
  <2>. QED
    BY <1>7, <2>1, <2>2 DEF RoundFails, StartsAreCounted, CallsHaveTask
<1>. QED
  BY <1>2, <1>3, <1>4, <1>5, <1>6, <1>7 DEF RoundStep

(* Admission, cleanup, the cluster, the runner and the judgements.         *)
LEMMA SurroundingsTyped ==
    ASSUME TypeInv, NEW t \in Task,
           \/ admitEnvironment(t) \/ cleanupWorkspace(t) \/ Collect(t) \/ observe(t)
           \/ PodGone(t) \/ onRunnerConnected(t) \/ Judgement(t) \/ PodBreaks(t)
    PROVE  TypeInv'
<1>. USE DEF TypeInv, TypeOK
<1>1. /\ env[t] \in EnvRow /\ pod[t] \in PodState /\ NoPod \in PodState
      /\ \A h \in {"exited", "going"} : [pod[t] EXCEPT !.health = h] \in PodState
  BY NothingIsTyped DEF PodState
<1>2. CASE admitEnvironment(t)
  <2>1. [NoEnv EXCEPT !.state = "creating", !.start = 1] \in EnvRow
        /\ [NoEnv EXCEPT !.state = "creating", !.start = 1].start # 0
    <3>1. 0 \in Uid /\ 0 \in Start /\ 1 \in Start /\ "creating" \in EnvironmentState
      BY EnvironmentAssumption DEF EnvironmentState, Uid, Start
    <3>2. ASSUME NEW r \in EnvRow
          PROVE  /\ [r EXCEPT !.state = "creating", !.start = 1] \in EnvRow
                 /\ [r EXCEPT !.state = "creating", !.start = 1].start = 1
      BY <3>1 DEF EnvRow
    <3>3. 1 # 0
      OBVIOUS
    <3>. QED
      BY <3>2, <3>3, NothingIsTyped
  <2>2. env' \in [Task -> EnvRow] /\ StartsAreCounted'
    BY <1>2, <2>1, WriteKeepsRows DEF admitEnvironment
  <2>. QED
    BY <1>2, <2>2 DEF admitEnvironment, RoundsHaveStart, CallsHaveTask
<1>3. CASE cleanupWorkspace(t)
  <2>1. [env[t] EXCEPT !.state = "released", !.release = "none"] \in EnvRow
        /\ [env[t] EXCEPT !.state = "released", !.release = "none"].state = "released"
    <3>. DEFINE r == env[t]
    <3>. HIDE DEF r
    <3>1. r \in EnvRow /\ "released" \in EnvironmentState
      BY <1>1 DEF EnvironmentState, r
    <3>2. [r EXCEPT !.state = "released", !.release = "none"] \in EnvRow
          /\ [r EXCEPT !.state = "released", !.release = "none"].state = "released"
      BY <3>1 DEF EnvRow
    <3>. QED
      BY <3>2 DEF r
  <2>2. env' \in [Task -> EnvRow] /\ StartsAreCounted'
    BY <1>3, <2>1, WriteKeepsRows DEF cleanupWorkspace, StartsAreCounted
  <2>3. pod' \in [Task -> PodState]
    BY <1>1, <1>3 DEF cleanupWorkspace, Terminating
  <2>. QED
    BY <1>3, <2>2, <2>3 DEF cleanupWorkspace, RoundsHaveStart, CallsHaveTask
<1>4. CASE removeSecrets(t)
  <2>1. secret' \in [Task -> [1..MaxStart -> Start]]
    BY <1>4, EnvironmentAssumption DEF removeSecrets, Start
  <2>. QED
    BY <1>4, <2>1 DEF removeSecrets, StartsAreCounted, RoundsHaveStart, CallsHaveTask
<1>5. CASE removePod(t) \/ PodGone(t)
  <2>1. pod' \in [Task -> PodState]
    BY <1>1, <1>5 DEF removePod, PodGone, Terminating
  <2>. QED
    BY <1>5, <2>1 DEF removePod, PodGone, StartsAreCounted, RoundsHaveStart, CallsHaveTask
<1>6. CASE observe(t)
  <2>1. seen' \in [Task -> Uid]
    BY <1>1, <1>6 DEF observe, PodState
  <2>. QED
    BY <1>6, <2>1 DEF observe, StartsAreCounted, RoundsHaveStart, CallsHaveTask
<1>7. CASE onRunnerConnected(t)
  <2>. DEFINE u == IF env[t].podUid = 0 THEN pod[t].uid ELSE env[t].podUid
              p == IF t \in Protected THEN "ready" ELSE env[t].phase
              r == env[t]
  <2>1. u \in Uid /\ p \in Phase
    BY <1>1 DEF EnvRow, PodState, Phase
  <2>2. Write(t, [r EXCEPT !.state = "running", !.podUid = u, !.phase = p])
    BY <1>1, <1>7 DEF onRunnerConnected, EnvRow
  <2>3. [r EXCEPT !.state = "running", !.podUid = u, !.phase = p] \in EnvRow
        /\ [r EXCEPT !.state = "running", !.podUid = u, !.phase = p].state = "running"
    <3>1. r \in EnvRow /\ "running" \in EnvironmentState
      BY <1>1 DEF EnvironmentState
    <3>. HIDE DEF r, u, p
    <3>. QED
      BY <2>1, <3>1 DEF EnvRow, Phase
  <2>4. env' \in [Task -> EnvRow] /\ StartsAreCounted'
    <3>. DEFINE row == [r EXCEPT !.state = "running", !.podUid = u, !.phase = p]
    <3>1. row \in EnvRow /\ row.state # "creating" /\ Write(t, row)
      BY <2>2, <2>3
    <3>. HIDE DEF row
    <3>. QED
      BY <3>1, WriteKeepsRows
  <2>. QED
    BY <1>7, <2>4 DEF onRunnerConnected, RoundsHaveStart, CallsHaveTask
<1>8. CASE listForJudgement(t)
  <2>1. judge' \in [Task -> JudgeState]
    BY <1>8 DEF listForJudgement, JudgeState, wantsProvisioning
  <2>. QED
    BY <1>8, <2>1 DEF listForJudgement, StartsAreCounted, RoundsHaveStart, CallsHaveTask
<1>9. CASE judgeEnvironment(t)
  <2>1. [judge[t] EXCEPT !.pc = "bad"] \in JudgeState
    BY DEF JudgeState
  <2>2. judge' \in [Task -> JudgeState]
    BY <1>9, <2>1, NothingIsTyped DEF judgeEnvironment
  <2>3. faults' \in 0..MaxFault
    BY <1>9, EnvironmentAssumption DEF judgeEnvironment
  <2>. QED
    BY <1>9, <2>2, <2>3 DEF judgeEnvironment, StartsAreCounted, RoundsHaveStart, CallsHaveTask
<1>10. CASE failEnvironment(t)
  <2>1. [env[t] EXCEPT !.state = "failed"] \in EnvRow
        /\ [env[t] EXCEPT !.state = "failed"].state = "failed"
    <3>1. "failed" \in EnvironmentState
      BY DEF EnvironmentState
    <3>. QED
      BY <1>1, <3>1, RowWithState
  <2>2. env' \in [Task -> EnvRow] /\ StartsAreCounted'
    BY <1>10, <2>1, WriteKeepsRows DEF failEnvironment, StartsAreCounted
  <2>3. judge' \in [Task -> JudgeState]
    BY <1>10, NothingIsTyped DEF failEnvironment
  <2>. QED
    BY <1>10, <2>2, <2>3 DEF failEnvironment, RoundsHaveStart, CallsHaveTask
<1>11. CASE PodBreaks(t)
  <2>1. pod' \in [Task -> PodState]
    BY <1>1, <1>11 DEF PodBreaks
  <2>2. faults' \in 0..MaxFault
    BY <1>11, EnvironmentAssumption DEF PodBreaks
  <2>. QED
    BY <1>11, <2>1, <2>2 DEF PodBreaks, StartsAreCounted, RoundsHaveStart, CallsHaveTask
<1>. QED
  BY <1>2, <1>3, <1>4, <1>5, <1>6, <1>7, <1>8, <1>9, <1>10, <1>11 DEF Collect, Judgement

LEMMA NextTyped == ASSUME TypeInv, [Next]_vars PROVE TypeInv'
<1>1. CASE UNCHANGED vars
  BY <1>1 DEF vars, TypeInv, TypeOK, StartsAreCounted, RoundsHaveStart, CallsHaveTask
<1>2. ASSUME NEW c \in Caller, CallStep(c) PROVE TypeInv'
  BY <1>2, CallStepTyped
<1>3. ASSUME NEW c \in Caller, CallFails(c) PROVE TypeInv'
  <2>1. CallsHaveTask' /\ call' \in [Caller -> CallState]
    BY <1>3, NothingIsTyped
    DEF CallFails, Return, TypeInv, TypeOK, CallsHaveTask, NoCall
  <2>2. faults' \in 0..MaxFault /\ lock' \in Caller \cup {Free}
    BY <1>3, EnvironmentAssumption DEF CallFails, TypeInv, TypeOK
  <2>. QED
    BY <1>3, <2>1, <2>2 DEF CallFails, TypeInv, TypeOK, StartsAreCounted, RoundsHaveStart
<1>4. ASSUME NEW c \in Call, NEW t \in Task, Request(c, t) PROVE TypeInv'
  BY <1>4, EnvironmentAssumption, RequestTyped DEF Caller
<1>5. ASSUME NEW t \in Task, reconcilePause(t) PROVE TypeInv'
  BY <1>5, RequestTyped DEF Caller
<1>6. ASSUME NEW t \in Task, RoundStep(t) \/ RoundFails(t) PROVE TypeInv'
  BY <1>6, RoundTyped
<1>7. ASSUME NEW t \in Task,
             \/ admitEnvironment(t) \/ cleanupWorkspace(t) \/ Collect(t) \/ observe(t)
             \/ PodGone(t) \/ onRunnerConnected(t) \/ Judgement(t) \/ PodBreaks(t)
      PROVE  TypeInv'
  BY <1>7, SurroundingsTyped
<1>. QED
  BY <1>1, <1>2, <1>3, <1>4, <1>5, <1>6, <1>7 DEF Next

(* Rows, records, Pods, rounds, judgements and calls keep their shape and  *)
(* their bounds in every reachable state.                                  *)
THEOREM TypeCorrect == Spec => []TypeOK
<1>1. TypeInv => TypeOK
  BY DEF TypeInv
<1>. QED
  BY InitTyped, NextTyped, <1>1, PTL DEF Spec

-----------------------------------------------------------------------------
(* What one step can do to the row of one task.                            *)
Kept(t) == env'[t] = env[t]

Begun(t) ==          \* admitted or resumed: only a record that is wanted
    /\ env'[t].state = "creating" /\ env'[t].podUid = 0
    /\ desired'[t] = "present"

Intended(t) ==       \* a pause is going to delete the Pod
    /\ env[t].state = "running" /\ env'[t].state = "running"
    /\ env'[t].podUid = env[t].podUid

Provisioned(t) ==    \* a token was issued, or a Pod was bound
    /\ env[t].state = "creating" /\ env'[t].state = "creating"
    /\ env'[t].phase = env[t].phase
    /\ env'[t].podUid \in {env[t].podUid, round[t].uid}

Connected(t) ==
    /\ env[t].state = "creating" /\ env'[t].state = "running"
    /\ env[t].phase # "pausing"
    /\ env'[t].podUid \in {env[t].podUid, pod[t].uid}

Released(t) == env'[t].state = "releasing" /\ env'[t].podUid = env[t].podUid

Failed(t) ==
    /\ env'[t].state = "failed" /\ env[t].phase # "pausing"
    /\ env'[t].phase = env[t].phase /\ env'[t].podUid = env[t].podUid

Ended(t) ==          \* paused or released: after the cluster was asked
    /\ env'[t].state \in {"paused", "released"} /\ pod' = pod
    /\ \/ env'[t].podUid = env[t].podUid /\ pod[t].uid = 0
       \/ \E c \in Caller : /\ call[c].pc = "write" /\ call[c].task = t
                            /\ env'[t].podUid = call[c].row.podUid

RowFate(t) ==
    \/ Begun(t) \/ Released(t)
    \/ /\ desired'[t] = desired[t]
       /\ \/ Kept(t) \/ Intended(t) \/ Provisioned(t) \/ Connected(t)
          \/ Failed(t) \/ Ended(t)

(* A use case, and it alone, decides the fate of a row it writes.          *)
LEMMA CallDecides ==
    ASSUME TypeInv, NEW c \in Caller, CallStep(c), NEW t \in Task PROVE RowFate(t)
<1>. DEFINE u == call[c].task
<1>1. /\ env[t] \in EnvRow /\ call[c] \in CallState /\ call[c].row \in EnvRow
      /\ env \in [Task -> EnvRow]
  BY DEF TypeInv, TypeOK, CallState
<1>2. CASE pauseBusinessWorkspace(c)
  <2>1. CASE canPause(u) /\ Write(u, [env[u] EXCEPT !.phase = "pausing", !.token = 0])
              /\ UNCHANGED desired
    <3>1. u \in Task
      BY <1>2 DEF pauseBusinessWorkspace, TypeInv, CallsHaveTask
    <3>2. env'[u].state = env[u].state /\ env'[u].podUid = env[u].podUid
      BY <1>1, <2>1, <3>1 DEF Write, EnvRow
    <3>3. t # u => env'[t] = env[t]
      BY <1>1, <2>1 DEF Write
    <3>. QED
      BY <2>1, <3>2, <3>3 DEF canPause, RowFate, Intended, Kept
  <2>2. CASE UNCHANGED <<env, desired>>
    BY <2>2 DEF RowFate, Kept
  <2>3. CASE Write(u, env[u]) /\ UNCHANGED desired
    BY <1>1, <2>3 DEF Write, RowFate, Kept
  <2>. QED
    BY <1>2, <2>1, <2>2, <2>3 DEF pauseBusinessWorkspace
<1>3. CASE deletePod(c) \/ podPhase(c) \/ waitForPausedPodRemoval(c) \/ readPhase(c)
  BY <1>3 DEF deletePod, podPhase, waitForPausedPodRemoval, readPhase, RowFate, Kept
<1>4. CASE finishBusinessPause(c)
  <2>1. CASE UNCHANGED <<env, desired>>
    BY <2>1 DEF RowFate, Kept
  <2>2. CASE /\ call[c].pc = "write" /\ env[u].podUid = call[c].row.podUid
             /\ Write(u, [env[u] EXCEPT !.state = "paused", !.phase = "paused"])
             /\ UNCHANGED <<desired, pod>>
    <3>1. u \in Task
      BY <2>2 DEF TypeInv, CallsHaveTask
    <3>2. env'[u].state = "paused" /\ env'[u].podUid = env[u].podUid
      BY <1>1, <2>2, <3>1 DEF Write, EnvRow
    <3>3. t # u => env'[t] = env[t]
      BY <1>1, <2>2 DEF Write
    <3>. QED
      BY <2>2, <3>2, <3>3 DEF RowFate, Ended, Kept
  <2>. QED
    BY <1>4, <2>1, <2>2 DEF finishBusinessPause
<1>5. CASE writePaused(c) \/ writeReleased(c)
  BY <1>1, <1>5 DEF writePaused, writeReleased, Write, EnvRow, RowFate, Kept, Ended
<1>6. CASE admitAndRestart(c)
  <2>1. RestartRow(c) \in EnvRow
    <3>1. u \in Task
      BY <1>6 DEF admitAndRestart, TypeInv, CallsHaveTask
    <3>2. [env[u] EXCEPT !.phase = "resuming"] \in EnvRow
      BY <1>1, <3>1 DEF EnvRow
    <3>. QED
      BY <1>1, <3>2 DEF RestartRow
  <2>2. CASE Admissible(c)
    BY <1>1, <1>6, <2>1, <2>2
    DEF admitAndRestart, Admissible, Write, EnvRow, RowFate, Kept, Begun
  <2>3. CASE ~ Admissible(c)
    BY <1>6, <2>3 DEF admitAndRestart, RowFate, Kept
  <2>. QED
    BY <2>2, <2>3
<1>. QED
  BY <1>2, <1>3, <1>4, <1>5, <1>6 DEF CallStep

LEMMA RowsHaveFates ==
    ASSUME TypeInv, [Next]_vars, NEW t \in Task PROVE RowFate(t)
<1>1. /\ env[t] \in EnvRow /\ env \in [Task -> EnvRow] /\ desired \in [Task -> {"none", "present", "absent"}]
  BY DEF TypeInv, TypeOK
<1>2. CASE UNCHANGED vars
  BY <1>2 DEF vars, RowFate, Kept
<1>3. ASSUME NEW c \in Caller, CallStep(c) PROVE RowFate(t)
  BY <1>3, CallDecides
<1>4. ASSUME NEW c \in Caller, CallFails(c) PROVE RowFate(t)
  BY <1>4 DEF CallFails, RowFate, Kept
<1>5. ASSUME NEW c \in Call, NEW u \in Task, Request(c, u) PROVE RowFate(t)
  <2>1. CASE pauseEnvironment(c, u) \/ resumeEnvironment(c, u)
    BY <2>1 DEF pauseEnvironment, resumeEnvironment, RowFate, Kept
  <2>2. CASE releaseEnvironment(c, u)
    <3>. DEFINE p == IF env[u].phase = "none" THEN env[u].phase ELSE "ready"
                o == IF occupiesQuota(env[u].state) THEN "occupied" ELSE "vacant"
    <3>1. env[u] \in EnvRow
      BY DEF TypeInv, TypeOK
    <3>2. \/ Write(u, [env[u] EXCEPT !.state = "releasing", !.phase = p, !.release = o])
          \/ Write(u, [env[u] EXCEPT !.state = "releasing"])
      BY <2>2, <3>1 DEF releaseEnvironment, EnvRow
    <3>3. env'[u].state = "releasing" /\ env'[u].podUid = env[u].podUid
      <4>. DEFINE r == env[u]
      <4>1. env'[u] = [r EXCEPT !.state = "releasing", !.phase = p, !.release = o]
            \/ env'[u] = [r EXCEPT !.state = "releasing"]
        BY <1>1, <3>2 DEF Write
      <4>2. r \in EnvRow
        BY <3>1
      <4>. HIDE DEF p, o, r
      <4>3. /\ [r EXCEPT !.state = "releasing", !.phase = p, !.release = o].state = "releasing"
            /\ [r EXCEPT !.state = "releasing", !.phase = p, !.release = o].podUid = r.podUid
            /\ [r EXCEPT !.state = "releasing"].state = "releasing"
            /\ [r EXCEPT !.state = "releasing"].podUid = r.podUid
        BY <4>2 DEF EnvRow
      <4>4. env'[u].state = "releasing" /\ env'[u].podUid = r.podUid
        BY <4>1, <4>3
      <4>. QED
        BY <4>4 DEF r
    <3>4. t # u => env'[t] = env[t] /\ desired'[t] = desired[t]
      <4>. HIDE DEF p, o
      <4>. QED
        BY <1>1, <2>2, <3>2 DEF releaseEnvironment, Write
    <3>. QED
      BY <3>3, <3>4 DEF RowFate, Kept, Released
  <2>. QED
    BY <1>5, <2>1, <2>2 DEF Request
<1>6. ASSUME NEW u \in Task, admitEnvironment(u) PROVE RowFate(t)
  BY <1>1, <1>6 DEF admitEnvironment, Write, NoEnv, RowFate, Kept, Begun
<1>7. ASSUME NEW u \in Task, cleanupWorkspace(u) PROVE RowFate(t)
  <2>1. CASE UNCHANGED <<env, desired>>
    BY <2>1 DEF RowFate, Kept
  <2>2. CASE /\ Write(u, [env[u] EXCEPT !.state = "released", !.release = "none"])
             /\ pod[u].uid = 0 /\ UNCHANGED <<desired, pod>>
    <3>1. env[u] \in EnvRow
      BY DEF TypeInv, TypeOK
    <3>2. env'[u].state = "released" /\ env'[u].podUid = env[u].podUid
      BY <1>1, <2>2, <3>1 DEF Write, EnvRow
    <3>3. t # u => env'[t] = env[t]
      BY <1>1, <2>2 DEF Write
    <3>. QED
      BY <2>2, <3>2, <3>3 DEF RowFate, Ended, Kept
  <2>. QED
    BY <1>7, <2>1, <2>2 DEF cleanupWorkspace
<1>8. ASSUME NEW u \in Task, RoundStep(u) PROVE RowFate(t)
  BY <1>1, <1>8
  DEF RoundStep, applyWorkload, ensureRunnerSecret, runnerValues, ensurePod, bindWorkload,
      wantsProvisioning, Write, EnvRow, RowFate, Kept, Provisioned
<1>9. ASSUME NEW u \in Task, onRunnerConnected(u) PROVE RowFate(t)
  BY <1>1, <1>9 DEF onRunnerConnected, Write, EnvRow, RowFate, Kept, Connected
<1>10. ASSUME NEW u \in Task, Judgement(u) PROVE RowFate(t)
  BY <1>1, <1>10
  DEF Judgement, listForJudgement, judgeEnvironment, failEnvironment, Write, EnvRow,
      RowFate, Kept, Failed
<1>11. ASSUME NEW u \in Task,
              \/ reconcilePause(u) \/ Collect(u) \/ observe(u)
              \/ PodGone(u) \/ RoundFails(u) \/ PodBreaks(u)
       PROVE  RowFate(t)
  BY <1>11
  DEF reconcilePause, Collect, removeSecrets, removePod, observe, PodGone, RoundFails,
      PodBreaks, RowFate, Kept
<1>. QED
  BY <1>2, <1>3, <1>4, <1>5, <1>6, <1>7, <1>8, <1>9, <1>10, <1>11 DEF Next

-----------------------------------------------------------------------------
(* However stale the row a plain use case writes back: a task whose record *)
(* was given up never is creating or running again.                        *)
THEOREM DroppedStaysDown == Spec => []DroppedNeverRuns
<1>1. Init => DroppedNeverRuns
  BY DEF Init, NoEnv, DroppedNeverRuns
<1>2. TypeInv /\ DroppedNeverRuns /\ [Next]_vars => DroppedNeverRuns'
  <2>. SUFFICES ASSUME TypeInv, DroppedNeverRuns, [Next]_vars, NEW t \in Task,
                       desired'[t] = "absent"
                PROVE  env'[t].state \notin {"creating", "running"}
    BY DEF DroppedNeverRuns
  <2>1. RowFate(t)
    BY RowsHaveFates
  <2>. QED
    BY <2>1
    DEF DroppedNeverRuns, RowFate, Kept, Begun, Intended, Provisioned, Connected, Released,
        Failed, Ended
<1>. QED
  BY InitTyped, NextTyped, <1>1, <1>2, PTL DEF Spec

(* No row is pausing and failed.                                           *)
NoPausingFailure == \A t \in Task : env[t].phase = "pausing" => env[t].state # "failed"

(* The Pod that a pause deletes never makes its task fail, however late a  *)
(* judgement is written that was listed before the intent.                 *)
THEOREM PausesDoNotFail == Spec => PauseIsNotFailure
<1>1. Init => NoPausingFailure
  BY DEF Init, NoEnv, NoPausingFailure
<1>2. TypeInv /\ NoPausingFailure /\ [Next]_vars => NoPausingFailure'
  <2>. SUFFICES ASSUME TypeInv, NoPausingFailure, [Next]_vars, NEW t \in Task,
                       env'[t].phase = "pausing", env'[t].state = "failed"
                PROVE  FALSE
    BY DEF NoPausingFailure
  <2>1. RowFate(t)
    BY RowsHaveFates
  <2>2. CASE Kept(t)
    BY <2>2 DEF Kept, NoPausingFailure
  <2>3. CASE Failed(t)
    BY <2>3 DEF Failed
  <2>. QED
    BY <2>1, <2>2, <2>3 DEF RowFate, Begun, Intended, Provisioned, Connected, Released, Ended
<1>3. TypeInv /\ NoPausingFailure /\ [Next]_vars
        => [\A t \in Task : env[t].phase = "pausing" => env'[t].state # "failed"]_vars
  <2>. SUFFICES ASSUME TypeInv, NoPausingFailure, [Next]_vars, NEW t \in Task,
                       env[t].phase = "pausing", env'[t].state = "failed"
                PROVE  FALSE
    OBVIOUS
  <2>1. RowFate(t)
    BY RowsHaveFates
  <2>. QED
    BY <2>1
    DEF NoPausingFailure, RowFate, Kept, Begun, Intended, Provisioned, Connected, Released,
        Failed, Ended
<1>. QED
  BY InitTyped, NextTyped, <1>1, <1>2, <1>3, PTL DEF Spec, PauseIsNotFailure

-----------------------------------------------------------------------------
(* Uids only grow: nothing names a Pod that was not created yet.  And a    *)
(* call on a protected task that is about to write has seen its Pod go.    *)
UidsAreOld ==
    /\ \A t \in Task : /\ pod[t].uid <= uids[t] /\ env[t].podUid <= uids[t]
                       /\ round[t].uid <= uids[t]
    /\ \A c \in Caller : call[c].pc # "idle" => call[c].row.podUid <= uids[call[c].task]

WriterSawItGo ==
    \A c \in Caller :
        call[c].pc = "write" /\ call[c].task \in Protected /\ call[c].row.podUid # 0
            => pod[call[c].task].uid # call[c].row.podUid

PodInv == TypeInv /\ UidsAreOld /\ WriterSawItGo /\ OriginalPodGone

(* What one step can do to the Pod of one task.                            *)
PodFate(t) ==
    \/ pod'[t].uid \in {0, pod[t].uid} /\ uids'[t] = uids[t]
    \/ pod'[t].uid = uids[t] + 1 /\ uids'[t] = uids[t] + 1

LEMMA PodsHaveFates ==
    ASSUME TypeInv, [Next]_vars, NEW t \in Task PROVE PodFate(t)
<1>1. pod \in [Task -> PodState] /\ uids \in [Task -> Uid]
  BY DEF TypeInv, TypeOK
<1>2. \A u \in Task : Terminating(pod[u]).uid = pod[u].uid
                     /\ [pod[u] EXCEPT !.health = "exited"].uid = pod[u].uid
  BY <1>1 DEF Terminating, PodState
<1>3. CASE UNCHANGED <<pod, uids>>
  BY <1>3 DEF PodFate
<1>4. ASSUME NEW c \in Caller, deletePod(c) PROVE PodFate(t)
  <2>1. call[c].task \in Task
    BY <1>4 DEF deletePod, TypeInv, CallsHaveTask
  <2>. QED
    BY <1>1, <1>2, <1>4, <2>1 DEF deletePod, PodFate
<1>5. ASSUME NEW u \in Task, cleanupWorkspace(u) \/ removePod(u) PROVE PodFate(t)
  BY <1>1, <1>2, <1>5 DEF cleanupWorkspace, removePod, PodFate
<1>6. ASSUME NEW u \in Task, PodGone(u) \/ PodBreaks(u) PROVE PodFate(t)
  <2>1. NoPod.uid = 0
    BY DEF NoPod
  <2>2. pod' = [pod EXCEPT ![u] = NoPod] \/ pod' = [pod EXCEPT ![u] = [pod[u] EXCEPT !.health = "exited"]]
    BY <1>6 DEF PodGone, PodBreaks
  <2>3. UNCHANGED uids
    BY <1>6 DEF PodGone, PodBreaks
  <2>. QED
    BY <1>1, <1>2, <2>1, <2>2, <2>3 DEF PodFate
<1>7. ASSUME NEW u \in Task, ensurePod(u) PROVE PodFate(t)
  BY <1>1, <1>7 DEF ensurePod, PodFate
<1>8. ASSUME NEW c \in Caller, CallStep(c), ~ deletePod(c) PROVE UNCHANGED <<pod, uids>>
  BY <1>8
  DEF CallStep, pauseBusinessWorkspace, podPhase, finishBusinessPause, writePaused,
      waitForPausedPodRemoval, readPhase, admitAndRestart, writeReleased
<1>9. ASSUME NEW c \in Call, NEW u \in Task, Request(c, u) PROVE UNCHANGED <<pod, uids>>
  BY <1>9 DEF Request, pauseEnvironment, resumeEnvironment, releaseEnvironment
<1>10. ASSUME NEW u \in Task,
              \/ admitEnvironment(u) \/ reconcilePause(u) \/ observe(u) \/ removeSecrets(u)
              \/ onRunnerConnected(u) \/ Judgement(u) \/ RoundFails(u)
              \/ RoundStep(u) /\ ~ ensurePod(u)
       PROVE  UNCHANGED <<pod, uids>>
  BY <1>10
  DEF admitEnvironment, reconcilePause, observe, removeSecrets, onRunnerConnected, Judgement,
      listForJudgement, judgeEnvironment, failEnvironment, RoundFails, RoundStep,
      applyWorkload, ensureRunnerSecret, runnerValues, bindWorkload
<1>11. ASSUME NEW c \in Caller, CallFails(c) PROVE UNCHANGED <<pod, uids>>
  BY <1>11 DEF CallFails
<1>12. CASE UNCHANGED vars
  BY <1>3, <1>12 DEF vars
<1>. QED
  BY <1>3, <1>4, <1>5, <1>6, <1>7, <1>8, <1>9, <1>10, <1>11, <1>12 DEF Next, Collect

(* What one step can do to a call: it returns, goes on with the row it     *)
(* has, or takes the row as it is now.                                     *)
CallFate(c) ==
    \/ call'[c].pc = "idle"
    \/ /\ call[c].pc # "idle" /\ call'[c].task = call[c].task
       /\ call'[c].row.podUid = call[c].row.podUid
       /\ call'[c].pc = "write" /\ call[c].task \in Protected
            => call[c].pc = "write" \/ pod'[call[c].task].uid = 0
    \/ /\ call'[c].task \in Task /\ call'[c].pc # "write"
       /\ call'[c].row.podUid = env[call'[c].task].podUid

LEMMA CallsHaveFates ==
    ASSUME TypeInv, [Next]_vars, NEW c \in Caller PROVE CallFate(c)
<1>1. /\ call \in [Caller -> CallState] /\ NoCall.pc = "idle"
      /\ \A d \in Caller : call[d] \in CallState
  BY DEF TypeInv, TypeOK, NoCall
<1>2. CASE call'[c] = call[c]
  BY <1>2 DEF CallFate
<1>3. ASSUME NEW d \in Caller, Return(d) PROVE CallFate(c)
  BY <1>1, <1>3 DEF Return, CallFate
<1>4. ASSUME NEW d \in Caller, NEW pc, Step(d, pc), call[d].pc # "idle",
             pc = "write" => call[d].task \notin Protected \/ pod'[call[d].task].uid = 0
      PROVE  CallFate(c)
  <2>1. /\ [call[d] EXCEPT !.pc = pc].pc = pc
        /\ [call[d] EXCEPT !.pc = pc].task = call[d].task
        /\ [call[d] EXCEPT !.pc = pc].row = call[d].row
    BY <1>1 DEF CallState
  <2>2. CASE c = d
    BY <1>1, <1>4, <2>1, <2>2 DEF Step, CallFate
  <2>3. CASE c # d
    BY <1>1, <1>4, <2>3 DEF Step, CallFate
  <2>. QED
    BY <2>2, <2>3
<1>5. ASSUME NEW d \in Caller, NEW op, NEW pc, NEW t \in Task, Enter(d, op, pc, t), pc # "write"
      PROVE  CallFate(c)
  BY <1>1, <1>5 DEF Enter, CallFate
<1>6. ASSUME NEW d \in Caller, pauseBusinessWorkspace(d) PROVE CallFate(c)
  <2>. DEFINE t == call[d].task
              intent == [env[t] EXCEPT !.phase = "pausing", !.token = 0]
  <2>1. t \in Task /\ env[t] \in EnvRow
    BY <1>6 DEF pauseBusinessWorkspace, TypeInv, TypeOK, CallsHaveTask
  <2>2. intent.podUid = env[t].podUid
    BY <2>1 DEF EnvRow
  <2>3. \/ Return(d)
        \/ call' = [call EXCEPT ![d].pc = "delete", ![d].row = env[t]]
        \/ call' = [call EXCEPT ![d].pc = "delete", ![d].row = intent]
    BY <1>6 DEF pauseBusinessWorkspace
  <2>4. ASSUME NEW row, row.podUid = env[t].podUid,
               call' = [call EXCEPT ![d].pc = "delete", ![d].row = row]
        PROVE  CallFate(c)
    <3>1. ASSUME NEW one \in CallState
          PROVE  /\ [one EXCEPT !.pc = "delete", !.row = row].pc = "delete"
                 /\ [one EXCEPT !.pc = "delete", !.row = row].task = one.task
                 /\ [one EXCEPT !.pc = "delete", !.row = row].row = row
      BY DEF CallState
    <3>2. c = d => call'[c] = [call[d] EXCEPT !.pc = "delete", !.row = row]
      BY <1>1, <2>4
    <3>3. c # d => call'[c] = call[c]
      BY <1>1, <2>4
    <3>. QED
      BY <1>1, <1>2, <2>1, <2>4, <3>1, <3>2, <3>3 DEF CallFate
  <2>. QED
    BY <1>3, <2>2, <2>3, <2>4
<1>7. ASSUME NEW d \in Caller, deletePod(d) PROVE CallFate(c)
  <2>1. \/ Return(d)
        \/ Step(d, "look")
        \/ Step(d, "write") /\ call[d].task \notin Protected
    BY <1>7 DEF deletePod
  <2>2. call[d].pc # "idle"
    BY <1>7 DEF deletePod
  <2>3. CASE Step(d, "look")
    BY <1>4, <2>2, <2>3
  <2>4. CASE Step(d, "write") /\ call[d].task \notin Protected
    BY <1>4, <2>2, <2>4
  <2>. QED
    BY <1>3, <2>1, <2>3, <2>4
<1>8. ASSUME NEW d \in Caller, podPhase(d) PROVE CallFate(c)
  <2>1. Return(d) \/ (Step(d, "write") /\ pod'[call[d].task].uid = 0)
    BY <1>8 DEF podPhase
  <2>2. call[d].pc # "idle"
    BY <1>8 DEF podPhase
  <2>3. CASE Step(d, "write") /\ pod'[call[d].task].uid = 0
    BY <1>4, <2>2, <2>3
  <2>. QED
    BY <1>3, <2>1, <2>3
<1>9. ASSUME NEW d \in Caller, waitForPausedPodRemoval(d) \/ readPhase(d) PROVE CallFate(c)
  <2>1. \/ Return(d)
        \/ Step(d, "admit") \/ Step(d, "declare") \/ Step(d, "count")
    BY <1>9 DEF waitForPausedPodRemoval, readPhase
  <2>2. call[d].pc # "idle"
    BY <1>9 DEF waitForPausedPodRemoval, readPhase
  <2>3. ASSUME NEW pc \in {"admit", "declare", "count"}, Step(d, pc) PROVE CallFate(c)
    <3>1. pc # "write"
      OBVIOUS
    <3>. QED
      BY <1>4, <2>2, <2>3, <3>1
  <2>. QED
    BY <1>3, <2>1, <2>3
<1>10. ASSUME NEW d \in Caller,
              \/ finishBusinessPause(d) \/ writePaused(d) \/ admitAndRestart(d)
              \/ writeReleased(d) \/ CallFails(d)
       PROVE  CallFate(c)
  BY <1>3, <1>10 DEF finishBusinessPause, writePaused, admitAndRestart, writeReleased, CallFails
<1>11. ASSUME NEW d \in Call, NEW t \in Task, Request(d, t) PROVE CallFate(c)
  BY <1>2, <1>5, <1>11
  DEF Request, pauseEnvironment, resumeEnvironment, releaseEnvironment, Caller
<1>12. ASSUME NEW t \in Task, reconcilePause(t) PROVE CallFate(c)
  BY <1>5, <1>12 DEF reconcilePause, Caller
<1>13. ASSUME NEW t \in Task,
              \/ admitEnvironment(t) \/ cleanupWorkspace(t) \/ RoundStep(t) \/ Collect(t)
              \/ observe(t) \/ PodGone(t) \/ onRunnerConnected(t) \/ Judgement(t)
              \/ RoundFails(t) \/ PodBreaks(t)
       PROVE  CallFate(c)
  BY <1>2, <1>13
  DEF admitEnvironment, cleanupWorkspace, RoundStep, applyWorkload, ensureRunnerSecret,
      runnerValues, ensurePod, bindWorkload, Collect, removeSecrets, removePod, observe,
      PodGone, onRunnerConnected, Judgement, listForJudgement, judgeEnvironment,
      failEnvironment, RoundFails, PodBreaks
<1>14. CASE UNCHANGED vars
  BY <1>2, <1>14 DEF vars
<1>. QED
  BY <1>6, <1>7, <1>8, <1>9, <1>10, <1>11, <1>12, <1>13, <1>14 DEF Next, CallStep

LEMMA RoundsKnowPods ==
    ASSUME TypeInv, [Next]_vars, NEW t \in Task
    PROVE  round'[t].uid \in {0, round[t].uid, pod'[t].uid}
<1>1. /\ round \in [Task -> RoundState] /\ NoRound.uid = 0
      /\ \A u \in Task : round[u] \in RoundState
  BY DEF TypeInv, TypeOK, NoRound
<1>2. CASE round' = round
  BY <1>2
<1>3. ASSUME NEW u \in Task, round' = [round EXCEPT ![u] = NoRound]
      PROVE  round'[t].uid \in {0, round[t].uid}
  BY <1>1, <1>3
<1>4. ASSUME NEW u \in Task, applyWorkload(u) PROVE round'[t].uid \in {0, round[t].uid}
  BY <1>1, <1>4 DEF applyWorkload, NoRound
<1>5. ASSUME NEW u \in Task, ensureRunnerSecret(u) PROVE round'[t].uid \in {0, round[t].uid}
  BY <1>1, <1>5 DEF ensureRunnerSecret, RoundState
<1>6. ASSUME NEW u \in Task, runnerValues(u) PROVE round'[t].uid \in {0, round[t].uid}
  BY <1>1, <1>6 DEF runnerValues, RoundState
<1>7. ASSUME NEW u \in Task, ensurePod(u)
      PROVE  round'[t].uid \in {0, round[t].uid, pod'[t].uid}
  BY <1>1, <1>7 DEF ensurePod, RoundState
<1>8. ASSUME NEW u \in Task, bindWorkload(u) \/ RoundFails(u)
      PROVE  round'[t].uid \in {0, round[t].uid}
  BY <1>3, <1>8 DEF bindWorkload, RoundFails
<1>9. ASSUME NEW c \in Caller, CallStep(c) \/ CallFails(c) PROVE round' = round
  BY <1>9
  DEF CallStep, pauseBusinessWorkspace, deletePod, podPhase, finishBusinessPause, writePaused,
      waitForPausedPodRemoval, readPhase, admitAndRestart, writeReleased, CallFails
<1>10. ASSUME NEW c \in Call, NEW u \in Task, Request(c, u) PROVE round' = round
  BY <1>10 DEF Request, pauseEnvironment, resumeEnvironment, releaseEnvironment
<1>11. ASSUME NEW u \in Task,
              \/ admitEnvironment(u) \/ reconcilePause(u) \/ cleanupWorkspace(u) \/ Collect(u)
              \/ observe(u) \/ PodGone(u) \/ onRunnerConnected(u) \/ Judgement(u)
              \/ PodBreaks(u)
       PROVE  round' = round
  BY <1>11
  DEF admitEnvironment, reconcilePause, cleanupWorkspace, Collect, removeSecrets, removePod,
      observe, PodGone, onRunnerConnected, Judgement, listForJudgement, judgeEnvironment,
      failEnvironment, PodBreaks
<1>12. CASE UNCHANGED vars
  BY <1>12 DEF vars
<1>. QED
  BY <1>2, <1>4, <1>5, <1>6, <1>7, <1>8, <1>9, <1>10, <1>11, <1>12 DEF Next, RoundStep

LEMMA PodInvInit == ASSUME Init PROVE PodInv
<1>1. UidsAreOld
  BY DEF Init, UidsAreOld, NoPod, NoEnv, NoRound, NoCall
<1>2. WriterSawItGo
  BY DEF Init, WriterSawItGo, NoCall
<1>3. OriginalPodGone
  BY EnvironmentAssumption DEF Init, OriginalPodGone, NoEnv
<1>. QED
  BY InitTyped, <1>1, <1>2, <1>3 DEF PodInv

LEMMA PodInvStep == ASSUME PodInv, [Next]_vars PROVE PodInv'
<1>. USE DEF PodInv
<1>1. TypeInv'
  BY NextTyped
<1>2. ASSUME NEW t \in Task
      PROVE  /\ RowFate(t) /\ PodFate(t)
             /\ round'[t].uid \in {0, round[t].uid, pod'[t].uid}
             /\ uids[t] \in Nat /\ pod[t].uid \in Nat /\ env[t].podUid \in Nat
             /\ round[t].uid \in Nat
             /\ pod[t].uid <= uids[t] /\ env[t].podUid <= uids[t] /\ round[t].uid <= uids[t]
  <2>1. uids[t] \in Nat /\ pod[t].uid \in Nat /\ env[t].podUid \in Nat /\ round[t].uid \in Nat
    BY EnvironmentAssumption DEF TypeInv, TypeOK, EnvRow, PodState, RoundState, Uid
  <2>. QED
    BY <2>1, RowsHaveFates, PodsHaveFates, RoundsKnowPods DEF UidsAreOld
<1>3. ASSUME NEW c \in Caller, call[c].pc # "idle"
      PROVE  /\ call[c].task \in Task /\ call[c].row.podUid \in Nat
             /\ call[c].row.podUid <= uids[call[c].task]
  BY <1>3, EnvironmentAssumption DEF TypeInv, TypeOK, CallsHaveTask, CallState, EnvRow, Uid, UidsAreOld
<1>4. UidsAreOld'
  <2>1. ASSUME NEW t \in Task
        PROVE  uids'[t] \in Nat /\ uids[t] <= uids'[t] /\ pod'[t].uid <= uids'[t]
    BY <1>2 DEF PodFate
  <2>2. ASSUME NEW t \in Task PROVE env'[t].podUid <= uids'[t]
    <3>1. env'[t].podUid <= uids[t]
      <4>1. CASE Ended(t)
        BY <1>2, <1>3, <4>1 DEF Ended
      <4>2. CASE Begun(t)
        BY <1>2, <4>2 DEF Begun
      <4>3. CASE \/ Released(t) \/ Kept(t) \/ Intended(t) \/ Provisioned(t)
                 \/ Connected(t) \/ Failed(t)
        BY <1>2, <4>3 DEF Released, Kept, Intended, Provisioned, Connected, Failed
      <4>. QED
        BY <1>2, <4>1, <4>2, <4>3 DEF RowFate
    <3>2. env'[t].podUid \in Nat
      BY <1>1, EnvironmentAssumption DEF TypeInv, TypeOK, EnvRow, Uid
    <3>. QED
      BY <1>2, <2>1, <3>1, <3>2
  <2>3. ASSUME NEW t \in Task PROVE round'[t].uid <= uids'[t]
    BY <1>2, <2>1
  <2>4. ASSUME NEW c \in Caller, call'[c].pc # "idle"
        PROVE  call'[c].row.podUid <= uids'[call'[c].task]
    <3>1. CallFate(c)
      BY CallsHaveFates
    <3>2. CASE call[c].pc # "idle" /\ call'[c].task = call[c].task
               /\ call'[c].row.podUid = call[c].row.podUid
      BY <1>2, <1>3, <2>1, <3>2
    <3>3. CASE call'[c].task \in Task /\ call'[c].row.podUid = env[call'[c].task].podUid
      BY <1>2, <2>1, <3>3
    <3>. QED
      BY <2>4, <3>1, <3>2, <3>3 DEF CallFate
  <2>. QED
    BY <2>1, <2>2, <2>3, <2>4 DEF UidsAreOld
<1>5. WriterSawItGo'
  <2>. SUFFICES ASSUME NEW c \in Caller, call'[c].pc = "write", call'[c].task \in Protected,
                       call'[c].row.podUid # 0
                PROVE  pod'[call'[c].task].uid # call'[c].row.podUid
    BY DEF WriterSawItGo
  <2>. DEFINE t == call[c].task
  <2>1. /\ call[c].pc # "idle" /\ call'[c].task = t
        /\ call'[c].row.podUid = call[c].row.podUid
        /\ call[c].pc = "write" \/ pod'[t].uid = 0
    BY CallsHaveFates DEF CallFate
  <2>2. t \in Task /\ call[c].row.podUid <= uids[t] /\ call[c].row.podUid \in Nat
    BY <1>3, <2>1
  <2>3. CASE pod'[t].uid = 0
    BY <2>1, <2>3
  <2>4. CASE call[c].pc = "write"
    <3>1. pod[t].uid # call[c].row.podUid
      BY <2>1, <2>4 DEF WriterSawItGo
    <3>. QED
      BY <1>2, <2>1, <2>2, <3>1 DEF PodFate
  <2>. QED
    BY <2>1, <2>3, <2>4
<1>6. OriginalPodGone'
  <2>. SUFFICES ASSUME NEW t \in Protected, env'[t].state \in {"paused", "released"},
                       env'[t].podUid # 0
                PROVE  pod'[t].uid # env'[t].podUid
    BY DEF OriginalPodGone
  <2>1. t \in Task
    BY EnvironmentAssumption
  <2>2. CASE Kept(t)
    <3>1. pod[t].uid # env[t].podUid
      BY <2>2 DEF Kept, OriginalPodGone
    <3>. QED
      BY <1>2, <2>1, <2>2, <3>1 DEF Kept, PodFate
  <2>3. CASE Ended(t)
    <3>1. CASE env'[t].podUid = env[t].podUid /\ pod[t].uid = 0
      BY <2>3, <3>1 DEF Ended
    <3>2. ASSUME NEW c \in Caller, call[c].pc = "write", call[c].task = t,
                 env'[t].podUid = call[c].row.podUid
          PROVE  pod[t].uid # env'[t].podUid
      BY <3>2 DEF WriterSawItGo
    <3>. QED
      BY <2>3, <3>1, <3>2 DEF Ended
  <2>. QED
    BY <1>2, <2>1, <2>2, <2>3
    DEF RowFate, Begun, Released, Intended, Provisioned, Connected, Failed
<1>. QED
  BY <1>1, <1>4, <1>5, <1>6

(* A protected task gives its quota back only when the Pod it was bound to *)
(* is gone, for any number of requests, rounds, judgements and faults.     *)
THEOREM QuotaAfterPod == Spec => []OriginalPodGone
<1>1. PodInv => OriginalPodGone
  BY DEF PodInv
<1>. QED
  BY PodInvInit, PodInvStep, <1>1, PTL DEF Spec

-----------------------------------------------------------------------------
(* Rows of protected tasks follow the transition table, because whoever    *)
(* writes one has read it under the lock it still holds: a call that was   *)
(* admitted to resume holds it until it has written, and a deferred        *)
(* release is never written back by its request.                           *)
Admitted(c) == call[c].pc \in {"declare", "count"} /\ call[c].task \in Protected

AdmittedHolds == \A c \in Caller : Admitted(c) => lock = c /\ env[call[c].task].state = "paused"
ReleasesArePlain == \A c \in Caller : call[c].op = "release" => call[c].task \notin Protected

LockInv == TypeInv /\ AdmittedHolds /\ ReleasesArePlain

Legal(t) == env'[t].state # env[t].state /\ env[t].state # "none"
               => env'[t].state \in NextStates(env[t].state)

(* A row that changes its state was free, or its writer lets go of it.     *)
LEMMA ProtectedMoves ==
    ASSUME LockInv, [Next]_vars, NEW t \in Protected
    PROVE  /\ Legal(t)
           /\ env'[t].state # env[t].state
                => lock = Free \/ \E c \in Caller : lock = c /\ call'[c].pc = "idle"
<1>. DEFINE Goal == /\ Legal(t)
                    /\ env'[t].state # env[t].state
                        => lock = Free \/ \E c \in Caller : lock = c /\ call'[c].pc = "idle"
<1>. SUFFICES Goal
  OBVIOUS
<1>1. /\ t \in Task /\ env[t] \in EnvRow /\ env \in [Task -> EnvRow]
      /\ call \in [Caller -> CallState] /\ NoCall.pc = "idle"
  BY EnvironmentAssumption DEF LockInv, TypeInv, TypeOK, NoCall
<1>2. CASE env'[t].state = env[t].state
  BY <1>2 DEF Legal
<1>3. ASSUME NEW u \in Task, NEW row, Write(u, row), u = t => row.state = env[t].state
      PROVE  Goal
  BY <1>1, <1>2, <1>3 DEF Write
<1>4. ASSUME NEW u \in Task, NEW row, Write(u, row), lock = Free,
             u = t => env[t].state = "none" \/ row.state \in NextStates(env[t].state)
      PROVE  Goal
  BY <1>1, <1>2, <1>4 DEF Write, Legal
<1>5. ASSUME NEW c \in Caller, CallStep(c) PROVE Goal
  <2>. DEFINE u == call[c].task
  <2>1. CASE pauseBusinessWorkspace(c)
    <3>1. u \in Task /\ env[u] \in EnvRow
      BY <2>1 DEF pauseBusinessWorkspace, LockInv, TypeInv, TypeOK, CallsHaveTask
    <3>2. [env[u] EXCEPT !.phase = "pausing", !.token = 0].state = env[u].state
      BY <3>1 DEF EnvRow
    <3>3. \/ UNCHANGED env
          \/ Write(u, env[u])
          \/ Write(u, [env[u] EXCEPT !.phase = "pausing", !.token = 0])
      BY <2>1 DEF pauseBusinessWorkspace
    <3>. QED
      BY <1>2, <1>3, <3>1, <3>2, <3>3
  <2>2. CASE deletePod(c) \/ podPhase(c) \/ waitForPausedPodRemoval(c) \/ readPhase(c)
    BY <1>2, <2>2 DEF deletePod, podPhase, waitForPausedPodRemoval, readPhase
  <2>3. CASE finishBusinessPause(c)
    <3>1. u \in Task /\ env[u] \in EnvRow
      BY <2>3 DEF finishBusinessPause, LockInv, TypeInv, TypeOK, CallsHaveTask
    <3>2. [env[u] EXCEPT !.state = "paused", !.phase = "paused"].state = "paused"
      BY <3>1 DEF EnvRow
    <3>3. "paused" \in NextStates("running")
      BY DEF NextStates
    <3>4. CASE UNCHANGED env
      BY <1>2, <3>4
    <3>5. CASE /\ env[u].state = "running" /\ lock = Free
               /\ Write(u, [env[u] EXCEPT !.state = "paused", !.phase = "paused"])
      BY <1>4, <3>1, <3>2, <3>3, <3>5
    <3>. QED
      BY <2>3, <3>4, <3>5 DEF finishBusinessPause
  <2>4. CASE writePaused(c) \/ writeReleased(c)
    <3>1. u \notin Protected
      BY <2>4 DEF writePaused, writeReleased, LockInv, ReleasesArePlain
    <3>2. env'[t] = env[t]
      BY <1>1, <2>4, <3>1 DEF writePaused, writeReleased, Write
    <3>. QED
      BY <1>2, <3>2
  <2>5. CASE admitAndRestart(c)
    <3>1. u \in Task
      BY <2>5 DEF admitAndRestart, LockInv, TypeInv, CallsHaveTask
    <3>2. CASE u # t \/ UNCHANGED env
      BY <1>1, <1>2, <2>5, <3>2 DEF admitAndRestart, Write
    <3>3. CASE u = t /\ ~ UNCHANGED env
      <4>1. Admitted(c)
        BY <2>5, <3>3 DEF admitAndRestart, Admitted
      <4>2. lock = c /\ env[t].state = "paused"
        BY <3>3, <4>1 DEF LockInv, AdmittedHolds
      <4>3. call'[c].pc = "idle"
        BY <1>1, <2>5 DEF admitAndRestart, Return
      <4>4. RestartRow(c) \in EnvRow
        <5>1. [env[t] EXCEPT !.phase = "resuming"] \in EnvRow
          BY <1>1 DEF EnvRow
        <5>. QED
          BY <3>3, <5>1 DEF RestartRow
      <4>5. env'[t].state = "creating"
        BY <1>1, <2>5, <3>3, <4>4 DEF admitAndRestart, Write, EnvRow
      <4>6. "creating" \in NextStates("paused")
        BY DEF NextStates
      <4>. QED
        BY <4>2, <4>3, <4>5, <4>6 DEF Legal
    <3>. QED
      BY <3>2, <3>3
  <2>. QED
    BY <1>5, <2>1, <2>2, <2>3, <2>4, <2>5 DEF CallStep
<1>6. ASSUME NEW c \in Caller, CallFails(c) PROVE Goal
  BY <1>2, <1>6 DEF CallFails
<1>7. ASSUME NEW c \in Call, NEW u \in Task, Request(c, u) PROVE Goal
  <2>1. CASE pauseEnvironment(c, u) \/ resumeEnvironment(c, u)
    BY <1>2, <2>1 DEF pauseEnvironment, resumeEnvironment
  <2>2. CASE releaseEnvironment(c, u)
    <3>1. u = t => "releasing" \in NextStates(env[t].state)
      BY <2>2 DEF releaseEnvironment
    <3>2. u # t => env'[t] = env[t]
      BY <1>1, <2>2 DEF releaseEnvironment, Write
    <3>3. u = t => env'[t].state = "releasing"
      <4>. DEFINE p == IF env[u].phase = "none" THEN env[u].phase ELSE "ready"
                  o == IF occupiesQuota(env[u].state) THEN "occupied" ELSE "vacant"
                  r == env[u]
      <4>1. env[u] \in EnvRow
        BY DEF LockInv, TypeInv, TypeOK
      <4>2. env'[u] = [r EXCEPT !.state = "releasing", !.phase = p, !.release = o]
            \/ env'[u] = [r EXCEPT !.state = "releasing"]
        BY <1>1, <2>2, <4>1 DEF releaseEnvironment, Write, EnvRow
      <4>. HIDE DEF p, o, r
      <4>3. r \in EnvRow
        BY <4>1 DEF r
      <4>. QED
        BY <4>2, <4>3 DEF EnvRow
    <3>4. lock = Free
      BY <2>2 DEF releaseEnvironment
    <3>. QED
      BY <1>2, <3>1, <3>2, <3>3, <3>4 DEF Legal
  <2>. QED
    BY <1>7, <2>1, <2>2 DEF Request
<1>8. ASSUME NEW u \in Task, admitEnvironment(u) PROVE Goal
  BY <1>4, <1>8 DEF admitEnvironment
<1>9. ASSUME NEW u \in Task, cleanupWorkspace(u) PROVE Goal
  <2>1. [env[u] EXCEPT !.state = "released", !.release = "none"].state = "released"
    BY DEF LockInv, TypeInv, TypeOK, EnvRow
  <2>2. "released" \in NextStates("releasing")
    BY DEF NextStates
  <2>3. CASE UNCHANGED env
    BY <1>2, <2>3
  <2>4. CASE /\ lock = Free /\ env[u].state = "releasing"
             /\ Write(u, [env[u] EXCEPT !.state = "released", !.release = "none"])
    BY <1>4, <2>1, <2>2, <2>4
  <2>. QED
    BY <1>9, <2>3, <2>4 DEF cleanupWorkspace
<1>10. ASSUME NEW u \in Task, onRunnerConnected(u) PROVE Goal
  <2>1. env'[t] = env[t] \/ (env[t].state = "creating" /\ env'[t].state = "running")
    BY <1>1, <1>10 DEF onRunnerConnected, Write, EnvRow
  <2>2. lock = Free /\ "running" \in NextStates("creating")
    BY <1>10 DEF onRunnerConnected, NextStates
  <2>. QED
    BY <1>2, <2>1, <2>2 DEF Legal
<1>11. ASSUME NEW u \in Task, RoundStep(u) PROVE Goal
  <2>1. env'[t].state = env[t].state
    BY <1>1, <1>11
    DEF RoundStep, applyWorkload, ensureRunnerSecret, runnerValues, ensurePod, bindWorkload,
        Write, EnvRow
  <2>. QED
    BY <1>2, <2>1
<1>12. ASSUME NEW u \in Task, Judgement(u) PROVE Goal
  <2>1. \/ env'[t] = env[t]
        \/ /\ env[t].state \in {"creating", "running"} /\ env'[t].state = "failed"
           /\ lock = Free
    BY <1>1, <1>12
    DEF Judgement, listForJudgement, judgeEnvironment, failEnvironment, Write, EnvRow
  <2>2. "failed" \in NextStates("creating") /\ "failed" \in NextStates("running")
    BY DEF NextStates
  <2>. QED
    BY <1>2, <2>1, <2>2 DEF Legal
<1>13. ASSUME NEW u \in Task,
              \/ reconcilePause(u) \/ Collect(u) \/ observe(u)
              \/ PodGone(u) \/ RoundFails(u) \/ PodBreaks(u)
       PROVE  Goal
  BY <1>2, <1>13
  DEF reconcilePause, Collect, removeSecrets, removePod, observe, PodGone, RoundFails, PodBreaks
<1>14. CASE UNCHANGED vars
  BY <1>2, <1>14 DEF vars
<1>. QED
  BY <1>5, <1>6, <1>7, <1>8, <1>9, <1>10, <1>11, <1>12, <1>13, <1>14 DEF Next

(* A call is admitted by readPhase only, and only requests of plain tasks  *)
(* are releases.                                                           *)
LEMMA CallsStayOrdered ==
    ASSUME LockInv, [Next]_vars, NEW c \in Caller
    PROVE  /\ \/ call'[c] = call[c]
              \/ readPhase(c)
              \/ call'[c].pc \notin {"declare", "count"}
           /\ call'[c].op = "release" => call'[c].task \notin Protected
<1>. DEFINE Goal == /\ \/ call'[c] = call[c]
                       \/ readPhase(c)
                       \/ call'[c].pc \notin {"declare", "count"}
                    /\ call'[c].op = "release" => call'[c].task \notin Protected
<1>. SUFFICES Goal
  OBVIOUS
<1>1. /\ call \in [Caller -> CallState] /\ NoCall.pc = "idle" /\ NoCall.op = "none"
      /\ \A d \in Caller : call[d] \in CallState
      /\ call[c].op = "release" => call[c].task \notin Protected
  BY DEF LockInv, ReleasesArePlain, TypeInv, TypeOK, NoCall
<1>2. CASE call'[c] = call[c]
  BY <1>1, <1>2
<1>3. ASSUME NEW d \in Caller, Return(d) PROVE Goal
  BY <1>1, <1>3 DEF Return
<1>4. ASSUME NEW d \in Caller, NEW pc, Step(d, pc), readPhase(d) \/ pc \notin {"declare", "count"}
      PROVE  Goal
  <2>1. /\ [call[d] EXCEPT !.pc = pc].pc = pc
        /\ [call[d] EXCEPT !.pc = pc].task = call[d].task
        /\ [call[d] EXCEPT !.pc = pc].op = call[d].op
    BY <1>1 DEF CallState
  <2>2. CASE c = d
    BY <1>1, <1>4, <2>1, <2>2 DEF Step
  <2>3. CASE c # d
    BY <1>1, <1>4, <2>3 DEF Step
  <2>. QED
    BY <2>2, <2>3
<1>5. ASSUME NEW d \in Caller, NEW op, NEW pc, NEW t \in Task, Enter(d, op, pc, t),
             pc \notin {"declare", "count"}, op = "release" => t \notin Protected
      PROVE  Goal
  BY <1>1, <1>5 DEF Enter
<1>6. ASSUME NEW d \in Caller, pauseBusinessWorkspace(d) PROVE Goal
  <2>1. ASSUME NEW row, call' = [call EXCEPT ![d].pc = "delete", ![d].row = row]
        PROVE  Goal
    <3>1. ASSUME NEW one \in CallState
          PROVE  /\ [one EXCEPT !.pc = "delete", !.row = row].pc = "delete"
                 /\ [one EXCEPT !.pc = "delete", !.row = row].task = one.task
                 /\ [one EXCEPT !.pc = "delete", !.row = row].op = one.op
      BY DEF CallState
    <3>2. c = d => call'[c] = [call[d] EXCEPT !.pc = "delete", !.row = row]
      BY <1>1, <2>1
    <3>3. c # d => call'[c] = call[c]
      BY <1>1, <2>1
    <3>. QED
      BY <1>1, <1>2, <3>1, <3>2, <3>3
  <2>. QED
    BY <1>3, <1>6, <2>1 DEF pauseBusinessWorkspace
<1>7. ASSUME NEW d \in Caller, deletePod(d) PROVE Goal
  <2>1. Return(d) \/ \E pc \in {"look", "write"} : Step(d, pc)
    BY <1>7 DEF deletePod
  <2>2. ASSUME NEW pc \in {"look", "write"}, Step(d, pc) PROVE Goal
    BY <1>4, <2>2
  <2>. QED
    BY <1>3, <2>1, <2>2
<1>8. ASSUME NEW d \in Caller, podPhase(d) \/ waitForPausedPodRemoval(d) PROVE Goal
  <2>1. Return(d) \/ \E pc \in {"write", "admit"} : Step(d, pc)
    BY <1>8 DEF podPhase, waitForPausedPodRemoval
  <2>2. ASSUME NEW pc \in {"write", "admit"}, Step(d, pc) PROVE Goal
    BY <1>4, <2>2
  <2>. QED
    BY <1>3, <2>1, <2>2
<1>9. ASSUME NEW d \in Caller, readPhase(d) PROVE Goal
  <2>1. Return(d) \/ \E pc \in {"declare", "count"} : Step(d, pc)
    BY <1>9 DEF readPhase
  <2>2. ASSUME NEW pc \in {"declare", "count"}, Step(d, pc) PROVE Goal
    BY <1>4, <1>9, <2>2
  <2>. QED
    BY <1>3, <2>1, <2>2
<1>10. ASSUME NEW d \in Caller,
              \/ finishBusinessPause(d) \/ writePaused(d) \/ admitAndRestart(d)
              \/ writeReleased(d) \/ CallFails(d)
       PROVE  Goal
  BY <1>3, <1>10 DEF finishBusinessPause, writePaused, admitAndRestart, writeReleased, CallFails
<1>11. ASSUME NEW d \in Call, NEW t \in Task, Request(d, t) PROVE Goal
  BY <1>2, <1>5, <1>11
  DEF Request, pauseEnvironment, resumeEnvironment, releaseEnvironment, Caller
<1>12. ASSUME NEW t \in Task, reconcilePause(t) PROVE Goal
  BY <1>5, <1>12 DEF reconcilePause, Caller
<1>13. ASSUME NEW t \in Task,
              \/ admitEnvironment(t) \/ cleanupWorkspace(t) \/ RoundStep(t) \/ Collect(t)
              \/ observe(t) \/ PodGone(t) \/ onRunnerConnected(t) \/ Judgement(t)
              \/ RoundFails(t) \/ PodBreaks(t)
       PROVE  Goal
  BY <1>2, <1>13
  DEF admitEnvironment, cleanupWorkspace, RoundStep, applyWorkload, ensureRunnerSecret,
      runnerValues, ensurePod, bindWorkload, Collect, removeSecrets, removePod, observe,
      PodGone, onRunnerConnected, Judgement, listForJudgement, judgeEnvironment,
      failEnvironment, RoundFails, PodBreaks
<1>14. CASE UNCHANGED vars
  BY <1>2, <1>14 DEF vars
<1>. QED
  BY <1>6, <1>7, <1>8, <1>9, <1>10, <1>11, <1>12, <1>13, <1>14 DEF Next, CallStep

(* The lock goes to a call that is admitted, and is given up by its holder.*)
LEMMA LockMoves ==
    ASSUME LockInv, [Next]_vars
    PROVE  \/ lock' = lock
           \/ lock = Free
           \/ \E c \in Caller : lock = c /\ call'[c].pc = "idle"
<1>1. call \in [Caller -> CallState] /\ NoCall.pc = "idle"
  BY DEF LockInv, TypeInv, TypeOK, NoCall
<1>2. ASSUME NEW c \in Caller, readPhase(c) PROVE lock' = lock \/ lock = Free
  BY <1>2 DEF readPhase
<1>3. ASSUME NEW c \in Caller, admitAndRestart(c) \/ CallFails(c)
      PROVE  lock' = lock \/ (lock = c /\ call'[c].pc = "idle")
  BY <1>1, <1>3 DEF admitAndRestart, CallFails, Return
<1>4. ASSUME NEW c \in Caller, CallStep(c), ~ readPhase(c), ~ admitAndRestart(c)
      PROVE  lock' = lock
  BY <1>4
  DEF CallStep, pauseBusinessWorkspace, deletePod, podPhase, finishBusinessPause, writePaused,
      waitForPausedPodRemoval, writeReleased
<1>5. ASSUME NEW c \in Call, NEW t \in Task, Request(c, t) PROVE lock' = lock
  BY <1>5 DEF Request, pauseEnvironment, resumeEnvironment, releaseEnvironment
<1>6. ASSUME NEW t \in Task,
             \/ admitEnvironment(t) \/ reconcilePause(t) \/ cleanupWorkspace(t)
             \/ RoundStep(t) \/ Collect(t) \/ observe(t) \/ PodGone(t)
             \/ onRunnerConnected(t) \/ Judgement(t) \/ RoundFails(t) \/ PodBreaks(t)
      PROVE  lock' = lock
  BY <1>6
  DEF admitEnvironment, reconcilePause, cleanupWorkspace, RoundStep, applyWorkload,
      ensureRunnerSecret, runnerValues, ensurePod, bindWorkload, Collect, removeSecrets,
      removePod, observe, PodGone, onRunnerConnected, Judgement, listForJudgement,
      judgeEnvironment, failEnvironment, RoundFails, PodBreaks
<1>7. CASE UNCHANGED vars
  BY <1>7 DEF vars
<1>. QED
  BY <1>2, <1>3, <1>4, <1>5, <1>6, <1>7 DEF Next

LEMMA LockInvStep == ASSUME LockInv, [Next]_vars PROVE LockInv'
<1>1. TypeInv'
  BY NextTyped DEF LockInv
<1>2. ReleasesArePlain'
  BY CallsStayOrdered DEF ReleasesArePlain
<1>3. ASSUME NEW c \in Caller, call'[c].pc \in {"declare", "count"}, call'[c].task \in Protected
      PROVE  lock' = c /\ env'[call'[c].task].state = "paused"
  <2>1. CASE call'[c] = call[c]
    <3>. DEFINE t == call[c].task
    <3>1. lock = c /\ env[t].state = "paused"
      BY <1>3, <2>1 DEF LockInv, AdmittedHolds, Admitted
    <3>2. c # Free
      BY EnvironmentAssumption DEF Caller, Free, Loop
    <3>3. ~ \E d \in Caller : lock = d /\ call'[d].pc = "idle"
      BY <1>3, <3>1
    <3>4. lock' = lock
      BY <3>1, <3>2, <3>3, LockMoves
    <3>5. env'[t].state = env[t].state
      BY <1>3, <2>1, <3>1, <3>2, <3>3, ProtectedMoves
    <3>. QED
      BY <2>1, <3>1, <3>4, <3>5
  <2>2. CASE readPhase(c)
    <3>1. call[c] \in CallState /\ call \in [Caller -> CallState]
      BY DEF LockInv, TypeInv, TypeOK
    <3>2. call'[c].pc # "idle" /\ NoCall.pc = "idle"
      BY <1>3 DEF NoCall
    <3>3. call'[c].task = call[c].task /\ ~ Return(c)
      BY <2>2, <3>1, <3>2 DEF readPhase, Step, Return, CallState
    <3>. QED
      BY <1>3, <2>2, <3>3 DEF readPhase
  <2>. QED
    BY <1>3, <2>1, <2>2, CallsStayOrdered
<1>. QED
  BY <1>1, <1>2, <1>3 DEF LockInv, AdmittedHolds, Admitted

LEMMA LockInvInit == ASSUME Init PROVE LockInv
<1>1. AdmittedHolds /\ ReleasesArePlain
  BY DEF Init, NoCall, AdmittedHolds, Admitted, ReleasesArePlain
<1>. QED
  BY <1>1, InitTyped DEF LockInv

(* The row of a task with an isolated volume follows the table NEXT,       *)
(* however many use cases, rounds and judgements write it, and whatever    *)
(* plain tasks share the project, its quota and its lock.                  *)
ProtectedMovesOnTable ==
    [][\A t \in Protected : LET was == env[t].state
                                is == env'[t].state
                            IN  was \notin {"none", is} => is \in NextStates(was)]_vars

(* Each writer of a protected row has read it under the lock it holds.     *)
THEOREM ProtectedFollow == Spec => ProtectedMovesOnTable
<1>1. Init => LockInv
  BY LockInvInit
<1>2. LockInv /\ [Next]_vars => LockInv'
  BY LockInvStep
<1>3. LockInv /\ [Next]_vars
        => [\A t \in Protected : LET was == env[t].state
                                    is == env'[t].state
                                IN  was \notin {"none", is} => is \in NextStates(was)]_vars
  BY ProtectedMoves DEF Legal
<1>. QED
  BY <1>1, <1>2, <1>3, PTL DEF Spec, ProtectedMovesOnTable

(* Where every task has an isolated volume, so do all rows.                *)
THEOREM ProtectedFollowTable == ASSUME Task = Protected PROVE Spec => TransitionsAllowed
<1>1. [\A t \in Protected : LET was == env[t].state
                               is == env'[t].state
                           IN  was \notin {"none", is} => is \in NextStates(was)]_vars
        => [\A t \in Task : LET was == env[t].state
                              is == env'[t].state
                          IN  was \notin {"none", is} => is \in NextStates(was)]_vars
  OBVIOUS
<1>. QED
  BY <1>1, ProtectedFollow, PTL DEF ProtectedMovesOnTable, TransitionsAllowed

-----------------------------------------------------------------------------
(* As long as nothing fails, a protected task has one Pod at a time and    *)
(* its own: rounds build for a row that awaits its Pod and has none, the   *)
(* row is bound to what they built, and who is paused has no Pod at all.   *)
Building(t) == round[t].pc \in {"secret", "values", "pod"}
Awaiting(t) == env[t].state = "creating" /\ env[t].podUid = 0

Tidy(t) ==
    /\ Building(t) /\ env[t].state \in {"none", "creating", "running", "paused"}
         => Awaiting(t) /\ pod[t].uid = 0
    /\ round[t].pc = "idle" /\ Awaiting(t) => pod[t].uid = 0
    /\ round[t].pc = "bind"
         => round[t].uid # 0 /\ (Awaiting(t) => pod[t].uid \in {0, round[t].uid})
    /\ env[t].state \in {"creating", "running"} /\ env[t].podUid # 0
         => pod[t].uid \in {0, env[t].podUid}
    /\ env[t].state = "running" => env[t].podUid # 0
    /\ env[t].state \in {"none", "paused"} => pod[t].uid = 0
    /\ env[t].state = "none" => round[t].pc = "idle"
    /\ pod[t].uid = 0 => pod[t].token = 0

TidyInv == LockInv /\ PodInv /\ (faults = 0 => \A t \in Protected : Tidy(t))

(* A step that leaves the row's state, its binding and the round as they   *)
(* are, and builds no Pod.                                                 *)
Quiet(t) ==
    /\ env'[t].state = env[t].state /\ env'[t].podUid = env[t].podUid
    /\ round'[t] = round[t]
    /\ pod'[t].uid \in {0, pod[t].uid}
    /\ pod'[t].uid = 0 => pod'[t].token = 0

LEMMA QuietKeepsTidy == ASSUME NEW t, Tidy(t), Quiet(t) PROVE Tidy(t)'
  BY DEF Quiet, Tidy, Building, Awaiting

LEMMA PodsAreLeft ==
    ASSUME NEW t, Tidy(t), env'[t] = env[t], round'[t] = round[t], pod'[t] = pod[t] PROVE Quiet(t)
  BY DEF Quiet, Tidy

LEMMA EndingPods ==
    ASSUME PodInv, NEW t \in Protected, Tidy(t), NEW u \in Task,
           pod' = [pod EXCEPT ![u] = Terminating(@)] \/ pod' = [pod EXCEPT ![u] = NoPod],
           UNCHANGED <<env, round>>
    PROVE  Quiet(t)
<1>1. pod \in [Task -> PodState] /\ t \in Task
  BY EnvironmentAssumption DEF PodInv, TypeInv, TypeOK
<1>2. \A p \in PodState : Terminating(p).uid = p.uid /\ Terminating(p).token = p.token
  BY DEF Terminating, PodState
<1>3. NoPod.uid = 0 /\ NoPod.token = 0
  BY DEF NoPod
<1>. QED
  BY <1>1, <1>2, <1>3 DEF Quiet, Tidy

(* What a use case does to a protected task while nothing fails.           *)
LEMMA CallKeepsTidy ==
    ASSUME LockInv, PodInv, NEW t \in Protected, Tidy(t), NEW c \in Caller, CallStep(c)
    PROVE  Tidy(t)'
<1>. DEFINE u == call[c].task
<1>1. /\ t \in Task /\ env \in [Task -> EnvRow] /\ env[t] \in EnvRow
      /\ call[c] \in CallState
  BY EnvironmentAssumption DEF LockInv, TypeInv, TypeOK
<1>2. CASE pauseBusinessWorkspace(c)
  <2>1. u \in Task /\ env[u] \in EnvRow
    BY <1>2 DEF pauseBusinessWorkspace, LockInv, TypeInv, TypeOK, CallsHaveTask
  <2>2. LET w == [env[u] EXCEPT !.phase = "pausing", !.token = 0]
        IN  w.state = env[u].state /\ w.podUid = env[u].podUid
    BY <2>1 DEF EnvRow
  <2>3. \/ UNCHANGED env
        \/ Write(u, env[u])
        \/ Write(u, [env[u] EXCEPT !.phase = "pausing", !.token = 0])
    BY <1>2 DEF pauseBusinessWorkspace
  <2>4. env'[t].state = env[t].state /\ env'[t].podUid = env[t].podUid
    BY <1>1, <2>2, <2>3 DEF Write
  <2>. QED
    BY <1>2, <2>4, QuietKeepsTidy DEF pauseBusinessWorkspace, Quiet, Tidy
<1>3. CASE deletePod(c)
  <2>1. u \in Task
    BY <1>3 DEF deletePod, LockInv, TypeInv, CallsHaveTask
  <2>2. CASE UNCHANGED pod
    BY <1>3, <2>2, PodsAreLeft, QuietKeepsTidy DEF deletePod
  <2>3. CASE pod' = [pod EXCEPT ![u] = Terminating(@)]
    BY <1>3, <2>1, <2>3, EndingPods, QuietKeepsTidy DEF deletePod
  <2>. QED
    BY <1>3, <2>2, <2>3 DEF deletePod
<1>4. CASE podPhase(c) \/ waitForPausedPodRemoval(c) \/ readPhase(c)
  BY <1>4, PodsAreLeft, QuietKeepsTidy DEF podPhase, waitForPausedPodRemoval, readPhase
<1>5. CASE finishBusinessPause(c)
  <2>1. u \in Protected /\ call[c].pc = "write"
    BY <1>5 DEF finishBusinessPause
  <2>2. CASE UNCHANGED env \/ u # t
    BY <1>1, <1>5, <2>2, PodsAreLeft, QuietKeepsTidy DEF finishBusinessPause, Write
  <2>3. CASE u = t /\ ~ UNCHANGED env
    <3>1. /\ env[t].state = "running" /\ env[t].podUid = call[c].row.podUid
          /\ env' = [env EXCEPT ![t] = [env[t] EXCEPT !.state = "paused", !.phase = "paused"]]
          /\ UNCHANGED <<pod, round>>
      BY <1>5, <2>3 DEF finishBusinessPause, Write
    <3>2. env'[t].state = "paused"
      BY <1>1, <3>1 DEF EnvRow
    <3>3. pod[t].uid = 0
      BY <2>1, <2>3, <3>1 DEF Tidy, PodInv, WriterSawItGo
    <3>. QED
      BY <3>1, <3>2, <3>3 DEF Tidy, Building, Awaiting
  <2>. QED
    BY <2>2, <2>3
<1>6. CASE writePaused(c) \/ writeReleased(c)
  <2>1. u \notin Protected
    BY <1>6 DEF writePaused, writeReleased, LockInv, ReleasesArePlain
  <2>2. env'[t] = env[t]
    BY <1>1, <1>6, <2>1 DEF writePaused, writeReleased, Write
  <2>. QED
    BY <1>6, <2>2, PodsAreLeft, QuietKeepsTidy DEF writePaused, writeReleased
<1>7. CASE admitAndRestart(c)
  <2>1. CASE UNCHANGED env \/ u # t
    BY <1>1, <1>7, <2>1, PodsAreLeft, QuietKeepsTidy DEF admitAndRestart, Write
  <2>2. CASE u = t /\ ~ UNCHANGED env
    <3>1. env[t].state = "paused"
      BY <1>7, <2>2 DEF admitAndRestart, LockInv, AdmittedHolds, Admitted
    <3>2. RestartRow(c) \in EnvRow
      <4>1. [env[t] EXCEPT !.phase = "resuming"] \in EnvRow
        BY <1>1 DEF EnvRow
      <4>. QED
        BY <2>2, <4>1 DEF RestartRow
    <3>3. env'[t].state = "creating" /\ env'[t].podUid = 0
      BY <1>1, <1>7, <2>2, <3>2 DEF admitAndRestart, Write, EnvRow
    <3>. QED
      BY <1>7, <3>1, <3>3 DEF admitAndRestart, Tidy, Building, Awaiting
  <2>. QED
    BY <2>1, <2>2
<1>. QED
  BY <1>2, <1>3, <1>4, <1>5, <1>6, <1>7 DEF CallStep

(* What the reconciler's round does to it.                                 *)
LEMMA RoundKeepsTidy ==
    ASSUME LockInv, PodInv, NEW t \in Protected, Tidy(t), NEW u \in Task, RoundStep(u)
    PROVE  Tidy(t)'
<1>1. /\ t \in Task /\ env \in [Task -> EnvRow] /\ env[t] \in EnvRow
      /\ round \in [Task -> RoundState] /\ round[t] \in RoundState
      /\ pod \in [Task -> PodState] /\ uids \in [Task -> Uid]
      /\ NoRound.pc = "idle" /\ NoRound \in RoundState
  BY EnvironmentAssumption, NothingIsTyped DEF LockInv, TypeInv, TypeOK, NoRound
<1>2. CASE u # t
  <2>1. env'[t] = env[t] /\ round'[t] = round[t] /\ pod'[t] = pod[t]
    BY <1>1, <1>2
    DEF RoundStep, applyWorkload, ensureRunnerSecret, runnerValues, ensurePod, bindWorkload, Write
  <2>. QED
    BY <2>1, PodsAreLeft, QuietKeepsTidy
<1>3. CASE applyWorkload(t)
  <2>1. Awaiting(t) /\ round[t].pc = "idle" /\ UNCHANGED <<env, pod>>
    BY <1>1, <1>3 DEF applyWorkload, wantsProvisioning, Awaiting
  <2>2. round'[t].pc = "secret"
    BY <1>1, <1>3 DEF applyWorkload, RoundState
  <2>. QED
    BY <2>1, <2>2 DEF Tidy, Building, Awaiting
<1>4. CASE ensureRunnerSecret(t) \/ runnerValues(t)
  <2>1. Building(t) /\ UNCHANGED pod
    BY <1>4 DEF ensureRunnerSecret, runnerValues, Building
  <2>2. env'[t].state = env[t].state /\ env'[t].podUid = env[t].podUid
    BY <1>1, <1>4 DEF ensureRunnerSecret, runnerValues, Write, EnvRow
  <2>3. round'[t].pc \in {"idle", "secret", "values", "pod"}
    BY <1>1, <1>4 DEF ensureRunnerSecret, runnerValues, RoundState
  <2>. QED
    BY <2>1, <2>2, <2>3 DEF Tidy, Building, Awaiting
<1>5. CASE ensurePod(t)
  <2>1. Building(t) /\ UNCHANGED env
    BY <1>5 DEF ensurePod, Building
  <2>2. pod'[t].uid # 0
    BY <1>1, <1>5, EnvironmentAssumption DEF ensurePod, Uid
  <2>3. round'[t].pc = "bind" /\ round'[t].uid = pod'[t].uid
    BY <1>1, <1>5 DEF ensurePod, RoundState
  <2>. QED
    BY <2>1, <2>2, <2>3 DEF Tidy, Building, Awaiting
<1>6. CASE bindWorkload(t)
  <2>1. round[t].pc = "bind" /\ UNCHANGED pod
    BY <1>6 DEF bindWorkload
  <2>2. round'[t].pc = "idle"
    BY <1>1, <1>6 DEF bindWorkload
  <2>3. /\ env'[t].state = env[t].state
        /\ env'[t].podUid = IF Awaiting(t) THEN round[t].uid ELSE env[t].podUid
    BY <1>1, <1>6 DEF bindWorkload, wantsProvisioning, Awaiting, Write, EnvRow
  <2>. QED
    BY <2>1, <2>2, <2>3 DEF Tidy, Building, Awaiting
<1>. QED
  BY <1>2, <1>3, <1>4, <1>5, <1>6 DEF RoundStep

LEMMA TidyStep ==
    ASSUME LockInv, PodInv, [Next]_vars, NEW t \in Protected, Tidy(t), faults' = 0
    PROVE  Tidy(t)'
<1>1. /\ t \in Task /\ env \in [Task -> EnvRow] /\ env[t] \in EnvRow
      /\ pod \in [Task -> PodState] /\ pod[t] \in PodState /\ faults \in Nat
  BY EnvironmentAssumption DEF LockInv, TypeInv, TypeOK
<1>2. ASSUME NEW c \in Caller, CallStep(c) PROVE Tidy(t)'
  BY <1>2, CallKeepsTidy
<1>3. ASSUME NEW c \in Call, NEW u \in Task, Request(c, u) PROVE Tidy(t)'
  <2>1. CASE pauseEnvironment(c, u) \/ resumeEnvironment(c, u)
    BY <2>1, PodsAreLeft, QuietKeepsTidy DEF pauseEnvironment, resumeEnvironment
  <2>2. CASE releaseEnvironment(c, u)
    <3>1. UNCHANGED <<pod, round>>
      BY <2>2 DEF releaseEnvironment
    <3>2. CASE u # t
      BY <1>1, <2>2, <3>1, <3>2, PodsAreLeft, QuietKeepsTidy DEF releaseEnvironment, Write
    <3>3. CASE u = t
      <4>. DEFINE p == IF env[t].phase = "none" THEN env[t].phase ELSE "ready"
                  o == IF occupiesQuota(env[t].state) THEN "occupied" ELSE "vacant"
                  r == env[t]
      <4>1. env'[t] = [r EXCEPT !.state = "releasing", !.phase = p, !.release = o]
            \/ env'[t] = [r EXCEPT !.state = "releasing"]
        BY <1>1, <2>2, <3>3 DEF releaseEnvironment, Write, EnvRow
      <4>. HIDE DEF p, o, r
      <4>2. r \in EnvRow
        BY <1>1 DEF r
      <4>3. env'[t].state = "releasing"
        BY <4>1, <4>2 DEF EnvRow
      <4>. QED
        BY <3>1, <4>3 DEF Tidy, Building, Awaiting
    <3>. QED
      BY <3>2, <3>3
  <2>. QED
    BY <1>3, <2>1, <2>2 DEF Request
<1>4. ASSUME NEW u \in Task, admitEnvironment(u) PROVE Tidy(t)'
  <2>1. UNCHANGED <<pod, round>>
    BY <1>4 DEF admitEnvironment
  <2>2. CASE u # t
    BY <1>1, <1>4, <2>1, <2>2, PodsAreLeft, QuietKeepsTidy DEF admitEnvironment, Write
  <2>3. CASE u = t
    <3>1. env[t].state = "none" /\ env'[t].state = "creating" /\ env'[t].podUid = 0
      BY <1>1, <1>4, <2>3 DEF admitEnvironment, Write, NoEnv
    <3>. QED
      BY <2>1, <3>1 DEF Tidy, Building, Awaiting
  <2>. QED
    BY <2>2, <2>3
<1>5. ASSUME NEW u \in Task, cleanupWorkspace(u) PROVE Tidy(t)'
  <2>1. CASE UNCHANGED env /\ pod' = [pod EXCEPT ![u] = Terminating(@)]
    BY <1>5, <2>1, EndingPods, QuietKeepsTidy DEF cleanupWorkspace
  <2>2. CASE UNCHANGED pod /\ Write(u, [env[u] EXCEPT !.state = "released", !.release = "none"])
    <3>1. env'[t] = env[t] \/ env'[t].state = "released"
      BY <1>1, <2>2 DEF Write, EnvRow
    <3>2. CASE env'[t] = env[t]
      BY <1>5, <2>2, <3>2, PodsAreLeft, QuietKeepsTidy DEF cleanupWorkspace
    <3>. QED
      BY <1>5, <2>2, <3>1, <3>2 DEF cleanupWorkspace, Tidy, Building, Awaiting
  <2>. QED
    BY <1>5, <2>1, <2>2 DEF cleanupWorkspace
<1>6. ASSUME NEW u \in Task, RoundStep(u) PROVE Tidy(t)'
  BY <1>6, RoundKeepsTidy
<1>7. ASSUME NEW u \in Task, onRunnerConnected(u) PROVE Tidy(t)'
  <2>1. UNCHANGED <<pod, round>>
    BY <1>7 DEF onRunnerConnected
  <2>2. CASE u # t
    BY <1>1, <1>7, <2>1, <2>2, PodsAreLeft, QuietKeepsTidy DEF onRunnerConnected, Write
  <2>3. CASE u = t
    <3>1. env[t].state = "creating" /\ pod[t].token # 0
      BY <1>7, <2>3 DEF onRunnerConnected
    <3>2. /\ env'[t].state = "running"
          /\ env'[t].podUid = IF env[t].podUid = 0 THEN pod[t].uid ELSE env[t].podUid
      BY <1>1, <1>7, <2>3 DEF onRunnerConnected, Write, EnvRow
    <3>. QED
      BY <2>1, <3>1, <3>2 DEF Tidy, Building, Awaiting
  <2>. QED
    BY <2>2, <2>3
<1>8. ASSUME NEW u \in Task, Judgement(u) PROVE Tidy(t)'
  <2>1. UNCHANGED <<pod, round>>
    BY <1>8 DEF Judgement, listForJudgement, judgeEnvironment, failEnvironment
  <2>2. env'[t] = env[t] \/ env'[t].state = "failed"
    BY <1>1, <1>8
    DEF Judgement, listForJudgement, judgeEnvironment, failEnvironment, Write, EnvRow
  <2>3. CASE env'[t] = env[t]
    BY <2>1, <2>3, PodsAreLeft, QuietKeepsTidy
  <2>. QED
    BY <2>1, <2>2, <2>3 DEF Tidy, Building, Awaiting
<1>9. ASSUME NEW u \in Task, reconcilePause(u) \/ removeSecrets(u) \/ observe(u) PROVE Tidy(t)'
  BY <1>9, PodsAreLeft, QuietKeepsTidy DEF reconcilePause, removeSecrets, observe
<1>10. ASSUME NEW u \in Task, removePod(u) \/ PodGone(u) PROVE Tidy(t)'
  BY <1>10, EndingPods, QuietKeepsTidy DEF removePod, PodGone
<1>11. ASSUME NEW c \in Caller, CallFails(c) PROVE FALSE
  BY <1>1, <1>11 DEF CallFails
<1>12. ASSUME NEW u \in Task, RoundFails(u) \/ PodBreaks(u) PROVE FALSE
  BY <1>1, <1>12 DEF RoundFails, PodBreaks
<1>13. CASE UNCHANGED vars
  BY <1>13, PodsAreLeft, QuietKeepsTidy DEF vars
<1>. QED
  BY <1>2, <1>3, <1>4, <1>5, <1>6, <1>7, <1>8, <1>9, <1>10, <1>11, <1>12, <1>13 DEF Next, Collect

(* What has failed stays on record.                                        *)
LEMMA FaultsStay == ASSUME TypeInv, [Next]_vars, faults' = 0 PROVE faults = 0
<1>1. faults \in Nat
  BY EnvironmentAssumption DEF TypeInv, TypeOK
<1>2. ASSUME NEW c \in Caller, CallStep(c) PROVE faults' = faults
  BY <1>2
  DEF CallStep, pauseBusinessWorkspace, deletePod, podPhase, finishBusinessPause, writePaused,
      waitForPausedPodRemoval, readPhase, admitAndRestart, writeReleased
<1>3. ASSUME NEW c \in Call, NEW u \in Task, Request(c, u) PROVE faults' = faults
  BY <1>3 DEF Request, pauseEnvironment, resumeEnvironment, releaseEnvironment
<1>4. ASSUME NEW u \in Task,
             \/ admitEnvironment(u) \/ reconcilePause(u) \/ cleanupWorkspace(u)
             \/ RoundStep(u) \/ Collect(u) \/ observe(u) \/ PodGone(u)
             \/ onRunnerConnected(u)
      PROVE  faults' = faults
  BY <1>4
  DEF admitEnvironment, reconcilePause, cleanupWorkspace, RoundStep, applyWorkload,
      ensureRunnerSecret, runnerValues, ensurePod, bindWorkload, Collect, removeSecrets,
      removePod, observe, PodGone, onRunnerConnected
<1>5. ASSUME NEW u \in Task, Judgement(u) PROVE faults' \in {faults, faults + 1}
  BY <1>5 DEF Judgement, listForJudgement, judgeEnvironment, failEnvironment
<1>6. ASSUME NEW u \in Task, RoundFails(u) \/ PodBreaks(u) PROVE faults' = faults + 1
  BY <1>6 DEF RoundFails, PodBreaks
<1>7. ASSUME NEW c \in Caller, CallFails(c) PROVE faults' = faults + 1
  BY <1>7 DEF CallFails
<1>8. CASE UNCHANGED vars
  BY <1>8 DEF vars
<1>. QED
  BY <1>1, <1>2, <1>3, <1>4, <1>5, <1>6, <1>7, <1>8 DEF Next

LEMMA TidyInvInit == ASSUME Init PROVE TidyInv
<1>1. ASSUME NEW t \in Protected PROVE Tidy(t)
  BY EnvironmentAssumption DEF Init, Tidy, Building, Awaiting, NoEnv, NoPod, NoRound
<1>. QED
  BY <1>1, LockInvInit, PodInvInit DEF TidyInv

LEMMA TidyInvStep == ASSUME TidyInv, [Next]_vars PROVE TidyInv'
<1>1. LockInv' /\ PodInv'
  BY LockInvStep, PodInvStep DEF TidyInv
<1>2. ASSUME faults' = 0, NEW t \in Protected PROVE Tidy(t)'
  <2>1. faults = 0
    BY <1>2, FaultsStay DEF TidyInv, PodInv
  <2>. QED
    BY <1>2, <2>1, TidyStep DEF TidyInv
<1>. QED
  BY <1>1, <1>2 DEF TidyInv

(* While nothing has failed, a running protected task finds no foreign Pod *)
(* under its name, and a paused one no Pod at all: a pause that cannot end *)
(* because its DELETE is refused (the exception of PauseEnds) is always    *)
(* the late consequence of a fault.                                        *)
PodsAreOwn ==
    faults = 0 =>
        \A t \in Protected :
            /\ env[t].state = "running" => ~ ForeignPod(t)
            /\ env[t].state = "paused" => pod[t].uid = 0

(* Rounds build for rows that await a Pod and have none, and a pause waits *)
(* until the Pod it asked to delete is gone.                               *)
THEOREM OnlyFaultsLeaveForeignPods == Spec => []PodsAreOwn
<1>1. TidyInv => PodsAreOwn
  BY DEF TidyInv, Tidy, PodsAreOwn, ForeignPod
<1>. QED
  BY TidyInvInit, TidyInvStep, <1>1, PTL DEF Spec

-----------------------------------------------------------------------------
(* Quota.  A place is taken by a record that is wanted and counted, and    *)
(* kept for a resume that found its record counted and is about to declare *)
(* it, although the watch may report its Pod gone before it does.          *)
Declaring(t) == \E c \in Caller : call[c].pc = "declare" /\ call[c].task = t
Reserved(t) == desired[t] = "present" /\ (Counted(t) \/ Declaring(t))
Places == {t \in Task : Reserved(t)}

QuotaInv == TidyInv /\ (faults = 0 => Cardinality(Places) <= Limit)

LEMMA CountedWhileWanted ==
    ASSUME NEW t, desired[t] = "present"
    PROVE  Counted(t) <=> /\ env[t].state # "failed"
                          /\ env[t].state = "paused" => Present(t)
  BY DEF Counted, computePhase

(* Places are given in two ways only: a task is admitted, or a resume that *)
(* did not count is admitted again, each below the limit.                  *)
TakesPlace(t) ==
    \/ admitEnvironment(t)
    \/ \E c \in Caller : /\ admitAndRestart(c) /\ Admissible(c)
                         /\ call[c].pc = "count" /\ call[c].task = t

(* A wanted record neither fails nor pauses and then lives again, but by a *)
(* resume.                                                                 *)
LEMMA WantedRows ==
    ASSUME LockInv, [Next]_vars, NEW t \in Protected, desired'[t] = "present", ~ TakesPlace(t)
    PROVE  /\ desired[t] = "present"
           /\ \/ env'[t].state = env[t].state
              \/ env[t].state \notin {"failed", "paused"}
              \/ Declaring(t)
<1>. DEFINE Goal == /\ desired[t] = "present"
                    /\ \/ env'[t].state = env[t].state
                       \/ env[t].state \notin {"failed", "paused"}
                       \/ Declaring(t)
<1>. SUFFICES Goal
  OBVIOUS
<1>1. /\ t \in Task /\ env \in [Task -> EnvRow] /\ env[t] \in EnvRow
      /\ desired \in [Task -> {"none", "present", "absent"}]
  BY EnvironmentAssumption DEF LockInv, TypeInv, TypeOK
<1>2. ASSUME env'[t].state = env[t].state, desired' = desired PROVE Goal
  BY <1>2
<1>3. ASSUME NEW u \in Task, NEW row, Write(u, row), env[u].state \notin {"failed", "paused"},
             desired' = desired
      PROVE  Goal
  BY <1>1, <1>3 DEF Write
<1>4. ASSUME NEW c \in Caller, CallStep(c) PROVE Goal
  <2>. DEFINE u == call[c].task
  <2>1. CASE pauseBusinessWorkspace(c)
    <3>1. u \in Task /\ env[u] \in EnvRow
      BY <2>1 DEF pauseBusinessWorkspace, LockInv, TypeInv, TypeOK, CallsHaveTask
    <3>2. [env[u] EXCEPT !.phase = "pausing", !.token = 0].state = env[u].state
      BY <3>1 DEF EnvRow
    <3>3. \/ UNCHANGED env
          \/ Write(u, env[u])
          \/ Write(u, [env[u] EXCEPT !.phase = "pausing", !.token = 0])
      BY <2>1 DEF pauseBusinessWorkspace
    <3>4. env'[t].state = env[t].state
      BY <1>1, <3>2, <3>3 DEF Write
    <3>. QED
      BY <1>2, <2>1, <3>4 DEF pauseBusinessWorkspace
  <2>2. CASE deletePod(c) \/ podPhase(c) \/ waitForPausedPodRemoval(c) \/ readPhase(c)
    BY <1>2, <2>2 DEF deletePod, podPhase, waitForPausedPodRemoval, readPhase
  <2>3. CASE finishBusinessPause(c)
    <3>1. u \in Task /\ desired' = desired
      BY <2>3, EnvironmentAssumption DEF finishBusinessPause
    <3>2. \/ UNCHANGED env
          \/ /\ env[u].state = "running"
             /\ Write(u, [env[u] EXCEPT !.state = "paused", !.phase = "paused"])
      BY <2>3 DEF finishBusinessPause
    <3>. QED
      BY <1>2, <1>3, <3>1, <3>2
  <2>4. CASE writePaused(c) \/ writeReleased(c)
    <3>1. u \notin Protected
      BY <2>4 DEF writePaused, writeReleased, LockInv, ReleasesArePlain
    <3>2. env'[t] = env[t]
      BY <1>1, <2>4, <3>1 DEF writePaused, writeReleased, Write
    <3>. QED
      BY <1>2, <2>4, <3>2 DEF writePaused, writeReleased
  <2>5. CASE admitAndRestart(c)
    <3>1. CASE u # t \/ UNCHANGED env
      <4>1. env'[t] = env[t]
        BY <1>1, <2>5, <3>1 DEF admitAndRestart, Write
      <4>. QED
        BY <1>2, <2>5, <4>1 DEF admitAndRestart
    <3>2. CASE u = t /\ ~ UNCHANGED env
      <4>1. call[c].pc = "declare"
        BY <2>5, <3>2 DEF admitAndRestart, TakesPlace
      <4>2. Declaring(t) /\ desired' = desired
        BY <2>5, <3>2, <4>1 DEF admitAndRestart, Declaring
      <4>. QED
        BY <4>2
    <3>. QED
      BY <3>1, <3>2
  <2>. QED
    BY <1>4, <2>1, <2>2, <2>3, <2>4, <2>5 DEF CallStep
<1>5. ASSUME NEW c \in Call, NEW u \in Task, Request(c, u) PROVE Goal
  <2>1. CASE pauseEnvironment(c, u) \/ resumeEnvironment(c, u)
    BY <1>2, <2>1 DEF pauseEnvironment, resumeEnvironment
  <2>2. CASE releaseEnvironment(c, u)
    <3>1. u # t
      BY <1>1, <2>2 DEF releaseEnvironment
    <3>2. env'[t] = env[t] /\ desired'[t] = desired[t]
      BY <1>1, <2>2, <3>1 DEF releaseEnvironment, Write
    <3>. QED
      BY <3>2
  <2>. QED
    BY <1>5, <2>1, <2>2 DEF Request
<1>6. ASSUME NEW u \in Task, admitEnvironment(u) PROVE Goal
  <2>1. u # t
    BY <1>6 DEF TakesPlace
  <2>2. env'[t] = env[t] /\ desired'[t] = desired[t]
    BY <1>1, <1>6, <2>1 DEF admitEnvironment, Write
  <2>. QED
    BY <2>2
<1>7. ASSUME NEW u \in Task, cleanupWorkspace(u) PROVE Goal
  <2>1. UNCHANGED env \/ Write(u, [env[u] EXCEPT !.state = "released", !.release = "none"])
    BY <1>7 DEF cleanupWorkspace
  <2>2. env[u].state \notin {"failed", "paused"} /\ desired' = desired
    BY <1>7 DEF cleanupWorkspace
  <2>. QED
    BY <1>2, <1>3, <2>1, <2>2
<1>8. ASSUME NEW u \in Task, onRunnerConnected(u) PROVE Goal
  BY <1>3, <1>8 DEF onRunnerConnected
<1>9. ASSUME NEW u \in Task, Judgement(u) PROVE Goal
  BY <1>2, <1>3, <1>9 DEF Judgement, listForJudgement, judgeEnvironment, failEnvironment
<1>10. ASSUME NEW u \in Task, RoundStep(u) PROVE Goal
  <2>1. env'[t].state = env[t].state /\ desired' = desired
    BY <1>1, <1>10
    DEF RoundStep, applyWorkload, ensureRunnerSecret, runnerValues, ensurePod, bindWorkload,
        Write, EnvRow
  <2>. QED
    BY <1>2, <2>1
<1>11. ASSUME NEW u \in Task,
              \/ reconcilePause(u) \/ Collect(u) \/ observe(u)
              \/ PodGone(u) \/ RoundFails(u) \/ PodBreaks(u)
       PROVE  Goal
  BY <1>2, <1>11
  DEF reconcilePause, Collect, removeSecrets, removePod, observe, PodGone, RoundFails, PodBreaks
<1>12. ASSUME NEW c \in Caller, CallFails(c) PROVE Goal
  BY <1>2, <1>12 DEF CallFails
<1>13. CASE UNCHANGED vars
  BY <1>2, <1>13 DEF vars
<1>. QED
  BY <1>4, <1>5, <1>6, <1>7, <1>8, <1>9, <1>10, <1>11, <1>12, <1>13 DEF Next

(* A paused task has no Pod to be observed and is issued no token, so what *)
(* the ledger does not see of it stays unseen.                             *)
LEMMA PausedStaysAbsent ==
    ASSUME TypeInv, [Next]_vars, NEW t \in Task, pod[t].uid = 0, env[t].state = "paused",
           Present(t)'
    PROVE  Present(t)
<1>1. /\ seen \in [Task -> Uid] /\ secret \in [Task -> [1..MaxStart -> Start]]
      /\ \A u \in Task : seen[u] \in Uid
  BY DEF TypeInv, TypeOK
<1>2. CASE UNCHANGED <<seen, secret>>
  BY <1>2 DEF Present
<1>3. ASSUME NEW u \in Task, observe(u) PROVE Present(t)
  <2>1. seen'[t] = seen[t] \/ seen'[t] = 0
    BY <1>1, <1>3 DEF observe
  <2>2. secret' = secret
    BY <1>3 DEF observe
  <2>. QED
    BY <2>1, <2>2 DEF Present
<1>4. ASSUME NEW u \in Task, removeSecrets(u) PROVE Present(t)
  <2>1. seen' = seen /\ secret' = [secret EXCEPT ![u] = [s \in 1..MaxStart |-> 0]]
    BY <1>4 DEF removeSecrets
  <2>2. \A s \in 1..MaxStart : secret'[t][s] # 0 => secret[t][s] # 0
    BY <1>1, <2>1
  <2>. QED
    BY <2>1, <2>2 DEF Present
<1>5. ASSUME NEW u \in Task, runnerValues(u) PROVE Present(t)
  <2>1. CASE u # t
    <3>1. secret'[t] = secret[t] /\ seen' = seen
      BY <1>1, <1>5, <2>1 DEF runnerValues
    <3>. QED
      BY <3>1 DEF Present
  <2>2. CASE u = t
    BY <1>2, <1>5, <2>2 DEF runnerValues, wantsProvisioning
  <2>. QED
    BY <2>1, <2>2
<1>6. ASSUME NEW c \in Caller, CallStep(c) \/ CallFails(c) PROVE UNCHANGED <<seen, secret>>
  BY <1>6
  DEF CallStep, pauseBusinessWorkspace, deletePod, podPhase, finishBusinessPause, writePaused,
      waitForPausedPodRemoval, readPhase, admitAndRestart, writeReleased, CallFails
<1>7. ASSUME NEW c \in Call, NEW u \in Task, Request(c, u) PROVE UNCHANGED <<seen, secret>>
  BY <1>7 DEF Request, pauseEnvironment, resumeEnvironment, releaseEnvironment
<1>8. ASSUME NEW u \in Task,
             \/ admitEnvironment(u) \/ reconcilePause(u) \/ cleanupWorkspace(u)
             \/ (RoundStep(u) /\ ~ runnerValues(u)) \/ removePod(u) \/ PodGone(u)
             \/ onRunnerConnected(u) \/ Judgement(u) \/ RoundFails(u) \/ PodBreaks(u)
      PROVE  UNCHANGED <<seen, secret>>
  BY <1>8
  DEF admitEnvironment, reconcilePause, cleanupWorkspace, RoundStep, applyWorkload,
      ensureRunnerSecret, ensurePod, bindWorkload, removePod, PodGone,
      onRunnerConnected, Judgement, listForJudgement, judgeEnvironment, failEnvironment,
      RoundFails, PodBreaks
<1>9. CASE UNCHANGED vars
  BY <1>2, <1>9 DEF vars
<1>. QED
  BY <1>2, <1>3, <1>4, <1>5, <1>6, <1>7, <1>8, <1>9 DEF Next, Collect

(* A task that takes no place holds one after the step only if it did.     *)
LEMMA PlacesAreKept ==
    ASSUME LockInv, [Next]_vars, NEW t \in Protected, Tidy(t), Reserved(t)', ~ TakesPlace(t)
    PROVE  Reserved(t)
<1>1. /\ desired'[t] = "present" /\ desired[t] = "present"
      /\ \/ env'[t].state = env[t].state
         \/ env[t].state \notin {"failed", "paused"}
         \/ Declaring(t)
  BY WantedRows DEF Reserved
<1>2. CASE Declaring(t)
  BY <1>1, <1>2 DEF Reserved
<1>3. CASE Declaring(t)' /\ ~ Declaring(t)
  <2>1. PICK c \in Caller : call'[c].pc = "declare" /\ call'[c].task = t
    BY <1>3 DEF Declaring
  <2>2. readPhase(c)
    BY <1>3, <2>1, CallsStayOrdered DEF Declaring
  <2>3. /\ call \in [Caller -> CallState] /\ call[c] \in CallState /\ NoCall.pc = "idle"
    BY DEF LockInv, TypeInv, TypeOK, NoCall
  <2>4. \/ Return(c)
        \/ Step(c, IF Counted(call[c].task) THEN "declare" ELSE "count")
    BY <2>2 DEF readPhase
  <2>5. Counted(call[c].task) /\ call[c].task = t
    BY <2>1, <2>3, <2>4 DEF Return, Step, CallState
  <2>. QED
    BY <1>1, <2>5 DEF Reserved
<1>4. CASE Counted(t)' /\ ~ Declaring(t)
  <2>1. env'[t].state # "failed" /\ (env'[t].state = "paused" => Present(t)')
    BY <1>1, <1>4 DEF Counted, computePhase
  <2>2. CASE env[t].state \notin {"failed", "paused"}
    BY <1>1, <2>2, CountedWhileWanted DEF Reserved
  <2>3. CASE env'[t].state = env[t].state /\ env[t].state = "paused"
    <3>1. Present(t)
      BY <2>1, <2>3, EnvironmentAssumption, PausedStaysAbsent DEF Tidy, LockInv
    <3>. QED
      BY <1>1, <2>3, <3>1, CountedWhileWanted DEF Reserved
  <2>. QED
    BY <1>1, <1>4, <2>1, <2>2, <2>3
<1>. QED
  BY <1>2, <1>3, <1>4 DEF Reserved

LEMMA OneMorePlace ==
    ASSUME IsFiniteSet(Task), NEW S \in SUBSET Task, NEW C \in SUBSET Task, NEW t \in Task,
           NEW N \in SUBSET Task, S \subseteq C, N \subseteq S \cup {t},
           Cardinality(C) < Limit
    PROVE  Cardinality(N) <= Limit
<1>1. IsFiniteSet(S) /\ IsFiniteSet(C) /\ IsFiniteSet(N)
  BY FS_Subset
<1>2. Cardinality(S) <= Cardinality(C)
  BY <1>1, FS_Subset
<1>3. IsFiniteSet(S \cup {t}) /\ Cardinality(S \cup {t}) <= Cardinality(S) + 1
  <2>1. Cardinality(S) \in Nat
    BY <1>1, FS_CardinalityType
  <2>2. /\ IsFiniteSet(S \cup {t})
        /\ Cardinality(S \cup {t}) = IF t \in S THEN Cardinality(S) ELSE Cardinality(S) + 1
    BY <1>1, FS_AddElement
  <2>. QED
    BY <2>1, <2>2
<1>4. Cardinality(N) <= Cardinality(S \cup {t})
  BY <1>3, FS_Subset
<1>5. /\ Cardinality(S) \in Nat /\ Cardinality(C) \in Nat /\ Cardinality(N) \in Nat
      /\ Cardinality(S \cup {t}) \in Nat
  BY <1>1, <1>3, FS_CardinalityType
<1>. QED
  BY <1>2, <1>3, <1>4, <1>5, EnvironmentAssumption

LEMMA QuotaStep ==
    ASSUME Task = Protected, IsFiniteSet(Task), QuotaInv, [Next]_vars, faults' = 0
    PROVE  Cardinality(Places') <= Limit
<1>1. /\ LockInv /\ PodInv /\ TypeInv /\ Cardinality(Places) <= Limit
      /\ \A t \in Task : Tidy(t)
  BY FaultsStay DEF QuotaInv, TidyInv, LockInv
<1>2. ASSUME NEW t \in Task, t \notin Places, ~ TakesPlace(t) PROVE t \notin Places'
  BY <1>1, <1>2, PlacesAreKept DEF Places
<1>3. Places \subseteq Task /\ Places' \subseteq Task
  BY DEF Places
<1>4. ASSUME \A c \in Caller : call[c].pc # "declare"
      PROVE  Places \subseteq {t \in Task : Counted(t)}
  BY <1>4 DEF Places, Reserved, Declaring
<1>5. /\ env \in [Task -> EnvRow] /\ call \in [Caller -> CallState]
      /\ desired \in [Task -> {"none", "present", "absent"}] /\ NoCall.pc = "idle"
  BY <1>1 DEF TypeInv, TypeOK, NoCall
<1>6. ASSUME NEW t \in Task, admitEnvironment(t) PROVE Cardinality(Places') <= Limit
  <2>1. \A c \in Caller : call[c].pc # "declare"
    <3>1. lock = Free
      BY <1>6 DEF admitEnvironment
    <3>2. Free \notin Caller
      BY EnvironmentAssumption DEF Caller, Free, Loop
    <3>. QED
      BY <1>1, <3>1, <3>2 DEF LockInv, TypeInv, CallsHaveTask, AdmittedHolds, Admitted
  <2>2. Occupancy < Limit
    BY <1>6 DEF admitEnvironment
  <2>3. ASSUME NEW u \in Task, u # t, ~ Reserved(u) PROVE ~ Reserved(u)'
    <3>1. env'[u] = env[u] /\ desired'[u] = desired[u] /\ UNCHANGED <<seen, secret, call>>
      BY <1>5, <1>6, <2>3 DEF admitEnvironment, Write
    <3>. QED
      BY <2>3, <3>1 DEF Reserved, Counted, computePhase, ReleasePending, Present, Declaring
  <2>4. Places' \subseteq Places \cup {t}
    BY <2>3 DEF Places
  <2>. QED
    BY <1>3, <1>4, <2>1, <2>2, <2>4, OneMorePlace DEF Occupancy
<1>7. ASSUME NEW c \in Caller, admitAndRestart(c), Admissible(c), call[c].pc = "count"
      PROVE  Cardinality(Places') <= Limit
  <2>. DEFINE t == call[c].task
  <2>1. t \in Task
    BY <1>1, <1>7 DEF TypeInv, CallsHaveTask
  <2>2. \A d \in Caller : call[d].pc # "declare"
    <3>1. lock = c
      BY <1>1, <1>7, <2>1 DEF LockInv, AdmittedHolds, Admitted
    <3>. QED
      BY <1>1, <1>7, <3>1 DEF LockInv, TypeInv, CallsHaveTask, AdmittedHolds, Admitted
  <2>3. Occupancy < Limit
    BY <1>7 DEF Admissible
  <2>4. ASSUME NEW u \in Task, u # t, ~ Reserved(u) PROVE ~ Reserved(u)'
    <3>1. env'[u] = env[u] /\ UNCHANGED <<desired, seen, secret>>
      BY <1>5, <1>7, <2>4 DEF admitAndRestart, Write
    <3>2. ~ Declaring(u)'
      BY <1>5, <1>7, <2>2 DEF admitAndRestart, Return, Declaring
    <3>. QED
      BY <2>4, <3>1, <3>2 DEF Reserved, Counted, computePhase, ReleasePending, Present
  <2>5. Places' \subseteq Places \cup {t}
    BY <2>4 DEF Places
  <2>. QED
    BY <1>3, <1>4, <2>1, <2>2, <2>3, <2>5, OneMorePlace DEF Occupancy
<1>8. CASE \A t \in Task : ~ TakesPlace(t)
  <2>1. Places' \subseteq Places
    BY <1>2, <1>3, <1>8
  <2>2. IsFiniteSet(Places) /\ IsFiniteSet(Places')
    BY <1>3, FS_Subset
  <2>3. /\ Cardinality(Places') <= Cardinality(Places)
        /\ Cardinality(Places) \in Nat /\ Cardinality(Places') \in Nat
    BY <2>1, <2>2, FS_Subset, FS_CardinalityType
  <2>. QED
    BY <1>1, <2>3, EnvironmentAssumption
<1>. QED
  BY <1>6, <1>7, <1>8 DEF TakesPlace

(* Where every task has an isolated volume, a project never has more       *)
(* living tasks than its quota allows, as long as nothing has failed: the  *)
(* lock over both halves of an admission is enough, and what finding 4     *)
(* says of plain tasks cannot happen to these.                             *)
THEOREM QuotaHoldsWithoutFaults ==
    ASSUME Task = Protected, IsFiniteSet(Task)
    PROVE  Spec => [](faults = 0 => LiveWithinLimit)
<1>1. Init => QuotaInv
  <2>. SUFFICES ASSUME Init PROVE Cardinality(Places) <= Limit
    BY TidyInvInit DEF QuotaInv
  <2>1. Places = {}
    BY DEF Init, Places, Reserved
  <2>. QED
    BY <2>1, FS_EmptySet, EnvironmentAssumption
<1>2. QuotaInv /\ [Next]_vars => QuotaInv'
  <2>. SUFFICES ASSUME QuotaInv, [Next]_vars PROVE QuotaInv'
    OBVIOUS
  <2>1. TidyInv'
    BY TidyInvStep DEF QuotaInv
  <2>2. faults' = 0 => Cardinality(Places') <= Limit
    BY QuotaStep
  <2>. QED
    BY <2>1, <2>2 DEF QuotaInv
<1>3. QuotaInv => (faults = 0 => LiveWithinLimit)
  <2>. SUFFICES ASSUME TypeInv, Cardinality(Places) <= Limit PROVE LiveWithinLimit
    BY DEF QuotaInv, TidyInv, LockInv
  <2>. DEFINE Live == {t \in Task : computePhase(t) = "live"}
  <2>1. Live \subseteq Places /\ Places \subseteq Task
    <3>1. ASSUME NEW t \in Live PROVE t \in Task /\ desired[t] = "present" /\ Counted(t)
      BY DEF Counted, computePhase, TypeInv, TypeOK
    <3>. QED
      BY <3>1 DEF Places, Reserved
  <2>2. /\ Cardinality(Live) <= Cardinality(Places)
        /\ Cardinality(Live) \in Nat /\ Cardinality(Places) \in Nat
    BY <2>1, FS_Subset, FS_CardinalityType
  <2>. QED
    BY <2>2, EnvironmentAssumption DEF LiveWithinLimit
<1>. QED
  BY <1>1, <1>2, <1>3, PTL DEF Spec
=============================================================================
