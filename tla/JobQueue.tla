------------------------------ MODULE JobQueue ------------------------------
(***************************************************************************)
(* packages/queue: the job table of PostgreSQL and the workers that poll   *)
(* it.  A claim leases a job and raises its fencing token; every later     *)
(* write of the holder (heartbeat, completion, failure, and the handler's  *)
(* own transaction through lockJobLease) names the token it was given.     *)
(*                                                                         *)
(* Time is kept as two sets: `due` holds the jobs whose run_at has passed, *)
(* `lapsed` the running jobs whose lease_until has passed.  A key stands   *)
(* for the pair (kind, dedup_key); the payload is determined by the key.   *)
(***************************************************************************)
EXTENDS Integers, FiniteSets

CONSTANTS
    MaxJobs,      \* bound: how many rows the bigserial id can number
    Keys,         \* values of (kind, dedup_key)
    NoKey,        \* dedup_key IS NULL
    Workers,      \* polling processes (createWorker)
    Deleters,     \* project deletions resuming an original job
    NoClaim,      \* no transaction holds the row lock
    MaxAttempts,  \* jobs.max_attempts
    Concurrency,  \* WorkerOptions.concurrency
    MaxFaults,    \* bound: crashes, and leases lost by a live holder
    MaxRevivals   \* bound: cleanup claims of a job already done or dead

ASSUME QueueAssumption ==
    /\ MaxJobs \in Nat /\ MaxAttempts \in Nat \ {0}
    /\ Concurrency \in Nat \ {0} /\ MaxFaults \in Nat /\ MaxRevivals \in Nat
    /\ NoKey \notin Keys
    /\ Workers \cap Deleters = {}
Ids    == 1..MaxJobs
Actors == Workers \cup Deleters
States == {"absent", "pending", "running", "done", "dead"}
Claim  == [actor : Actors, job : Ids, token : Nat, attempts : Nat]

ASSUME NoClaimAssumption == NoClaim \notin Claim

VARIABLES
    state, key, token, attempts,  \* columns of the row of each id
    due, lapsed,                  \* run_at <= now();  lease_until < now()
    rowLock,    \* the claim whose handler transaction holds the row
    claims,     \* the ClaimedJob values in the memory of live processes
    adrift,     \* claims whose round of the worker loop was rejected
    effect,     \* ghost: token of the last handler transaction committed
    nextId, faults, revivals

vars == <<state, key, token, attempts, due, lapsed, rowLock, claims, adrift, effect,
          nextId, faults, revivals>>
row  == <<state, key, token, attempts>>

Active(j)  == state[j] \in {"pending", "running"}
Current(c) == state[c.job] = "running" /\ token[c.job] = c.token
Free(j)    == rowLock[j] = NoClaim
Family(k)  == {j \in Ids : state[j] # "absent" /\ key[j] = k}

(* Mutants: no FOR UPDATE; expired leases forgotten.                       *)
ClaimableUnlocked == {j \in due : \/ state[j] = "pending"
                                  \/ state[j] = "running" /\ j \in lapsed}
ClaimablePending == {j \in due : Free(j) /\ state[j] = "pending"}

Claimable == {j \in due : /\ Free(j)
                          /\ \/ state[j] = "pending"
                             \/ state[j] = "running" /\ j \in lapsed}

Init ==
    /\ state = [j \in Ids |-> "absent"]
    /\ key = [j \in Ids |-> NoKey]
    /\ token = [j \in Ids |-> 0]
    /\ attempts = [j \in Ids |-> 0]
    /\ due = {} /\ lapsed = {}
    /\ rowLock = [j \in Ids |-> NoClaim]
    /\ claims = {} /\ adrift = {}
    /\ effect = [j \in Ids |-> 0]
    /\ nextId = 1 /\ faults = 0 /\ revivals = 0

-----------------------------------------------------------------------------
(* enqueueJob: the partial unique index makes a second active job of a key *)
(* a no-op (deduplicated), so only the insert is a step.                   *)
Enqueue(k) ==
    /\ nextId <= MaxJobs
    /\ k = NoKey \/ \A j \in Family(k) : ~Active(j)
    /\ state' = [state EXCEPT ![nextId] = "pending"]
    /\ key' = [key EXCEPT ![nextId] = k]
    /\ \E soon \in BOOLEAN : due' = IF soon THEN due \cup {nextId} ELSE due
    /\ nextId' = nextId + 1
    /\ UNCHANGED <<token, attempts, lapsed, rowLock, claims, adrift, effect,
                   faults, revivals>>

(* Mutant: fencing_token is not raised.                                    *)
LeaseSameToken(a, S) ==
    /\ state' = [j \in Ids |-> IF j \in S THEN "running" ELSE state[j]]
    /\ attempts' = [j \in Ids |-> IF j \in S THEN attempts[j] + 1
                                             ELSE attempts[j]]
    /\ lapsed' = lapsed \ S
    /\ claims' = claims \cup {[actor |-> a, job |-> j, token |-> token[j],
                               attempts |-> attempts[j] + 1] : j \in S}
    /\ UNCHANGED <<key, token, due, rowLock, effect, adrift, nextId, faults>>

(* The effect all three claim statements have on the rows S they select.   *)
Lease(a, S) ==
    /\ state' = [j \in Ids |-> IF j \in S THEN "running" ELSE state[j]]
    /\ token' = [j \in Ids |-> IF j \in S THEN token[j] + 1 ELSE token[j]]
    /\ attempts' = [j \in Ids |-> IF j \in S THEN attempts[j] + 1
                                             ELSE attempts[j]]
    /\ lapsed' = lapsed \ S
    /\ claims' = claims \cup {[actor |-> a, job |-> j, token |-> token[j] + 1,
                               attempts |-> attempts[j] + 1] : j \in S}
    /\ UNCHANGED <<key, due, rowLock, effect, adrift, nextId, faults>>

Idle(a) == \A c \in claims : c.actor # a

(* runOnce: the loop awaits every job of its last round, and then takes as *)
(* many jobs as fit beside those still in flight from a rejected round.    *)
ClaimJobs(w) ==
    LET mine == {c \in claims : c.actor = w}
        room == Concurrency - Cardinality(mine)
    IN  /\ mine \subseteq adrift
        /\ \E S \in SUBSET Claimable :
              /\ S # {}
              /\ Cardinality(S) <= room
              /\ Cardinality(S) < room => S = Claimable
              /\ Lease(w, S)
        /\ UNCHANGED revivals

(* claimOriginalJob: only the job of one key, under the ordinary rules.    *)
ClaimOriginal(d, k) ==
    /\ Idle(d)
    /\ \E j \in Claimable : /\ key[j] = k
                            /\ \A i \in Claimable : key[i] = k => j <= i
                            /\ Lease(d, {j})
    /\ UNCHANGED revivals

(* Mutant: any finished job of the key is revived, not only the newest.    *)
ClaimCleanupAny(d, k) ==
    /\ Idle(d)
    /\ \E j \in Family(k) :
          /\ Free(j) /\ ~Active(j) /\ \A i \in Family(k) : ~Active(i)
          /\ revivals < MaxRevivals /\ revivals' = revivals + 1
          /\ Lease(d, {j})

(* claimOriginalCleanupJob: the newest job of the key, done or dead ones   *)
(* included, whatever its run_at, unless a live lease of the key exists.   *)
(* The unique index refuses to revive it beside another active job.        *)
ClaimCleanup(d, k) ==
    /\ Idle(d)
    /\ \E j \in Family(k) :
          /\ \A i \in Family(k) : i <= j
          /\ Free(j)
          /\ state[j] = "running" => j \in lapsed
          /\ \A i \in Family(k) : state[i] = "running" => i \in lapsed
          /\ ~Active(j) => \A i \in Family(k) : ~Active(i)
          /\ revivals' = IF Active(j) THEN revivals ELSE revivals + 1
          /\ revivals' <= MaxRevivals
          /\ Lease(d, {j})

-----------------------------------------------------------------------------
(* heartbeatJob re-arms the lease, a lapsed one too if nobody took it over. *)
Heartbeat(c) ==
    /\ Free(c.job)
    /\ Current(c)
    /\ lapsed' = lapsed \ {c.job}
    /\ UNCHANGED <<row, due, rowLock, claims, effect, adrift, nextId, faults, revivals>>

(* lockJobLease inside the handler's transaction: row lock, then checks.   *)
LockLease(c) ==
    /\ Free(c.job)
    /\ Current(c) /\ c.job \notin lapsed
    /\ rowLock' = [rowLock EXCEPT ![c.job] = c]
    /\ UNCHANGED <<row, due, lapsed, claims, effect, adrift, nextId, faults, revivals>>

(* The handler's transaction commits its writes, or rolls back.            *)
EndTransaction(c) ==
    /\ rowLock[c.job] = c
    /\ rowLock' = [rowLock EXCEPT ![c.job] = NoClaim]
    /\ \/ effect' = [effect EXCEPT ![c.job] = c.token]
       \/ UNCHANGED effect
    /\ UNCHANGED <<row, due, lapsed, claims, adrift, nextId, faults, revivals>>

(* completeJob; a stale token updates no row and the worker moves on.      *)
Complete(c) ==
    /\ Free(c.job)
    /\ claims' = claims \ {c}
    /\ IF Current(c)
       THEN /\ state' = [state EXCEPT ![c.job] = "done"]
            /\ lapsed' = lapsed \ {c.job}
       ELSE UNCHANGED <<state, lapsed>>
    /\ UNCHANGED <<key, token, attempts, due, rowLock, effect, adrift, nextId, faults,
                   revivals>>

(* Mutant: one attempt too many.                                           *)
FailLate(c) ==
    /\ c.actor \in Workers /\ Free(c.job) /\ Current(c)
    /\ claims' = claims \ {c}
    /\ state' = [state EXCEPT ![c.job] =
                   IF c.attempts > MaxAttempts THEN "dead" ELSE "pending"]
    /\ lapsed' = lapsed \ {c.job} /\ due' = due \ {c.job}
    /\ UNCHANGED <<key, token, attempts, rowLock, effect, adrift, nextId, faults,
                   revivals>>

(* failJob, called by the worker when its handler throws.                  *)
Fail(c) ==
    /\ c.actor \in Workers
    /\ Free(c.job)
    /\ claims' = claims \ {c}
    /\ IF Current(c)
       THEN /\ state' = [state EXCEPT ![c.job] =
                           IF c.attempts >= MaxAttempts THEN "dead" ELSE "pending"]
            /\ lapsed' = lapsed \ {c.job}
            /\ due' = IF c.attempts >= MaxAttempts THEN due \cup {c.job}
                                                   ELSE due \ {c.job}
       ELSE UNCHANGED <<state, lapsed, due>>
    /\ UNCHANGED <<key, token, attempts, rowLock, effect, adrift, nextId, faults,
                   revivals>>

(* failJob itself throws: the outcome is not written, and Promise.all of   *)
(* the round rejects while the other jobs of the round go on.              *)
OutcomeLost(c) ==
    /\ c.actor \in Workers /\ rowLock[c.job] # c
    /\ faults < MaxFaults /\ faults' = faults + 1
    /\ claims' = claims \ {c}
    /\ adrift' = adrift \cup {e \in claims' : e.actor = c.actor}
    /\ UNCHANGED <<row, due, lapsed, rowLock, effect, nextId, revivals>>

(* The process of an actor dies: its memory and open transactions go.      *)
Crash(a) ==
    /\ faults < MaxFaults
    /\ ~Idle(a)
    /\ faults' = faults + 1
    /\ claims' = {c \in claims : c.actor # a}
    /\ rowLock' = [j \in Ids |-> IF ~Free(j) /\ rowLock[j].actor = a THEN NoClaim
                                                                   ELSE rowLock[j]]
    /\ UNCHANGED <<row, due, lapsed, effect, adrift, nextId, revivals>>

(* Time passes.  A lease whose holder is alive lapses when it is too slow. *)
BecomeDue(j) ==
    /\ state[j] # "absent" /\ j \notin due
    /\ due' = due \cup {j}
    /\ UNCHANGED <<row, lapsed, rowLock, claims, effect, adrift, nextId, faults, revivals>>

LeaseLapse(j) ==
    /\ state[j] = "running" /\ j \notin lapsed
    /\ lapsed' = lapsed \cup {j}
    /\ IF \E c \in claims : c.job = j /\ Current(c)
       THEN faults < MaxFaults /\ faults' = faults + 1
       ELSE UNCHANGED faults
    /\ UNCHANGED <<row, due, rowLock, claims, effect, adrift, nextId, revivals>>

Next ==
    \/ \E k \in Keys \cup {NoKey} : Enqueue(k)
    \/ \E w \in Workers : ClaimJobs(w)
    \/ \E d \in Deleters, k \in Keys : ClaimOriginal(d, k) \/ ClaimCleanup(d, k)
    \/ \E c \in claims : \/ Heartbeat(c) \/ LockLease(c) \/ EndTransaction(c)
                         \/ Complete(c) \/ Fail(c) \/ OutcomeLost(c)
    \/ \E a \in Actors : Crash(a)
    \/ \E j \in Ids : BecomeDue(j) \/ LeaseLapse(j)

Spec == Init /\ [][Next]_vars

(* The worker loop polls for ever, every transaction ends, every handler   *)
(* returns or throws after finitely many transactions (SF: it may open and *)
(* close them meanwhile), run_at and an abandoned lease_until are reached. *)
Fairness ==
    /\ \A w \in Workers : WF_vars(ClaimJobs(w))
    /\ \A a \in Actors : WF_vars(\E c \in claims : c.actor = a /\ EndTransaction(c))
    /\ \A a \in Actors : SF_vars(\E c \in claims : /\ c.actor = a
                                                  /\ (Complete(c) \/ Fail(c)))
    /\ \A j \in Ids : WF_vars(BecomeDue(j)) /\ WF_vars(LeaseLapse(j))

FairSpec == Spec /\ Fairness

-----------------------------------------------------------------------------
(* The columns and the claims in memory keep their types.                  *)
TypeOK ==
    /\ state \in [Ids -> States]
    /\ key \in [Ids -> Keys \cup {NoKey}]
    /\ token \in [Ids -> Nat]
    /\ attempts \in [Ids -> Nat]
    /\ due \subseteq Ids /\ lapsed \subseteq Ids
    /\ rowLock \in [Ids -> Claim \cup {NoClaim}]
    /\ claims \subseteq Claim /\ adrift \subseteq Claim
    /\ effect \in [Ids -> Nat]
    /\ nextId \in 1..(MaxJobs + 1) /\ faults \in Nat /\ revivals \in Nat

(* A fencing token names one claim: two processes never believe they hold  *)
(* the same job under the same token (claimJobs, claimOriginalJob and      *)
(* claimOriginalCleanupJob all raise it), and no process holds a token the *)
(* row has not reached.                                                    *)
TokenNamesOneClaim ==
    /\ \A c \in claims : c.token <= token[c.job]
    /\ \A c, d \in claims : c.job = d.job /\ c.token = d.token => c = d

(* lockJobLease: while a handler's transaction holds the row, its claim is *)
(* the newest one, so what it commits is never older than a committed      *)
(* effect of a later holder.                                               *)
LockedRowIsCurrent ==
    \A j \in Ids : ~Free(j) =>
        rowLock[j] \in claims /\ rowLock[j].job = j /\ Current(rowLock[j])

(* The active job of a key is the newest one: claimOriginalCleanupJob,     *)
(* which looks at the newest only, can neither miss a pending job nor run  *)
(* into the unique index when it revives a finished one.                   *)
ActiveIsNewest ==
    \A j \in Ids : Active(j) /\ key[j] # NoKey => \A i \in Family(key[j]) : i <= j

(* Effects of one job reach the database in token order and only under the *)
(* token the row carries at that moment, however late a process that lost  *)
(* its lease comes back.                                                   *)
EffectsFenced ==
    [][\A j \in Ids : effect'[j] # effect[j] =>
          /\ state[j] = "running"
          /\ effect'[j] = token[j] /\ effect[j] <= effect'[j]]_vars

(* A process that finishes or fails a job it has lost changes nothing of   *)
(* the job: completeJob and failJob refuse the stale token.                *)
StaleHolderIsInert ==
    [][\A c \in claims : c \notin claims' /\ c.token # token[c.job] =>
          /\ state'[c.job] = state[c.job]
          /\ (c.job \in lapsed') <=> (c.job \in lapsed)
          /\ (c.job \in due') <=> (c.job \in due)]_vars

(* Every job that was queued ends as done or dead, whatever crashes and    *)
(* lost leases it meets, once those stop.                                  *)
EveryJobSettles == \A j \in Ids : Active(j) ~> state[j] \in {"done", "dead"}

(* A job is run at most MaxAttempts times plus once for every lease lost   *)
(* with its process and every revival: claimJobs itself never looks at     *)
(* max_attempts, only failJob does.                                        *)
AttemptsBounded == \A j \in Ids : attempts[j] <= MaxAttempts + faults + revivals

(* The abstract lease: a row is a task, its token the term.                *)
PhaseOf(s) == CASE s = "absent"  -> "none"
                [] s = "pending" -> "open"
                [] s = "running" -> "leased"
                [] OTHER         -> "closed"

Promise == INSTANCE FencedLease WITH
    Tasks <- Ids,
    phase <- [j \in Ids |-> PhaseOf(state[j])],
    term <- token

KeepsPromise == Promise!ASpec
=============================================================================
