--------------------------- MODULE JobQueueProofs ---------------------------
(* Theorems about the job queue, for every value of its constants.         *)
EXTENDS JobQueue, TLAPS

(* Ids are handed out in order, and a row that was never inserted is blank *)
(* and nobody holds a claim on it.                                         *)
RowsFollowIds ==
    /\ \A j \in Ids : state[j] = "absent" <=> j >= nextId
    /\ \A c \in claims : state[c.job] # "absent"

FenceInv == TypeOK /\ RowsFollowIds /\ TokenNamesOneClaim /\ LockedRowIsCurrent

-----------------------------------------------------------------------------
(* What the claim statements share: they pick existing, unlocked rows.     *)
LEMMA LeaseKeepsFence ==
    ASSUME FenceInv, NEW a \in Actors, NEW S \in SUBSET Ids,
           \A j \in S : Free(j) /\ state[j] # "absent",
           Lease(a, S), revivals' \in Nat
    PROVE  FenceInv'
<1>. DEFINE granted == {[actor |-> a, job |-> j, token |-> token[j] + 1,
                         attempts |-> attempts[j] + 1] : j \in S}
<1>. USE DEF FenceInv, Lease
<1>1. TypeOK'
  <2>1. ASSUME NEW j \in S
        PROVE  [actor |-> a, job |-> j, token |-> token[j] + 1,
                attempts |-> attempts[j] + 1] \in Claim
    BY DEF TypeOK, Claim
  <2>2. claims' \subseteq Claim
    BY <2>1 DEF TypeOK
  <2>3. /\ state' \in [Ids -> States] /\ token' \in [Ids -> Nat]
        /\ attempts' \in [Ids -> Nat]
    BY DEF TypeOK, States
  <2>. QED
    BY <2>2, <2>3 DEF TypeOK
<1>2. RowsFollowIds'
  <2>1. \A j \in Ids : state'[j] = "absent" <=> state[j] = "absent"
    BY DEF TypeOK
  <2>2. \A c \in claims' : (c \in claims /\ c.job \in Ids) \/ c.job \in S
    BY DEF TypeOK, Claim
  <2>3. \A c \in claims' : state'[c.job] # "absent"
    BY <2>1, <2>2 DEF RowsFollowIds
  <2>. QED
    BY <2>1, <2>3 DEF RowsFollowIds
<1>3. TokenNamesOneClaim'
  <2>1. \A c \in granted : c.job \in S /\ c.token = token[c.job] + 1 /\ c.token = token'[c.job]
    BY DEF TypeOK
  <2>2. \A c \in claims : c.job \in Ids /\ c.token \in Nat /\ c.token <= token[c.job]
    BY DEF TypeOK, TokenNamesOneClaim, Claim
  <2>3. \A j \in Ids : token'[j] \in Nat /\ token[j] \in Nat /\ token[j] <= token'[j]
    BY DEF TypeOK
  <2>4. \A c \in claims, d \in granted : c.job = d.job => c.token # d.token
    BY <2>1, <2>2 DEF TypeOK
  <2>5. \A c, d \in granted : c.job = d.job => c = d
    OBVIOUS
  <2>6. \A c \in claims' : c.token <= token'[c.job]
    <3>. SUFFICES ASSUME NEW c \in claims' PROVE c.token <= token'[c.job]
      OBVIOUS
    <3>1. CASE c \in claims
      BY <3>1, <2>2, <2>3
    <3>2. CASE c \in granted
      BY <3>2, <2>1, <2>3 DEF TypeOK
    <3>. QED
      BY <3>1, <3>2
  <2>7. \A c, d \in claims' : c.job = d.job /\ c.token = d.token => c = d
    BY <2>4, <2>5 DEF TokenNamesOneClaim
  <2>. QED
    BY <2>6, <2>7 DEF TokenNamesOneClaim
<1>4. LockedRowIsCurrent'
  <2>. SUFFICES ASSUME NEW j \in Ids, ~Free(j)
                PROVE  rowLock[j] \in claims /\ rowLock[j].job = j /\ Current(rowLock[j])'
    BY DEF LockedRowIsCurrent, Free
  <2>1. j \notin S
    OBVIOUS
  <2>2. rowLock[j] \in claims /\ rowLock[j].job = j /\ Current(rowLock[j])
    BY DEF LockedRowIsCurrent
  <2>3. Current(rowLock[j])'
    BY <2>1, <2>2 DEF Current, TypeOK
  <2>. QED
    BY <2>2, <2>3
<1>. QED
  BY <1>1, <1>2, <1>3, <1>4

(* The three claim statements are leases of that kind.                     *)
LEMMA ClaimsAreLeases ==
    ASSUME TypeOK, NEW a \in Actors,
           \/ ClaimJobs(a)
           \/ \E k \in Keys : ClaimOriginal(a, k) \/ ClaimCleanup(a, k)
    PROVE  /\ \E S \in SUBSET Ids :
                 /\ Lease(a, S)
                 /\ \A j \in S : Free(j) /\ state[j] # "absent"
           /\ revivals' \in Nat
<1>1. \A j \in Claimable : j \in Ids /\ Free(j) /\ state[j] # "absent"
  BY DEF Claimable, TypeOK
<1>2. CASE ClaimJobs(a)
  BY <1>1, <1>2 DEF ClaimJobs, TypeOK
<1>3. CASE \E k \in Keys : ClaimOriginal(a, k)
  BY <1>1, <1>3 DEF ClaimOriginal, TypeOK
<1>4. CASE \E k \in Keys : ClaimCleanup(a, k)
  <2>1. PICK k \in Keys : ClaimCleanup(a, k)
    BY <1>4
  <2>2. PICK j \in Family(k) : Free(j) /\ Lease(a, {j})
    BY <2>1 DEF ClaimCleanup
  <2>3. j \in Ids /\ state[j] # "absent"
    BY DEF Family
  <2>4. revivals' \in Nat
    BY <2>1 DEF ClaimCleanup, TypeOK
  <2>. QED
    BY <2>2, <2>3, <2>4
<1>. QED
  BY <1>2, <1>3, <1>4

-----------------------------------------------------------------------------
LEMMA FenceInit == ASSUME Init PROVE FenceInv
<1>1. TypeOK
  BY QueueAssumption DEF Init, TypeOK, States
<1>2. RowsFollowIds /\ TokenNamesOneClaim /\ LockedRowIsCurrent
  BY DEF Init, RowsFollowIds, TokenNamesOneClaim, LockedRowIsCurrent, Ids, Free
<1>. QED
  BY <1>1, <1>2 DEF FenceInv

(* A step that only drops claims and settles or re-arms the row of one     *)
(* unlocked job, leaving tokens alone, keeps the fence.                    *)
LEMMA SettlingKeepsFence ==
    ASSUME FenceInv, NEW j \in Ids, Free(j), state[j] # "absent",
           claims' \subseteq claims,
           \A c \in claims : c.job # j => c \in claims',
           \A i \in Ids : i # j => state'[i] = state[i],
           state' \in [Ids -> States], state'[j] # "absent",
           due' \subseteq Ids, lapsed' \subseteq Ids,
           UNCHANGED <<key, token, attempts, rowLock, adrift, effect, nextId,
                       faults, revivals>>
    PROVE  FenceInv'
<1>. USE DEF FenceInv
<1>1. TypeOK'
  BY DEF TypeOK
<1>2. \A c \in claims' : c.job \in Ids
  BY DEF TypeOK, Claim
<1>3. RowsFollowIds'
  BY <1>2 DEF RowsFollowIds
<1>4. TokenNamesOneClaim'
  BY DEF TokenNamesOneClaim
<1>5. LockedRowIsCurrent'
  <2>. SUFFICES ASSUME NEW i \in Ids, ~Free(i)
                PROVE  rowLock[i] \in claims' /\ rowLock[i].job = i /\ Current(rowLock[i])'
    BY DEF LockedRowIsCurrent, Free
  <2>1. i # j
    OBVIOUS
  <2>. QED
    BY <2>1 DEF LockedRowIsCurrent, Current
<1>. QED
  BY <1>1, <1>3, <1>4, <1>5

LEMMA FenceStep == ASSUME FenceInv, [Next]_vars PROVE FenceInv'
<1>. USE DEF FenceInv
<1>0. \A c \in claims : c \in Claim /\ c.job \in Ids /\ c # NoClaim
  BY NoClaimAssumption DEF TypeOK, Claim
<1>1. ASSUME NEW k \in Keys \cup {NoKey}, Enqueue(k) PROVE FenceInv'
  <2>. USE <1>1 DEF Enqueue
  <2>0. nextId \in Ids
    BY DEF TypeOK, Ids
  <2>1. TypeOK'
    BY <2>0, QueueAssumption DEF TypeOK, States
  <2>2. \A j \in Ids : state'[j] = IF j = nextId THEN "pending" ELSE state[j]
    BY DEF TypeOK
  <2>3. state[nextId] = "absent"
    BY <2>0 DEF RowsFollowIds, TypeOK, Ids
  <2>4. RowsFollowIds'
    BY <1>0, <2>0, <2>2 DEF RowsFollowIds, TypeOK, Ids
  <2>5. LockedRowIsCurrent'
    BY <1>0, <2>2, <2>3 DEF LockedRowIsCurrent, Current, Free
  <2>. QED
    BY <2>1, <2>4, <2>5 DEF TokenNamesOneClaim
<1>2. ASSUME NEW a \in Actors,
             \/ ClaimJobs(a)
             \/ \E k \in Keys : ClaimOriginal(a, k) \/ ClaimCleanup(a, k)
      PROVE  FenceInv'
  BY <1>2, ClaimsAreLeases, LeaseKeepsFence
<1>3. ASSUME NEW c \in claims, Heartbeat(c) PROVE FenceInv'
  BY <1>0, <1>3, SettlingKeepsFence DEF Heartbeat, row, TypeOK, RowsFollowIds
<1>4. ASSUME NEW c \in claims, LockLease(c) PROVE FenceInv'
  <2>. USE <1>4 DEF LockLease, row
  <2>1. TypeOK'
    BY <1>0 DEF TypeOK
  <2>2. LockedRowIsCurrent'
    <3>. SUFFICES ASSUME NEW j \in Ids, rowLock'[j] # NoClaim
                  PROVE  /\ rowLock'[j] \in claims /\ rowLock'[j].job = j
                         /\ Current(rowLock'[j])
      BY DEF LockedRowIsCurrent, Current, Free
    <3>1. CASE j = c.job
      BY <3>1, <1>0 DEF TypeOK
    <3>2. CASE j # c.job
      BY <3>2, <1>0 DEF TypeOK, LockedRowIsCurrent, Free
    <3>. QED
      BY <3>1, <3>2
  <2>. QED
    BY <2>1, <2>2 DEF RowsFollowIds, TokenNamesOneClaim
<1>5. ASSUME NEW c \in claims, EndTransaction(c) PROVE FenceInv'
  <2>. USE <1>5 DEF EndTransaction, row
  <2>0. rowLock' \in [Ids -> Claim \cup {NoClaim}] /\ effect' \in [Ids -> Nat]
    BY <1>0 DEF TypeOK, Claim
  <2>1. TypeOK'
    BY <2>0 DEF TypeOK
  <2>2. \A j \in Ids : rowLock'[j] # NoClaim => rowLock'[j] = rowLock[j]
    BY <1>0 DEF TypeOK
  <2>3. LockedRowIsCurrent'
    BY <2>2 DEF LockedRowIsCurrent, Current, Free
  <2>. QED
    BY <2>1, <2>3 DEF RowsFollowIds, TokenNamesOneClaim
<1>6. ASSUME NEW c \in claims, Complete(c) \/ Fail(c) PROVE FenceInv'
  <2>1. /\ Free(c.job) /\ claims' = claims \ {c}
        /\ UNCHANGED <<key, token, attempts, rowLock, adrift, effect, nextId,
                       faults, revivals>>
    BY <1>6 DEF Complete, Fail
  <2>2. /\ state' \in [Ids -> States] /\ state'[c.job] # "absent"
        /\ \A i \in Ids : i # c.job => state'[i] = state[i]
    BY <1>0, <1>6 DEF Complete, Fail, TypeOK, States, RowsFollowIds
  <2>3. due' \subseteq Ids /\ lapsed' \subseteq Ids
    BY <1>0, <1>6 DEF Complete, Fail, TypeOK
  <2>. QED
    BY <1>0, <2>1, <2>2, <2>3, SettlingKeepsFence DEF RowsFollowIds
<1>7. ASSUME NEW a \in Actors, Crash(a) PROVE FenceInv'
  <2>. USE <1>7 DEF Crash, row
  <2>1. TypeOK'
    BY DEF TypeOK
  <2>2. \A j \in Ids : rowLock'[j] # NoClaim =>
                        rowLock'[j] = rowLock[j] /\ rowLock[j].actor # a
    BY DEF TypeOK, Free
  <2>3. LockedRowIsCurrent'
    BY <2>2 DEF LockedRowIsCurrent, Current, Free
  <2>. QED
    BY <2>1, <2>3 DEF RowsFollowIds, TokenNamesOneClaim
<1>8. ASSUME NEW j \in Ids, BecomeDue(j) \/ LeaseLapse(j) PROVE FenceInv'
  <2>1. /\ UNCHANGED <<state, key, token, attempts, rowLock, claims, adrift,
                       effect, nextId, revivals>>
        /\ due' \subseteq Ids /\ lapsed' \subseteq Ids /\ faults' \in Nat
    BY <1>8 DEF BecomeDue, LeaseLapse, row, TypeOK
  <2>. QED
    BY <2>1 DEF TypeOK, RowsFollowIds, TokenNamesOneClaim, LockedRowIsCurrent, Current, Free
<1>9. ASSUME NEW c \in claims, OutcomeLost(c) PROVE FenceInv'
  <2>. USE <1>9 DEF OutcomeLost, row
  <2>1. TypeOK'
    BY DEF TypeOK
  <2>2. LockedRowIsCurrent'
    <3>. SUFFICES ASSUME NEW j \in Ids, ~Free(j)
                  PROVE  rowLock[j] \in claims' /\ rowLock[j].job = j /\ Current(rowLock[j])
      BY DEF LockedRowIsCurrent, Current, Free
    <3>. QED
      BY DEF LockedRowIsCurrent
  <2>. QED
    BY <2>1, <2>2 DEF RowsFollowIds, TokenNamesOneClaim
<1>10. CASE UNCHANGED vars
  BY <1>10 DEF vars, TypeOK, RowsFollowIds, TokenNamesOneClaim, LockedRowIsCurrent, Current, Free
<1>. QED
  BY <1>1, <1>2, <1>3, <1>4, <1>5, <1>6, <1>7, <1>8, <1>9, <1>10
     DEF Next, Actors

(* Every reachable state keeps the fence.                                  *)
THEOREM FenceInvariant == Spec => []FenceInv
<1>1. Init => FenceInv
  BY FenceInit
<1>2. FenceInv /\ [Next]_vars => FenceInv'
  BY FenceStep
<1>. QED
  BY <1>1, <1>2, PTL DEF Spec

(* The columns and the claims keep their types.                            *)
THEOREM TypeCorrect == Spec => []TypeOK
BY FenceInvariant, PTL DEF FenceInv

(* claimJobs and its two variants never hand one token to two processes.   *)
THEOREM TokensAreUnique == Spec => []TokenNamesOneClaim
BY FenceInvariant, PTL DEF FenceInv

(* lockJobLease: whoever holds the row in a transaction is its newest      *)
(* claimant, for as long as the transaction lasts.                         *)
THEOREM LockImpliesCurrent == Spec => []LockedRowIsCurrent
BY FenceInvariant, PTL DEF FenceInv

-----------------------------------------------------------------------------
(* The active job of a key stays the newest: a job is inserted only beside *)
(* finished ones, and only the newest is ever revived.                     *)
LEMMA NewestStep ==
    ASSUME FenceInv, ActiveIsNewest, [Next]_vars
    PROVE  ActiveIsNewest'
<1>. USE DEF FenceInv, ActiveIsNewest, Family, Active
<1>0. \A c \in claims : c.job \in Ids
  BY DEF TypeOK, Claim
<1>1. ASSUME UNCHANGED key, \A j \in Ids : state'[j] = "absent" <=> state[j] = "absent",
             \A j \in Ids : Active(j)' => Active(j)
      PROVE  ActiveIsNewest'
  BY <1>1
<1>2. ASSUME NEW k \in Keys \cup {NoKey}, Enqueue(k) PROVE ActiveIsNewest'
  <2>. USE <1>2 DEF Enqueue
  <2>1. nextId \in Ids
    BY DEF TypeOK, Ids
  <2>2. \A j \in Ids : /\ state'[j] = IF j = nextId THEN "pending" ELSE state[j]
                       /\ key'[j] = IF j = nextId THEN k ELSE key[j]
    BY DEF TypeOK
  <2>3. \A j \in Ids : state[j] # "absent" => j < nextId /\ j <= nextId
    BY DEF RowsFollowIds, TypeOK, Ids
  <2>. SUFFICES ASSUME NEW j \in Ids, Active(j)', key'[j] # NoKey,
                       NEW i \in Ids, state'[i] # "absent", key'[i] = key'[j]
                PROVE  i <= j
    OBVIOUS
  <2>4. CASE j = nextId
    BY <2>1, <2>2, <2>3, <2>4 DEF Ids
  <2>5. CASE j # nextId /\ i = nextId
    BY <2>1, <2>2, <2>5
  <2>6. CASE j # nextId /\ i # nextId
    BY <2>2, <2>6
  <2>. QED
    BY <2>4, <2>5, <2>6
<1>3. ASSUME NEW a \in Actors, NEW S \in SUBSET Ids, Lease(a, S),
             \A j \in S : Active(j)
      PROVE  ActiveIsNewest'
  <2>1. \A j \in Ids : state'[j] = IF j \in S THEN "running" ELSE state[j]
    BY <1>3 DEF Lease
  <2>. QED
    BY <1>1, <1>3, <2>1 DEF Lease
<1>4. ASSUME NEW w \in Workers, ClaimJobs(w) PROVE ActiveIsNewest'
  <2>1. \A j \in Claimable : j \in Ids /\ Active(j)
    BY DEF Claimable, TypeOK
  <2>. QED
    BY <1>3, <1>4, <2>1 DEF ClaimJobs, Actors
<1>5. ASSUME NEW d \in Deleters, NEW k \in Keys, ClaimOriginal(d, k) PROVE ActiveIsNewest'
  <2>1. \A j \in Claimable : j \in Ids /\ Active(j)
    BY DEF Claimable, TypeOK
  <2>. QED
    BY <1>3, <1>5, <2>1 DEF ClaimOriginal, Actors
<1>6. ASSUME NEW d \in Deleters, NEW k \in Keys, ClaimCleanup(d, k) PROVE ActiveIsNewest'
  <2>1. PICK n \in Family(k) : /\ \A i \in Family(k) : i <= n
                               /\ ~Active(n) => \A i \in Family(k) : ~Active(i)
                               /\ Lease(d, {n})
    BY <1>6 DEF ClaimCleanup
  <2>. DEFINE S == {n}
  <2>2. Lease(d, S)
    BY <2>1
  <2>3. UNCHANGED key /\ \A i \in Ids : state'[i] = IF i \in S THEN "running" ELSE state[i]
    BY <2>2 DEF Lease
  <2>4. n \in Ids /\ key[n] = k /\ state[n] # "absent"
    OBVIOUS
  <2>. QED
    BY <2>1, <2>3, <2>4
<1>7. ASSUME NEW c \in claims,
             \/ Heartbeat(c) \/ LockLease(c) \/ EndTransaction(c)
             \/ Complete(c) \/ Fail(c) \/ OutcomeLost(c)
      PROVE  ActiveIsNewest'
  <2>1. UNCHANGED key
    BY <1>7 DEF Heartbeat, LockLease, EndTransaction, Complete, Fail, OutcomeLost, row
  <2>2. \A j \in Ids : \/ state'[j] = state[j]
                       \/ state[j] = "running" /\ state'[j] \in {"done", "dead", "pending"}
    BY <1>0, <1>7
       DEF Heartbeat, LockLease, EndTransaction, Complete, Fail, OutcomeLost, row,
           Current, TypeOK
  <2>. QED
    BY <1>1, <2>1, <2>2
<1>8. CASE \/ \E a \in Actors : Crash(a)
           \/ \E j \in Ids : BecomeDue(j) \/ LeaseLapse(j)
           \/ UNCHANGED vars
  BY <1>1, <1>8 DEF Crash, BecomeDue, LeaseLapse, row, vars
<1>. QED
  BY <1>2, <1>4, <1>5, <1>6, <1>7, <1>8 DEF Next

(* claimOriginalCleanupJob never meets the unique index and never misses   *)
(* the pending job of its key.                                             *)
THEOREM ActiveJobIsNewest == Spec => []ActiveIsNewest
<1>1. Init => ActiveIsNewest
  BY DEF Init, ActiveIsNewest, Active
<1>2. FenceInv /\ ActiveIsNewest /\ [Next]_vars => ActiveIsNewest'
  BY NewestStep
<1>. QED
  BY <1>1, <1>2, FenceInvariant, PTL DEF Spec

-----------------------------------------------------------------------------
EffectsBehind == \A j \in Ids : effect[j] <= token[j]

LEMMA EndCommitsCurrent ==
    ASSUME FenceInv, NEW c \in claims, EndTransaction(c)
    PROVE  /\ UNCHANGED <<state, token>>
           /\ \/ effect' = effect
              \/ /\ effect' = [effect EXCEPT ![c.job] = token[c.job]]
                 /\ state[c.job] = "running"
<1>. USE DEF FenceInv
<1>1. c.job \in Ids /\ rowLock[c.job] = c /\ c # NoClaim
  BY NoClaimAssumption DEF TypeOK, Claim, EndTransaction
<1>2. Current(c)
  BY <1>1 DEF LockedRowIsCurrent, Free
<1>. QED
  BY <1>1, <1>2 DEF EndTransaction, Current, row

(* The only step that commits an effect is the end of a transaction that   *)
(* holds the row, and LockedRowIsCurrent makes its claim the newest.       *)
LEMMA EffectStep ==
    ASSUME FenceInv, EffectsBehind, [Next]_vars
    PROVE  /\ EffectsBehind'
           /\ \A j \in Ids : effect'[j] # effect[j] =>
                 /\ state[j] = "running"
                 /\ effect'[j] = token[j] /\ effect[j] <= effect'[j]
<1>. USE DEF FenceInv, EffectsBehind
<1>1. ASSUME UNCHANGED <<token, effect>> PROVE EffectsBehind'
  BY <1>1
<1>2. ASSUME NEW a \in Actors, NEW S \in SUBSET Ids, Lease(a, S)
      PROVE  UNCHANGED effect /\ EffectsBehind'
  <2>1. \A j \in Ids : token[j] <= token'[j] /\ effect[j] \in Nat /\ token[j] \in Nat
    BY <1>2 DEF Lease, TypeOK
  <2>2. \A j \in Ids : token'[j] \in Nat
    BY <1>2 DEF Lease, TypeOK
  <2>3. UNCHANGED effect
    BY <1>2 DEF Lease
  <2>. QED
    BY <2>1, <2>2, <2>3
<1>3. ASSUME NEW a \in Actors,
             \/ ClaimJobs(a)
             \/ \E k \in Keys : ClaimOriginal(a, k) \/ ClaimCleanup(a, k)
      PROVE  UNCHANGED effect /\ EffectsBehind'
  BY <1>2, <1>3, ClaimsAreLeases
<1>4. ASSUME NEW c \in claims, EndTransaction(c)
      PROVE  /\ UNCHANGED <<state, token>>
             /\ \/ effect' = effect
                \/ /\ effect' = [effect EXCEPT ![c.job] = token[c.job]]
                   /\ state[c.job] = "running"
  BY <1>4, EndCommitsCurrent
<1>5. CASE \E c \in claims : EndTransaction(c)
  <2>1. PICK c \in claims : EndTransaction(c)
    BY <1>5
  <2>2. c.job \in Ids /\ effect \in [Ids -> Nat] /\ token \in [Ids -> Nat]
    BY DEF TypeOK, Claim
  <2>. QED
    BY <1>4, <2>1, <2>2
<1>6. CASE \/ \E k \in Keys \cup {NoKey} : Enqueue(k)
           \/ \E c \in claims : \/ Heartbeat(c) \/ LockLease(c)
                               \/ Complete(c) \/ Fail(c) \/ OutcomeLost(c)
           \/ \E a \in Actors : Crash(a)
           \/ \E j \in Ids : BecomeDue(j) \/ LeaseLapse(j)
           \/ UNCHANGED vars
  <2>1. UNCHANGED <<token, effect>>
    BY <1>6 DEF Enqueue, Heartbeat, LockLease, Complete, Fail, OutcomeLost, Crash,
                BecomeDue, LeaseLapse, row, vars
  <2>. QED
    BY <1>1, <2>1
<1>. QED
  BY <1>3, <1>5, <1>6 DEF Next, Actors

(* A late holder never writes under a token the row has left behind.       *)
THEOREM EffectsInTokenOrder == Spec => EffectsFenced
<1>1. Init => EffectsBehind
  BY DEF Init, EffectsBehind
<1>2. FenceInv /\ EffectsBehind /\ [Next]_vars =>
        /\ EffectsBehind'
        /\ [\A j \in Ids : effect'[j] # effect[j] =>
               /\ state[j] = "running"
               /\ effect'[j] = token[j] /\ effect[j] <= effect'[j]]_vars
  BY EffectStep
<1>. QED
  BY <1>1, <1>2, FenceInvariant, PTL DEF Spec, EffectsFenced

(* completeJob and failJob of a superseded claim touch no row.             *)
THEOREM StaleClaimsChangeNothing == Spec => StaleHolderIsInert
<1>. DEFINE Inert == \A c \in claims : c \notin claims' /\ c.token # token[c.job] =>
                       /\ state'[c.job] = state[c.job]
                       /\ (c.job \in lapsed') <=> (c.job \in lapsed)
                       /\ (c.job \in due') <=> (c.job \in due)
<1>1. ASSUME FenceInv, [Next]_vars PROVE [Inert]_vars
  <2>1. ASSUME NEW c \in claims, Complete(c) \/ Fail(c) PROVE Inert
    <3>1. \A d \in claims : d \notin claims' => d = c
      BY <2>1 DEF Complete, Fail
    <3>2. c.token # token[c.job] => UNCHANGED <<state, lapsed, due>>
      BY <2>1 DEF Complete, Fail, Current
    <3>. QED
      BY <3>1, <3>2
  <2>2. ASSUME NEW a \in Actors, Crash(a) PROVE Inert
    BY <2>2 DEF Crash, row
  <2>6. ASSUME NEW c \in claims, OutcomeLost(c) PROVE Inert
    BY <2>6 DEF OutcomeLost, row
  <2>3. ASSUME claims \subseteq claims' PROVE Inert
    BY <2>3
  <2>4. ASSUME NEW a \in Actors, NEW S \in SUBSET Ids, Lease(a, S) PROVE Inert
    BY <2>3, <2>4 DEF Lease
  <2>5. CASE \/ \E k \in Keys \cup {NoKey} : Enqueue(k)
             \/ \E c \in claims : Heartbeat(c) \/ LockLease(c) \/ EndTransaction(c)
             \/ \E j \in Ids : BecomeDue(j) \/ LeaseLapse(j)
    BY <2>3, <2>5 DEF Enqueue, Heartbeat, LockLease, EndTransaction, BecomeDue, LeaseLapse
  <2>. QED
    BY <1>1, <2>1, <2>2, <2>4, <2>5, <2>6, ClaimsAreLeases DEF Next, Actors, FenceInv
<1>. QED
  BY <1>1, FenceInvariant, PTL DEF Spec, StaleHolderIsInert

-----------------------------------------------------------------------------
(* The queue implements the abstract lease.                                *)
LEMMA PromiseInit == ASSUME Init PROVE Promise!AInit
BY DEF Init, Promise!AInit, PhaseOf

LEMMA PromiseGrant ==
    ASSUME FenceInv, NEW a \in Actors, NEW S \in SUBSET Ids, Lease(a, S),
           \A j \in S : state[j] # "absent"
    PROVE  Promise!Grant(S)
<1>1. \A j \in S : PhaseOf(state[j]) # "none"
  BY DEF PhaseOf
<1>2. \A j \in Ids : PhaseOf(state'[j]) = IF j \in S THEN "leased" ELSE PhaseOf(state[j])
  BY DEF Lease, PhaseOf
<1>3. /\ token' = [j \in Ids |-> IF j \in S THEN token[j] + 1 ELSE token[j]]
      /\ effect' = effect
  BY DEF Lease
<1>. QED
  BY <1>1, <1>2, <1>3 DEF Promise!Grant

LEMMA PromiseStep ==
    ASSUME FenceInv, [Next]_vars
    PROVE  [Promise!ANext]_(Promise!avars)
<1>. USE DEF FenceInv
<1>0. \A c \in claims : c.job \in Ids
  BY DEF TypeOK, Claim
<1>1. ASSUME UNCHANGED <<state, token, effect>> PROVE UNCHANGED Promise!avars
  BY <1>1 DEF Promise!avars
<1>2. ASSUME NEW k \in Keys \cup {NoKey}, Enqueue(k) PROVE Promise!Submit(nextId)
  <2>1. nextId \in Ids /\ state[nextId] = "absent"
    BY <1>2 DEF Enqueue, TypeOK, Ids, RowsFollowIds
  <2>2. /\ state' = [state EXCEPT ![nextId] = "pending"]
        /\ UNCHANGED <<token, effect>> /\ state \in [Ids -> States]
    BY <1>2 DEF Enqueue, TypeOK
  <2>. QED
    BY <2>1, <2>2 DEF Promise!Submit, PhaseOf
<1>3. ASSUME NEW a \in Actors,
             \/ ClaimJobs(a)
             \/ \E k \in Keys : ClaimOriginal(a, k) \/ ClaimCleanup(a, k)
      PROVE  Promise!ANext
  BY <1>3, ClaimsAreLeases, PromiseGrant DEF Promise!ANext
<1>4. ASSUME NEW c \in claims, EndTransaction(c)
      PROVE  Promise!Commit(c.job) \/ UNCHANGED Promise!avars
  <2>1. /\ UNCHANGED <<state, token>>
        /\ \/ effect' = effect
           \/ /\ effect' = [effect EXCEPT ![c.job] = token[c.job]]
              /\ state[c.job] = "running"
    BY <1>4, EndCommitsCurrent
  <2>. QED
    BY <1>0, <1>1, <2>1 DEF Promise!Commit, PhaseOf
<1>5. ASSUME NEW c \in claims, Complete(c) \/ Fail(c)
      PROVE  Promise!Yield(c.job) \/ UNCHANGED Promise!avars
  <2>1. UNCHANGED <<token, effect>>
    BY <1>5 DEF Complete, Fail
  <2>2. CASE UNCHANGED state
    BY <1>1, <2>1, <2>2
  <2>3. CASE /\ state[c.job] = "running"
             /\ \E s \in {"pending", "done", "dead"} : state' = [state EXCEPT ![c.job] = s]
    <3>1. PICK s \in {"pending", "done", "dead"} : state' = [state EXCEPT ![c.job] = s]
      BY <2>3
    <3>2. PhaseOf(s) \in {"open", "closed"} /\ PhaseOf(state[c.job]) = "leased"
      BY <2>3 DEF PhaseOf
    <3>3. state \in [Ids -> States]
      BY DEF TypeOK
    <3>. QED
      BY <1>0, <2>1, <3>1, <3>2, <3>3 DEF Promise!Yield
  <2>. QED
    BY <1>5, <2>2, <2>3 DEF Complete, Fail, Current
<1>6. CASE \/ \E c \in claims : Heartbeat(c) \/ LockLease(c) \/ OutcomeLost(c)
           \/ \E a \in Actors : Crash(a)
           \/ \E j \in Ids : BecomeDue(j) \/ LeaseLapse(j)
           \/ UNCHANGED vars
  BY <1>1, <1>6 DEF Heartbeat, LockLease, OutcomeLost, Crash, BecomeDue, LeaseLapse, row, vars
<1>7. \A k \in Keys \cup {NoKey} : Enqueue(k) => nextId \in Ids
  BY DEF Enqueue, TypeOK, Ids
<1>. QED
  BY <1>0, <1>2, <1>3, <1>4, <1>5, <1>6, <1>7 DEF Next, Actors, Promise!ANext

(* Every behaviour of the job table is one of the abstract lease.          *)
THEOREM QueueKeepsPromise == Spec => KeepsPromise
<1>1. Init => Promise!AInit
  BY PromiseInit
<1>2. FenceInv /\ [Next]_vars => [Promise!ANext]_(Promise!avars)
  BY PromiseStep
<1>. QED
  BY <1>1, <1>2, FenceInvariant, PTL DEF Spec, KeepsPromise, Promise!ASpec

-----------------------------------------------------------------------------
(* How often a job is run: whoever holds its newest claim knows the        *)
(* attempts of the row, and where no such holder is left, or its lease has *)
(* lapsed, a fault has paid for the attempt to come.                       *)
Bound == MaxAttempts + faults + revivals
Held(j) == \E c \in claims : c.job = j /\ c.token = token[j]

NewestKnows == \A c \in claims : c.token = token[c.job] => c.attempts = attempts[c.job]
LossesArePaid ==
    \A j \in Ids :
        /\ attempts[j] <= Bound
        /\ state[j] = "absent" => attempts[j] = 0
        /\ state[j] = "pending" => attempts[j] < MaxAttempts
        /\ state[j] = "running" /\ (j \in lapsed \/ ~Held(j)) => attempts[j] < Bound

AttemptInv == NewestKnows /\ LossesArePaid

LEMMA LeaseKeepsAttempts ==
    ASSUME FenceInv, AttemptInv, NEW a \in Actors, NEW S \in SUBSET Ids, Lease(a, S),
           revivals' \in Nat, revivals' >= revivals,
           \A j \in S : attempts[j] < Bound + revivals' - revivals
    PROVE  AttemptInv'
<1>. DEFINE granted == {[actor |-> a, job |-> j, token |-> token[j] + 1,
                         attempts |-> attempts[j] + 1] : j \in S}
<1>1. /\ token \in [Ids -> Nat] /\ attempts \in [Ids -> Nat] /\ claims \subseteq Claim
      /\ faults \in Nat /\ revivals \in Nat /\ MaxAttempts \in Nat
      /\ state \in [Ids -> States]
  BY QueueAssumption DEF FenceInv, TypeOK
<1>2. /\ claims' = claims \cup granted /\ lapsed' = lapsed \ S /\ faults' = faults
      /\ \A j \in Ids : /\ state'[j] = IF j \in S THEN "running" ELSE state[j]
                        /\ token'[j] = IF j \in S THEN token[j] + 1 ELSE token[j]
                        /\ attempts'[j] = IF j \in S THEN attempts[j] + 1 ELSE attempts[j]
  BY <1>1 DEF Lease
<1>3. \A c \in claims : c.job \in Ids /\ c.token \in Nat /\ c.token <= token[c.job]
  BY <1>1 DEF FenceInv, TokenNamesOneClaim, Claim
<1>4. ASSUME NEW c \in claims', c.token = token'[c.job] PROVE c.attempts = attempts'[c.job]
  <2>1. CASE c \in claims
    BY <1>1, <1>2, <1>3, <1>4, <2>1 DEF AttemptInv, NewestKnows
  <2>2. CASE c \in granted
    BY <1>1, <1>2, <2>2
  <2>. QED
    BY <1>2, <2>1, <2>2
<1>5. ASSUME NEW j \in Ids
      PROVE  /\ attempts'[j] <= Bound'
             /\ state'[j] = "absent" => attempts'[j] = 0
             /\ state'[j] = "pending" => attempts'[j] < MaxAttempts
             /\ state'[j] = "running" /\ (j \in lapsed' \/ ~Held(j)') => attempts'[j] < Bound'
  <2>1. CASE j \in S
    <3>1. PICK c : c = [actor |-> a, job |-> j, token |-> token[j] + 1,
                        attempts |-> attempts[j] + 1]
      OBVIOUS
    <3>2. c \in claims' /\ c.job = j /\ c.token = token'[j]
      BY <1>2, <2>1, <3>1
    <3>3. Held(j)'
      BY <3>2 DEF Held
    <3>. QED
      BY <1>1, <1>2, <2>1, <3>3 DEF Bound
  <2>2. CASE j \notin S
    <3>1. Held(j) => Held(j)'
      BY <1>2, <2>2 DEF Held
    <3>. QED
      BY <1>1, <1>2, <2>2, <3>1 DEF AttemptInv, LossesArePaid, Bound
  <2>. QED
    BY <2>1, <2>2
<1>. QED
  BY <1>4, <1>5 DEF AttemptInv, NewestKnows, LossesArePaid

LEMMA ClaimsKeepAttempts ==
    ASSUME FenceInv, AttemptInv, NEW a \in Actors,
           \/ ClaimJobs(a)
           \/ \E k \in Keys : ClaimOriginal(a, k) \/ ClaimCleanup(a, k)
    PROVE  AttemptInv'
<1>1. /\ attempts \in [Ids -> Nat] /\ faults \in Nat /\ revivals \in Nat
      /\ MaxAttempts \in Nat \ {0} /\ due \subseteq Ids /\ state \in [Ids -> States]
  BY QueueAssumption DEF FenceInv, TypeOK
<1>2. \A j \in Claimable : j \in Ids /\ attempts[j] < Bound
  BY <1>1 DEF Claimable, AttemptInv, LossesArePaid, Bound
<1>3. ASSUME ClaimJobs(a) \/ \E k \in Keys : ClaimOriginal(a, k) PROVE AttemptInv'
  <2>1. PICK S \in SUBSET Claimable : Lease(a, S) /\ revivals' = revivals
    <3>1. CASE ClaimJobs(a)
      BY <3>1 DEF ClaimJobs
    <3>2. CASE \E k \in Keys : ClaimOriginal(a, k)
      BY <3>2 DEF ClaimOriginal
    <3>. QED
      BY <1>3, <3>1, <3>2
  <2>2. S \in SUBSET Ids /\ \A j \in S : attempts[j] < Bound + revivals' - revivals
    BY <1>1, <1>2, <2>1 DEF Bound
  <2>. QED
    BY <1>1, <2>1, <2>2, LeaseKeepsAttempts
<1>4. ASSUME NEW k \in Keys, ClaimCleanup(a, k) PROVE AttemptInv'
  <2>1. PICK j \in Family(k) :
            /\ state[j] = "running" => j \in lapsed
            /\ revivals' = IF Active(j) THEN revivals ELSE revivals + 1
            /\ Lease(a, {j})
    BY <1>4 DEF ClaimCleanup
  <2>2. j \in Ids /\ state[j] # "absent"
    BY DEF Family
  <2>3. attempts[j] < Bound + revivals' - revivals
    BY <1>1, <2>1, <2>2 DEF AttemptInv, LossesArePaid, Bound, Active, States
  <2>4. {j} \in SUBSET Ids /\ revivals' \in Nat /\ revivals' >= revivals
    BY <1>1, <2>1, <2>2
  <2>. QED
    BY <2>1, <2>3, <2>4, LeaseKeepsAttempts
<1>. QED
  BY <1>3, <1>4

LEMMA AttemptStep == ASSUME FenceInv, AttemptInv, [Next]_vars PROVE AttemptInv'
<1>. USE DEF AttemptInv
<1>0. /\ attempts \in [Ids -> Nat] /\ faults \in Nat /\ revivals \in Nat /\ lapsed \subseteq Ids
      /\ MaxAttempts \in Nat \ {0} /\ state \in [Ids -> States] /\ token \in [Ids -> Nat]
      /\ \A c \in claims : c \in Claim /\ c.job \in Ids /\ c.attempts \in Nat
  BY QueueAssumption DEF FenceInv, TypeOK, Claim
<1>1. ASSUME NEW k \in Keys \cup {NoKey}, Enqueue(k) PROVE AttemptInv'
  <2>1. nextId \in Ids /\ state[nextId] = "absent"
    BY <1>1 DEF Enqueue, FenceInv, TypeOK, RowsFollowIds, Ids
  <2>2. /\ UNCHANGED <<token, attempts, lapsed, claims, faults, revivals>>
        /\ \A j \in Ids : state'[j] = IF j = nextId THEN "pending" ELSE state[j]
    BY <1>0, <1>1 DEF Enqueue
  <2>. QED
    BY <1>0, <2>1, <2>2 DEF NewestKnows, LossesArePaid, Bound, Held
<1>2. ASSUME NEW a \in Actors,
             \/ ClaimJobs(a)
             \/ \E k \in Keys : ClaimOriginal(a, k) \/ ClaimCleanup(a, k)
      PROVE  AttemptInv'
  BY <1>2, ClaimsKeepAttempts
<1>3. ASSUME NEW c \in claims, Heartbeat(c) PROVE AttemptInv'
  <2>1. /\ UNCHANGED <<state, token, attempts, claims, faults, revivals>>
        /\ lapsed' \subseteq lapsed
    BY <1>3 DEF Heartbeat, row
  <2>. QED
    BY <2>1 DEF NewestKnows, LossesArePaid, Bound, Held
<1>4. ASSUME NEW c \in claims, LockLease(c) \/ EndTransaction(c) PROVE AttemptInv'
  BY <1>4 DEF LockLease, EndTransaction, row, NewestKnows, LossesArePaid, Bound, Held
<1>5. ASSUME NEW c \in claims, Complete(c) \/ Fail(c) PROVE AttemptInv'
  <2>1. /\ claims' = claims \ {c} /\ lapsed' \subseteq lapsed
        /\ UNCHANGED <<token, attempts, faults, revivals>>
    BY <1>5 DEF Complete, Fail
  <2>2. NewestKnows'
    BY <2>1 DEF NewestKnows
  <2>3. ASSUME NEW j \in Ids, j # c.job
        PROVE  /\ state'[j] = state[j] /\ (j \in lapsed' <=> j \in lapsed)
               /\ (Held(j)' <=> Held(j))
    BY <1>0, <1>5, <2>1, <2>3 DEF Complete, Fail, Held
  <2>4. CASE Current(c)
    <3>1. /\ c.attempts = attempts[c.job]
          /\ state'[c.job] \in {"done", "dead", "pending"}
          /\ state'[c.job] = "pending" => c.attempts < MaxAttempts
      BY <1>0, <1>5, <2>4 DEF Complete, Fail, NewestKnows, Current
    <3>. QED
      BY <1>0, <2>1, <2>2, <2>3, <3>1 DEF LossesArePaid, Bound
  <2>5. CASE ~Current(c)
    <3>1. state' = state /\ lapsed' = lapsed
      BY <1>5, <2>5 DEF Complete, Fail
    <3>2. \A j \in Ids : state[j] = "running" => (Held(j) => Held(j)')
      BY <2>1, <2>5 DEF Held, Current
    <3>. QED
      BY <2>1, <2>2, <3>1, <3>2 DEF LossesArePaid, Bound
  <2>. QED
    BY <2>4, <2>5
<1>6. ASSUME claims' \subseteq claims, faults' = faults + 1,
             UNCHANGED <<state, token, attempts, lapsed, revivals>>
      PROVE  AttemptInv'
  BY <1>0, <1>6 DEF NewestKnows, LossesArePaid, Bound
<1>7. ASSUME NEW a \in Actors, Crash(a) PROVE AttemptInv'
  BY <1>6, <1>7 DEF Crash, row
<1>8. ASSUME NEW c \in claims, OutcomeLost(c) PROVE AttemptInv'
  BY <1>6, <1>8 DEF OutcomeLost, row
<1>9. ASSUME NEW j \in Ids, BecomeDue(j) PROVE AttemptInv'
  BY <1>9 DEF BecomeDue, row, NewestKnows, LossesArePaid, Bound, Held
<1>10. ASSUME NEW j \in Ids, LeaseLapse(j) PROVE AttemptInv'
  <2>1. /\ state[j] = "running" /\ lapsed' = lapsed \cup {j}
        /\ UNCHANGED <<state, token, attempts, claims, revivals>>
    BY <1>10 DEF LeaseLapse, row
  <2>2. CASE Held(j)
    <3>1. faults' = faults + 1
      BY <1>10, <2>1, <2>2 DEF LeaseLapse, Held, Current
    <3>. QED
      BY <1>0, <2>1, <3>1 DEF NewestKnows, LossesArePaid, Bound
  <2>3. CASE ~Held(j)
    <3>1. faults' = faults
      BY <1>10, <2>3 DEF LeaseLapse, Held, Current
    <3>. QED
      BY <1>0, <2>1, <2>3, <3>1 DEF NewestKnows, LossesArePaid, Bound, Held
  <2>. QED
    BY <2>2, <2>3
<1>11. CASE UNCHANGED vars
  BY <1>11 DEF vars, NewestKnows, LossesArePaid, Bound, Held
<1>. QED
  BY <1>1, <1>2, <1>3, <1>4, <1>5, <1>7, <1>8, <1>9, <1>10, <1>11 DEF Next, Actors

(* claimJobs never looks at max_attempts, and yet a job is run at most     *)
(* max_attempts times, plus once for every fault and every revival.        *)
THEOREM RunsAreBounded == Spec => []AttemptsBounded
<1>1. Init => AttemptInv
  <2>. SUFFICES ASSUME Init PROVE AttemptInv
    OBVIOUS
  <2>1. claims = {} /\ faults = 0 /\ revivals = 0
        /\ \A j \in Ids : state[j] = "absent" /\ attempts[j] = 0
    BY DEF Init
  <2>. QED
    BY <2>1, QueueAssumption DEF AttemptInv, NewestKnows, LossesArePaid, Bound
<1>2. FenceInv /\ AttemptInv /\ [Next]_vars => AttemptInv'
  BY AttemptStep
<1>3. AttemptInv => AttemptsBounded
  BY DEF AttemptInv, LossesArePaid, Bound, AttemptsBounded
<1>. QED
  BY <1>1, <1>2, <1>3, FenceInvariant, PTL DEF Spec
=============================================================================
