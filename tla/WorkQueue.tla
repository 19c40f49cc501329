----------------------------- MODULE WorkQueue -----------------------------
(***************************************************************************)
(* packages/resource-runtime/workQueue.ts: the in-process queue that every *)
(* reconciler is driven by.  A key is queued at most once and has at most  *)
(* one handler; a trigger that arrives while its handler runs marks the    *)
(* key dirty, and a failed key comes back after a delay.                   *)
(*                                                                         *)
(* JavaScript runs each callback to its end, so a step is what happens     *)
(* between two awaits: a call of the queue's interface, a timer, or the    *)
(* end of one handler with the finally block that follows it.              *)
(***************************************************************************)
EXTENDS Integers, Sequences, FiniteSets

CONSTANTS
    Keys,         \* resource identifiers
    Concurrency,  \* WorkQueueOptions.concurrency
    MaxDelay      \* bound: the longest delay, in ticks (backoff.maxMs)

ASSUME WorkQueueAssumption ==
    /\ IsFiniteSet(Keys)
    /\ Concurrency \in Nat \ {0}
    /\ MaxDelay \in Nat \ {0}

VARIABLES
    order, queued, processing, dirty,  \* QueueState
    due,      \* delayed: ticks until the key's timer, Never if it has none
    failed,   \* keys with a count of consecutive failures
    waiting,  \* somebody awaits drained()
    phase,    \* running, and how far stop() has come
    unseen    \* ghost: keys triggered since their last handler began

vars == <<order, queued, processing, dirty, due, failed, waiting, phase, unseen>>

Running == phase = "running"

Min2(a, b) == IF a <= b THEN a ELSE b
Elements(s) == {s[i] : i \in 1..Len(s)}

Never == MaxDelay + 1

Init ==
    /\ order = <<>> /\ queued = {} /\ processing = {} /\ dirty = {}
    /\ due = [k \in Keys |-> Never]
    /\ failed = {} /\ waiting = FALSE /\ phase = "new" /\ unseen = {}

(* Mutant: the newest key first.                                           *)
PumpNewest(on, o, q, p, u) ==
    LET room  == IF on THEN Concurrency - Cardinality(p) ELSE 0
        n     == Min2(Len(o), room)
        begun == Elements(SubSeq(o, Len(o) - n + 1, Len(o)))
    IN  /\ order' = SubSeq(o, 1, Len(o) - n)
        /\ queued' = q \ begun
        /\ processing' = p \cup begun
        /\ unseen' = u \ begun

(* pump(): with o, q, p and u the state it finds and `on` whether the      *)
(* queue runs, hand the oldest keys to the free handlers.                  *)
Pump(on, o, q, p, u) ==
    LET room  == IF on THEN Concurrency - Cardinality(p) ELSE 0
        n     == Min2(Len(o), room)
        begun == Elements(SubSeq(o, 1, n))
    IN  /\ order' = SubSeq(o, n + 1, Len(o))
        /\ queued' = q \ begun
        /\ processing' = p \cup begun
        /\ unseen' = u \ begun

(* add(k)                                                                  *)
Enqueue(k) ==
    \/ /\ k \in processing
       /\ dirty' = dirty \cup {k} /\ unseen' = unseen \cup {k}
       /\ UNCHANGED <<order, queued, processing>>
    \/ /\ k \notin processing /\ k \in queued
       /\ unseen' = unseen \cup {k}
       /\ UNCHANGED <<order, queued, processing, dirty>>
    \/ /\ k \notin processing /\ k \notin queued
       /\ Pump(Running, Append(order, k), queued \cup {k}, processing, unseen \cup {k})
       /\ UNCHANGED dirty

Add(k) == Enqueue(k) /\ UNCHANGED <<due, failed, waiting, phase>>

(* The timers of `delayed`: the earliest one of a key stays.               *)
Delay(k, d) == [due EXCEPT ![k] = Min2(@, d)]

(* addAfter(k, ms) with ms > 0; it asks nothing about running.             *)
AddAfter(k) ==
    \E d \in 1..MaxDelay :
        /\ due' = Delay(k, d)
        /\ UNCHANGED <<order, queued, processing, dirty, failed, waiting,
                       phase, unseen>>

(* Time passes, but not past a timer that is due.                          *)
Tick ==
    /\ \A k \in Keys : due[k] # 0
    /\ \E k \in Keys : due[k] # Never
    /\ due' = [k \in Keys |-> IF due[k] = Never THEN Never ELSE due[k] - 1]
    /\ UNCHANGED <<order, queued, processing, dirty, failed, waiting, phase,
                   unseen>>

Fire(k) ==
    /\ due[k] = 0
    /\ due' = [due EXCEPT ![k] = Never]
    /\ Enqueue(k)
    /\ UNCHANGED <<failed, waiting, phase>>

(* Mutants: dirty is forgotten; the pump does not look at running.         *)
FinishForgets(k) ==
    /\ dirty' = dirty \ {k}
    /\ Pump(Running, order, queued, processing \ {k}, unseen)
    /\ waiting' = (waiting /\ ~(order' = <<>> /\ processing' = {}))
FinishPumpsAnyway(k) ==
    /\ dirty' = dirty \ {k}
    /\ Pump(TRUE, order, queued, processing \ {k}, unseen)
    /\ waiting' = (waiting /\ ~(order' = <<>> /\ processing' = {}))

(* The finally block of run(k): a dirty key is queued again, the freed     *)
(* handler is given work, and drained() is answered when all is empty.     *)
Finish(k) ==
    LET again == k \in dirty /\ Running
        o == IF again THEN Append(order, k) ELSE order
        q == IF again THEN queued \cup {k} ELSE queued
    IN  /\ dirty' = dirty \ {k}
        /\ Pump(Running, o, q, processing \ {k}, unseen)
        /\ waiting' = (waiting /\ ~(order' = <<>> /\ processing' = {}))

Succeed(k) ==
    /\ k \in processing
    /\ failed' = failed \ {k}
    /\ Finish(k)
    /\ UNCHANGED <<due, phase>>

(* Mutant: a failed key gets no timer.                                     *)
FailOnce(k) ==
    /\ k \in processing
    /\ failed' = failed \cup {k}
    /\ Finish(k)
    /\ UNCHANGED <<due, phase>>

(* The catch block: backoffDelay grows with the count up to maxMs; the     *)
(* count itself is abstracted to "some", its delay to any of 1..MaxDelay.  *)
Fail(k) ==
    /\ k \in processing
    /\ failed' = failed \cup {k}
    /\ \/ ~Running /\ UNCHANGED due
       \/ Running /\ \E d \in 1..MaxDelay : due' = Delay(k, d)
    /\ Finish(k)
    /\ UNCHANGED phase

Start ==
    /\ phase = "new"
    /\ phase' = "running"
    /\ Pump(TRUE, order, queued, processing, unseen)
    /\ UNCHANGED <<dirty, due, failed, waiting>>

(* stop(): no handler starts from here on; it returns when those in flight *)
(* have ended.                                                             *)
Stop ==
    /\ phase = "running"
    /\ phase' = "stopping"
    /\ due' = [k \in Keys |-> Never]
    /\ UNCHANGED <<order, queued, processing, dirty, failed, waiting, unseen>>

StopReturns ==
    /\ phase = "stopping" /\ processing = {}
    /\ phase' = "stopped"
    /\ UNCHANGED <<order, queued, processing, dirty, due, failed, waiting, unseen>>

(* drained() by a caller that has to wait.                                 *)
Drained ==
    /\ order # <<>> \/ processing # {}
    /\ waiting' = TRUE
    /\ UNCHANGED <<order, queued, processing, dirty, due, failed, phase, unseen>>

Next ==
    \/ \E k \in Keys : Add(k) \/ AddAfter(k) \/ Fire(k) \/ Succeed(k) \/ Fail(k)
    \/ Tick \/ Start \/ Stop \/ StopReturns \/ Drained

Spec == Init /\ [][Next]_vars

(* Handlers return and timers fire; nobody has to add, start or stop.      *)
FairSpec ==
    /\ Spec
    /\ WF_vars(Tick)
    /\ \A k \in Keys : WF_vars(Fire(k)) /\ WF_vars(Succeed(k) \/ Fail(k))

-----------------------------------------------------------------------------
(* The state a queue is in: the shape of QueueState.                       *)
TypeOK ==
    /\ order \in Seq(Keys)
    /\ queued \subseteq Keys /\ processing \subseteq Keys
    /\ dirty \subseteq Keys /\ failed \subseteq Keys /\ unseen \subseteq Keys
    /\ due \in [Keys -> 0..Never]
    /\ waiting \in BOOLEAN
    /\ phase \in {"new", "running", "stopping", "stopped"}

(* One place per key: the list and the set agree, no key is listed twice,  *)
(* none is listed while it is handled, only handled keys are dirty, and    *)
(* never more handlers than the limit.                                     *)
OnePlacePerKey ==
    /\ queued = Elements(order)
    /\ \A i, j \in 1..Len(order) : i # j => order[i] # order[j]
    /\ queued \cap processing = {}
    /\ dirty \subseteq processing
    /\ Cardinality(processing) <= Concurrency

(* A running queue never leaves a handler idle while a key is listed: the  *)
(* end of a handler, the start and every add all pump.                     *)
NoIdleHandler ==
    Running /\ order # <<>> => Cardinality(processing) = Concurrency

(* A trigger the queue accepted is not lost: until a handler that began    *)
(* after it, the key is listed or dirty, as long as nobody stops it.       *)
NoLostTrigger ==
    phase \in {"new", "running"} => unseen = queued \cup dirty

(* Whoever awaits drained() awaits work that is really there; otherwise    *)
(* nobody would ever resolve the promise.                                  *)
WaitersHaveCause == waiting => order # <<>> \/ processing # {}

(* Once stop() was called no handler begins, and what stop() awaited stays *)
(* over: the set of handlers only shrinks.                                 *)
StoppedIsQuiet ==
    [][(phase = "stopping" \/ phase = "stopped")
         => processing' \subseteq processing]_vars

(* The queue is the set of due keys its reconciler takes it for: whatever  *)
(* the list, the dirty marks and the timers do, no trigger disappears but  *)
(* by a handler that begins, no handler is idle in vain, a failure comes   *)
(* back, and after stop() nothing begins.                                  *)
Promise == INSTANCE DueKeys WITH
    Handlers <- Concurrency,
    due      <- queued \cup dirty,
    busy     <- processing,
    later    <- {k \in Keys : due[k] # Never},
    mode     <- CASE phase = "running"  -> "open"
                  [] phase = "stopping" -> "closing"
                  [] phase = "stopped"  -> "closed"
                  [] OTHER              -> phase

KeepsPromise == Promise!ASpec

(* Every trigger is followed by a handler that begins after it, whatever   *)
(* else is added meanwhile: the list is first in, first out.               *)
EveryTriggerServed ==
    \A k \in Keys : Running /\ k \in unseen ~> k \notin unseen \/ ~Running

(* A failed key is handled again.                                          *)
FailedIsRetried ==
    \A k \in Keys : Running /\ k \in failed ~> k \in processing \/ ~Running
=============================================================================
