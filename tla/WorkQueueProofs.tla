-------------------------- MODULE WorkQueueProofs --------------------------
(* Theorems about the reconcilers' work queue, for any set of keys, any    *)
(* number of handlers and any delays.                                      *)
EXTENDS WorkQueue, FiniteSetTheorems, SequenceTheorems, TLAPS

Distinct(s) == \A i, j \in 1..Len(s) : i # j => s[i] # s[j]

(* Nothing runs before the start, and what is listed is what the set says. *)
NewIsIdle == phase = "new" => processing = {}

(* Everything the queue promises about one state.                          *)
QueueInv ==
    /\ TypeOK /\ OnePlacePerKey /\ NoIdleHandler
    /\ NoLostTrigger /\ WaitersHaveCause /\ NewIsIdle

-----------------------------------------------------------------------------
(* Lists of keys.                                                          *)
LEMMA AppendIsDistinct ==
    ASSUME NEW s \in Seq(Keys), Distinct(s), NEW k \in Keys, k \notin Elements(s)
    PROVE  /\ Append(s, k) \in Seq(Keys) /\ Append(s, k) # <<>>
           /\ Distinct(Append(s, k))
           /\ Elements(Append(s, k)) = Elements(s) \cup {k}
<1>. DEFINE a == Append(s, k)
<1>1. /\ a \in Seq(Keys) /\ a # <<>> /\ Len(s) \in Nat /\ Len(a) = Len(s) + 1
      /\ \A i \in 1..Len(s) : a[i] = s[i]
      /\ a[Len(s) + 1] = k
  BY AppendProperties, LenProperties
<1>. HIDE DEF a
<1>2. \A i \in 1..Len(a) : i = Len(s) + 1 \/ i \in 1..Len(s)
  BY <1>1
<1>3. \A i \in 1..Len(s) : s[i] # k
  BY DEF Elements
<1>4. Distinct(a)
  BY <1>1, <1>2, <1>3 DEF Distinct
<1>5. Elements(a) = Elements(s) \cup {k}
  BY <1>1, <1>2 DEF Elements
<1>. QED
  BY <1>1, <1>4, <1>5 DEF a

(* The first n keys of a list are n keys, and the rest is what is left.    *)
LEMMA TakeFirst ==
    ASSUME NEW s \in Seq(Keys), Distinct(s), NEW n \in 0..Len(s)
    PROVE  LET begun == Elements(SubSeq(s, 1, n))
               rest  == SubSeq(s, n + 1, Len(s))
           IN  /\ begun \subseteq Elements(s)
               /\ IsFiniteSet(begun) /\ Cardinality(begun) = n
               /\ rest \in Seq(Keys) /\ Distinct(rest) /\ Len(rest) = Len(s) - n
               /\ Elements(rest) = Elements(s) \ begun
<1>. DEFINE f == SubSeq(s, 1, n)
            rest == SubSeq(s, n + 1, Len(s))
            begun == Elements(f)
<1>1. Len(s) \in Nat /\ \A i \in 1..Len(s) : s[i] \in Keys
  BY LenProperties
<1>2. f \in Seq(Keys) /\ Len(f) = n /\ \A i \in 1..n : f[i] = s[i]
  <2>1. \A i \in 1..n : s[i] \in Keys
    BY <1>1
  <2>2. /\ f \in Seq(Keys) /\ Len(f) = IF 1 <= n THEN n - 1 + 1 ELSE 0
        /\ \A i \in 1..(n - 1 + 1) : f[i] = s[1 + i - 1]
    BY <1>1, <2>1, SubSeqProperties
  <2>. QED
    BY <1>1, <2>2
<1>3. /\ rest \in Seq(Keys) /\ Len(rest) = Len(s) - n
      /\ \A i \in 1..(Len(s) - n) : rest[i] = s[n + i]
  <2>1. \A i \in (n + 1)..Len(s) : s[i] \in Keys
    BY <1>1
  <2>2. /\ rest \in Seq(Keys)
        /\ Len(rest) = IF n + 1 <= Len(s) THEN Len(s) - (n + 1) + 1 ELSE 0
        /\ \A i \in 1..(Len(s) - (n + 1) + 1) : rest[i] = s[(n + 1) + i - 1]
    BY <1>1, <2>1, SubSeqProperties
  <2>. QED
    BY <1>1, <2>2
<1>. HIDE DEF f, rest
<1>4. begun \subseteq Elements(s)
  BY <1>1, <1>2 DEF Elements
<1>5. IsFiniteSet(begun) /\ Cardinality(begun) = n
  <2>1. f \in [1..n -> begun]
    BY <1>2, LenProperties DEF Elements
  <2>2. f \in Surjection(1..n, begun)
    BY <1>2, <2>1 DEF Surjection, Elements
  <2>3. f \in Injection(1..n, begun)
    BY <1>1, <1>2, <2>1 DEF Injection, IsInjective, Distinct
  <2>4. IsFiniteSet(1..n) /\ Cardinality(1..n) = n
    BY <1>1, FS_Interval
  <2>5. n \in Nat
    BY <1>1
  <2>. HIDE DEF begun
  <2>6. /\ IsFiniteSet(begun)
        /\ Cardinality(begun) = Cardinality(1..n) <=> f \in Injection(1..n, begun)
    BY <2>2, <2>4, FS_Surjection
  <2>. QED
    BY <2>3, <2>4, <2>6
<1>6. Distinct(rest)
  BY <1>1, <1>3 DEF Distinct
<1>7. Elements(rest) = Elements(s) \ begun
  <2>1. Elements(rest) \subseteq Elements(s) \ begun
    BY <1>1, <1>2, <1>3 DEF Elements, Distinct
  <2>2. ASSUME NEW i \in 1..Len(s), s[i] \notin begun PROVE s[i] \in Elements(rest)
    <3>1. i \notin 1..n
      BY <1>2, <2>2 DEF Elements
    <3>2. i - n \in 1..(Len(s) - n) /\ n + (i - n) = i
      BY <1>1, <3>1
    <3>3. rest[i - n] = s[i] /\ i - n \in 1..Len(rest)
      BY <1>3, <3>2
    <3>. QED
      BY <3>3 DEF Elements
  <2>. QED
    BY <2>1, <2>2 DEF Elements
<1>. QED
  BY <1>3, <1>4, <1>5, <1>6, <1>7 DEF f, rest

-----------------------------------------------------------------------------
(* What a pump makes of a good list: it hands out its oldest keys, as many *)
(* as handlers are free, and nothing is lost on the way.                   *)
Ready(o, q, p) ==
    /\ o \in Seq(Keys) /\ Distinct(o) /\ q = Elements(o)
    /\ p \subseteq Keys /\ q \cap p = {} /\ Cardinality(p) <= Concurrency

LEMMA PumpFacts ==
    ASSUME NEW on \in BOOLEAN, NEW o, NEW q, NEW p, NEW u \in SUBSET Keys,
           Ready(o, q, p), Pump(on, o, q, p, u)
    PROVE  /\ Ready(order', queued', processing')
           /\ processing' \subseteq p \cup q /\ p \subseteq processing'
           /\ ~on => processing' = p
           /\ unseen' \subseteq Keys
           /\ on /\ order' # <<>> => Cardinality(processing') = Concurrency
           /\ o # <<>> => order' # <<>> \/ processing' # {}
           /\ \A d : u = q \cup d /\ d \cap q = {} => unseen' = queued' \cup d
           /\ queued' = q \ processing'
<1>. DEFINE room  == IF on THEN Concurrency - Cardinality(p) ELSE 0
            n     == Min2(Len(o), room)
            begun == Elements(SubSeq(o, 1, n))
<1>1. /\ order' = SubSeq(o, n + 1, Len(o)) /\ queued' = q \ begun
      /\ processing' = p \cup begun /\ unseen' = u \ begun
  BY DEF Pump
<1>2. /\ IsFiniteSet(p) /\ Cardinality(p) \in Nat /\ Cardinality(p) <= Concurrency
      /\ Concurrency \in Nat
  BY WorkQueueAssumption, FS_Subset, FS_CardinalityType DEF Ready
<1>3. Len(o) \in Nat /\ o \in Seq(Keys) /\ Distinct(o) /\ q = Elements(o)
  BY LenProperties DEF Ready
<1>4. /\ n \in 0..Len(o) /\ n \in Nat
      /\ ~on => n = 0
      /\ Cardinality(p) + n <= Concurrency
      /\ (on /\ n # Len(o)) => Cardinality(p) + n = Concurrency
  BY <1>2, <1>3 DEF Min2
<1>. HIDE DEF n
<1>5. /\ begun \subseteq q /\ IsFiniteSet(begun) /\ Cardinality(begun) = n
      /\ order' \in Seq(Keys) /\ Distinct(order') /\ Len(order') = Len(o) - n
      /\ Elements(order') = q \ begun
  BY <1>1, <1>3, <1>4, TakeFirst
<1>. HIDE DEF begun
<1>6. Cardinality(processing') = Cardinality(p) + n
  <2>1. p \cap begun = {}
    BY <1>5 DEF Ready
  <2>2. Cardinality(p \cup begun) = Cardinality(p) + Cardinality(begun) - Cardinality(p \cap begun)
    BY <1>2, <1>5, FS_Union
  <2>3. Cardinality(p \cap begun) = 0
    BY <2>1, FS_EmptySet
  <2>4. processing' = p \cup begun
    BY <1>1
  <2>. QED
    BY <1>2, <1>4, <1>5, <2>2, <2>3, <2>4
<1>7. q \subseteq Keys
  BY <1>3, LenProperties DEF Elements
<1>8. Ready(order', queued', processing')
  BY <1>1, <1>2, <1>4, <1>5, <1>6, <1>7 DEF Ready
<1>9. processing' \subseteq p \cup q /\ p \subseteq processing' /\ unseen' \subseteq Keys
  BY <1>1, <1>5
<1>10. n = 0 => begun = {}
  BY <1>5, FS_EmptySet
<1>11. ~on => processing' = p
  BY <1>1, <1>4, <1>10
<1>12. on /\ order' # <<>> => Cardinality(processing') = Concurrency
  <2>1. n = Len(o) => order' = <<>>
    BY <1>3, <1>5, EmptySeq
  <2>. QED
    BY <1>4, <1>6, <2>1
<1>13. o # <<>> => order' # <<>> \/ processing' # {}
  <2>1. n = 0 => Len(order') = Len(o)
    BY <1>3, <1>5
  <2>2. n # 0 => begun # {}
    BY <1>5, FS_EmptySet
  <2>3. o # <<>> => Len(o) # 0
    BY <1>3, EmptySeq
  <2>4. order' = <<>> => Len(order') = 0
    BY EmptySeq
  <2>. QED
    BY <1>1, <2>1, <2>2, <2>3, <2>4
<1>14. \A d : u = q \cup d /\ d \cap q = {} => unseen' = queued' \cup d
  BY <1>1, <1>5
<1>15. queued' = q \ processing'
  BY <1>1, <1>5 DEF Ready
<1>. QED
  BY <1>8, <1>9, <1>11, <1>12, <1>13, <1>14, <1>15

(* The list of a good state is one that can be pumped.                     *)
LEMMA InvIsReady ==
    ASSUME QueueInv
    PROVE  /\ Ready(order, queued, processing)
           /\ unseen \subseteq Keys /\ dirty \subseteq processing
           /\ dirty \cap queued = {} /\ Running \in BOOLEAN
           /\ IsFiniteSet(processing) /\ Cardinality(processing) \in Nat
           /\ Concurrency \in Nat \ {0}
<1>1. IsFiniteSet(processing) /\ Cardinality(processing) \in Nat
  BY WorkQueueAssumption, FS_Subset, FS_CardinalityType DEF QueueInv, TypeOK
<1>. QED
  BY <1>1, WorkQueueAssumption
  DEF QueueInv, TypeOK, OnePlacePerKey, Ready, Distinct, Running

(* What is left to show of a step that pumps, or that leaves the list.     *)
Counts ==
    /\ due \in [Keys -> 0..Never] /\ failed \subseteq Keys /\ waiting \in BOOLEAN
    /\ phase \in {"new", "running", "stopping", "stopped"}

LEMMA PumpedIsGood ==
    ASSUME Ready(order, queued, processing)', dirty' \subseteq processing',
           unseen' \subseteq Keys, Counts',
           NoIdleHandler', NoLostTrigger', WaitersHaveCause', NewIsIdle'
    PROVE  QueueInv'
<1>1. order' \in Seq(Keys) /\ queued' = Elements(order') /\ Distinct(order')
  BY DEF Ready
<1>2. queued' \subseteq Keys
  BY <1>1, LenProperties DEF Elements
<1>3. TypeOK'
  BY <1>1, <1>2 DEF TypeOK, Counts, Ready
<1>4. OnePlacePerKey'
  BY <1>1 DEF OnePlacePerKey, Ready, Distinct
<1>. QED
  BY <1>3, <1>4 DEF QueueInv

LEMMA InitGood == ASSUME Init PROVE QueueInv
<1>1. /\ <<>> \in Seq(Keys) /\ Len(<<>>) = 0 /\ Elements(<<>>) = {}
      /\ Cardinality({}) = 0 /\ Concurrency \in Nat
  BY EmptySeq, FS_EmptySet, WorkQueueAssumption DEF Elements
<1>2. TypeOK
  <2>1. Never \in 0..Never
    BY WorkQueueAssumption DEF Never
  <2>. QED
    BY <1>1, <2>1 DEF Init, TypeOK
<1>3. OnePlacePerKey
  BY <1>1 DEF Init, OnePlacePerKey
<1>. QED
  BY <1>2, <1>3
  DEF Init, QueueInv, NoIdleHandler, NoLostTrigger, WaitersHaveCause, NewIsIdle, Running

(* add, or a timer: the part of the step that concerns the list.           *)
LEMMA EnqueueKeeps ==
    ASSUME QueueInv, NEW k \in Keys, Enqueue(k), Counts',
           waiting' = waiting, phase' = phase
    PROVE  QueueInv'
<1>1. /\ Ready(order, queued, processing)
      /\ unseen \subseteq Keys /\ dirty \subseteq processing
      /\ dirty \cap queued = {} /\ Running \in BOOLEAN
  BY InvIsReady
<1>2. /\ NoIdleHandler /\ NoLostTrigger /\ WaitersHaveCause /\ NewIsIdle
  BY DEF QueueInv
<1>3. CASE k \in processing
  <2>1. /\ dirty' = dirty \cup {k} /\ unseen' = unseen \cup {k}
        /\ UNCHANGED <<order, queued, processing>>
    BY <1>3 DEF Enqueue
  <2>2. Ready(order, queued, processing)'
    BY <1>1, <2>1
  <2>3. NoIdleHandler' /\ NoLostTrigger' /\ WaitersHaveCause' /\ NewIsIdle'
    BY <1>2, <2>1 DEF NoIdleHandler, NoLostTrigger, WaitersHaveCause, NewIsIdle, Running
  <2>. QED
    BY <1>1, <1>3, <2>1, <2>2, <2>3, PumpedIsGood
<1>4. CASE k \notin processing /\ k \in queued
  <2>1. unseen' = unseen \cup {k} /\ UNCHANGED <<order, queued, processing, dirty>>
    BY <1>4 DEF Enqueue
  <2>2. Ready(order, queued, processing)'
    BY <1>1, <2>1
  <2>3. NoIdleHandler' /\ NoLostTrigger' /\ WaitersHaveCause' /\ NewIsIdle'
    BY <1>2, <1>4, <2>1 DEF NoIdleHandler, NoLostTrigger, WaitersHaveCause, NewIsIdle, Running
  <2>. QED
    BY <1>1, <2>1, <2>2, <2>3, PumpedIsGood
<1>5. CASE k \notin processing /\ k \notin queued
  <2>. DEFINE o == Append(order, k)
              q == queued \cup {k}
              u == unseen \cup {k}
  <2>1. Pump(Running, o, q, processing, u) /\ dirty' = dirty
    BY <1>5 DEF Enqueue
  <2>2. o \in Seq(Keys) /\ o # <<>> /\ Distinct(o) /\ Elements(o) = q
    BY <1>1, <1>5, AppendIsDistinct DEF Ready
  <2>. HIDE DEF o
  <2>3. Ready(o, q, processing)
    BY <1>1, <1>5, <2>2 DEF Ready
  <2>4. u \subseteq Keys
    BY <1>1
  <2>5. /\ Ready(order', queued', processing')
        /\ processing \subseteq processing' /\ (~Running => processing' = processing)
        /\ unseen' \subseteq Keys
        /\ Running /\ order' # <<>> => Cardinality(processing') = Concurrency
        /\ order' # <<>> \/ processing' # {}
        /\ \A d : u = q \cup d /\ d \cap q = {} => unseen' = queued' \cup d
    BY <1>1, <2>1, <2>2, <2>3, <2>4, PumpFacts
  <2>6. NoLostTrigger => u = q \cup dirty \/ phase \notin {"new", "running"}
    BY <1>1, <1>5 DEF NoLostTrigger
  <2>7. dirty \cap q = {}
    BY <1>1, <1>5
  <2>8. NoLostTrigger'
    BY <1>2, <2>1, <2>5, <2>6, <2>7 DEF NoLostTrigger
  <2>9. NoIdleHandler' /\ WaitersHaveCause'
    BY <2>5 DEF NoIdleHandler, WaitersHaveCause, Running
  <2>10. NewIsIdle'
    BY <1>2, <2>5 DEF NewIsIdle, Running
  <2>. QED
    BY <1>1, <2>1, <2>5, <2>8, <2>9, <2>10, PumpedIsGood
<1>. QED
  BY <1>3, <1>4, <1>5

(* The timers stay within their range.                                     *)
LEMMA DelayTyped ==
    ASSUME due \in [Keys -> 0..Never], NEW k \in Keys, NEW d \in 1..MaxDelay
    PROVE  Delay(k, d) \in [Keys -> 0..Never]
  BY WorkQueueAssumption DEF Delay, Min2, Never

LEMMA InvCounts == ASSUME QueueInv PROVE Counts
  BY DEF QueueInv, TypeOK, Counts

(* The end of a handler.                                                   *)
LEMMA FinishKeeps ==
    ASSUME QueueInv, NEW k \in processing, Finish(k),
           due' \in [Keys -> 0..Never], failed' \subseteq Keys, phase' = phase
    PROVE  QueueInv'
<1>1. /\ Ready(order, queued, processing)
      /\ unseen \subseteq Keys /\ dirty \subseteq processing
      /\ dirty \cap queued = {} /\ Running \in BOOLEAN
      /\ IsFiniteSet(processing) /\ Cardinality(processing) \in Nat
      /\ Concurrency \in Nat \ {0}
  BY InvIsReady
<1>2. /\ NoIdleHandler /\ NoLostTrigger /\ WaitersHaveCause /\ NewIsIdle /\ k \in Keys
  BY DEF QueueInv, TypeOK
<1>. DEFINE again == k \in dirty /\ Running
            o == IF again THEN Append(order, k) ELSE order
            q == IF again THEN queued \cup {k} ELSE queued
            p == processing \ {k}
<1>3. /\ dirty' = dirty \ {k} /\ Pump(Running, o, q, p, unseen)
      /\ waiting' = (waiting /\ ~(order' = <<>> /\ processing' = {}))
  BY DEF Finish
<1>4. Ready(o, q, p)
  <2>1. /\ order \in Seq(Keys) /\ Distinct(order) /\ queued = Elements(order)
        /\ processing \subseteq Keys /\ queued \cap processing = {}
        /\ Cardinality(processing) <= Concurrency
    BY <1>1 DEF Ready
  <2>2. /\ IsFiniteSet(p) /\ Cardinality(p) <= Concurrency
    <3>1. IsFiniteSet(p) /\ Cardinality(p) = Cardinality(processing) - 1
      BY <1>1, FS_RemoveElement
    <3>. QED
      BY <1>1, <2>1, <3>1
  <2>3. k \notin Elements(order)
    BY <2>1
  <2>4. /\ Append(order, k) \in Seq(Keys) /\ Distinct(Append(order, k))
        /\ Elements(Append(order, k)) = queued \cup {k}
    BY <1>2, <2>1, <2>3, AppendIsDistinct
  <2>. QED
    BY <2>1, <2>2, <2>3, <2>4 DEF Ready
<1>. HIDE DEF o
<1>5. /\ Ready(order', queued', processing')
      /\ p \subseteq processing' /\ (~Running => processing' = p)
      /\ unseen' \subseteq Keys
      /\ Running /\ order' # <<>> => Cardinality(processing') = Concurrency
      /\ \A d : unseen = q \cup d /\ d \cap q = {} => unseen' = queued' \cup d
  BY <1>1, <1>3, <1>4, PumpFacts
<1>6. dirty' \subseteq processing'
  BY <1>1, <1>3, <1>5
<1>7. phase # "new"
  BY <1>2 DEF NewIsIdle
<1>8. NoLostTrigger'
  <2>1. CASE Running
    <3>1. unseen = q \cup dirty' /\ dirty' \cap q = {}
      BY <1>1, <1>2, <1>3, <2>1 DEF NoLostTrigger, Running
    <3>. QED
      BY <1>5, <3>1 DEF NoLostTrigger
  <2>2. CASE ~Running
    BY <1>7, <2>2 DEF NoLostTrigger, Running
  <2>. QED
    BY <2>1, <2>2
<1>9. NoIdleHandler' /\ WaitersHaveCause' /\ NewIsIdle'
  BY <1>3, <1>5, <1>7 DEF NoIdleHandler, WaitersHaveCause, NewIsIdle, Running
<1>10. Counts'
  BY <1>3, InvCounts DEF Counts
<1>. QED
  BY <1>5, <1>6, <1>8, <1>9, <1>10, PumpedIsGood

(* A step that touches neither the list nor the handlers.                  *)
LEMMA QuietKeeps ==
    ASSUME QueueInv, UNCHANGED <<order, queued, processing, dirty, unseen>>, Counts',
           waiting' => waiting \/ order # <<>> \/ processing # {},
           phase' = "running" => phase = "running", phase' # "new" \/ phase = "new"
    PROVE  QueueInv'
<1>1. Ready(order, queued, processing) /\ unseen \subseteq Keys /\ dirty \subseteq processing
  BY InvIsReady
<1>2. NoIdleHandler' /\ NoLostTrigger' /\ WaitersHaveCause' /\ NewIsIdle'
  BY DEF QueueInv, NoIdleHandler, NoLostTrigger, WaitersHaveCause, NewIsIdle, Running
<1>3. Ready(order, queued, processing)'
  BY <1>1
<1>. QED
  BY <1>1, <1>2, <1>3, PumpedIsGood

LEMMA StartKeeps == ASSUME QueueInv, Start PROVE QueueInv'
<1>1. /\ Ready(order, queued, processing)
      /\ unseen \subseteq Keys /\ dirty \subseteq processing /\ dirty \cap queued = {}
  BY InvIsReady
<1>2. NoLostTrigger /\ WaitersHaveCause /\ phase = "new" /\ phase' = "running"
  BY DEF QueueInv, Start
<1>3. Pump(TRUE, order, queued, processing, unseen) /\ UNCHANGED <<dirty, due, failed, waiting>>
  BY DEF Start
<1>4. /\ Ready(order', queued', processing')
      /\ processing \subseteq processing' /\ unseen' \subseteq Keys
      /\ order' # <<>> => Cardinality(processing') = Concurrency
      /\ order # <<>> => order' # <<>> \/ processing' # {}
      /\ \A d : unseen = queued \cup d /\ d \cap queued = {} => unseen' = queued' \cup d
  <2>1. PICK on \in BOOLEAN : on = TRUE
    OBVIOUS
  <2>2. Pump(on, order, queued, processing, unseen)
    BY <1>3, <2>1
  <2>3. /\ Ready(order', queued', processing')
        /\ processing \subseteq processing' /\ unseen' \subseteq Keys
        /\ on /\ order' # <<>> => Cardinality(processing') = Concurrency
        /\ order # <<>> => order' # <<>> \/ processing' # {}
        /\ \A d : unseen = queued \cup d /\ d \cap queued = {} => unseen' = queued' \cup d
    BY <1>1, <2>2, PumpFacts
  <2>. QED
    BY <2>1, <2>3
<1>5. NoLostTrigger'
  BY <1>1, <1>2, <1>3, <1>4 DEF NoLostTrigger
<1>6. NoIdleHandler' /\ WaitersHaveCause' /\ NewIsIdle'
  BY <1>2, <1>3, <1>4 DEF NoIdleHandler, WaitersHaveCause, NewIsIdle
<1>7. Counts'
  BY <1>2, <1>3, InvCounts DEF Counts
<1>. QED
  BY <1>1, <1>3, <1>4, <1>5, <1>6, <1>7, PumpedIsGood

LEMMA StepKeeps == ASSUME QueueInv, [Next]_vars PROVE QueueInv'
<1>1. Counts
  BY InvCounts
<1>2. ASSUME NEW k \in Keys, Add(k) PROVE QueueInv'
  <2>1. Counts'
    BY <1>1, <1>2 DEF Counts, Add
  <2>. QED
    BY <1>2, <2>1, EnqueueKeeps DEF Add
<1>3. ASSUME NEW k \in Keys, AddAfter(k) PROVE QueueInv'
  <2>1. Counts'
    BY <1>1, <1>3, DelayTyped DEF Counts, AddAfter
  <2>. QED
    BY <1>3, <2>1, QuietKeeps DEF AddAfter
<1>4. ASSUME NEW k \in Keys, Fire(k) PROVE QueueInv'
  <2>1. due' \in [Keys -> 0..Never]
    BY <1>1, <1>4, WorkQueueAssumption DEF Counts, Fire, Never
  <2>2. Counts'
    BY <1>1, <1>4, <2>1 DEF Counts, Fire
  <2>. QED
    BY <1>4, <2>2, EnqueueKeeps DEF Fire
<1>5. ASSUME NEW k \in Keys, Succeed(k) PROVE QueueInv'
  BY <1>1, <1>5, FinishKeeps DEF Succeed, Counts
<1>6. ASSUME NEW k \in Keys, Fail(k) PROVE QueueInv'
  <2>1. due' \in [Keys -> 0..Never]
    BY <1>1, <1>6, DelayTyped DEF Counts, Fail
  <2>. QED
    BY <1>1, <1>6, <2>1, FinishKeeps DEF Fail, Counts
<1>7. CASE Tick
  <2>1. \A k \in Keys : due[k] \in 0..Never /\ due[k] # 0
    BY <1>1, <1>7 DEF Counts, Tick
  <2>2. due' \in [Keys -> 0..Never]
    BY <1>7, <2>1, WorkQueueAssumption DEF Tick, Never
  <2>3. Counts'
    BY <1>1, <1>7, <2>2 DEF Counts, Tick
  <2>. QED
    BY <1>7, <2>3, QuietKeeps DEF Tick
<1>8. CASE Start
  BY <1>8, StartKeeps
<1>9. CASE Stop
  <2>1. due' \in [Keys -> 0..Never]
    BY <1>9, WorkQueueAssumption DEF Stop, Never
  <2>2. Counts'
    BY <1>1, <1>9, <2>1 DEF Counts, Stop
  <2>. QED
    BY <1>9, <2>2, QuietKeeps DEF Stop
<1>10. CASE StopReturns
  <2>1. Counts'
    BY <1>1, <1>10 DEF Counts, StopReturns
  <2>. QED
    BY <1>10, <2>1, QuietKeeps DEF StopReturns
<1>11. CASE Drained
  <2>1. Counts'
    BY <1>1, <1>11 DEF Counts, Drained
  <2>. QED
    BY <1>11, <2>1, QuietKeeps DEF Drained
<1>12. CASE UNCHANGED vars
  <2>1. Counts'
    BY <1>1, <1>12 DEF Counts, vars
  <2>. QED
    BY <1>12, <2>1, QuietKeeps DEF vars
<1>. QED
  BY <1>2, <1>3, <1>4, <1>5, <1>6, <1>7, <1>8, <1>9, <1>10, <1>11, <1>12 DEF Next

(* The parts of the invariant hold throughout.                             *)
THEOREM QueueIsGood == Spec => []QueueInv
  BY InitGood, StepKeeps, PTL DEF Spec

-----------------------------------------------------------------------------
(* QueueState keeps its shape.                                             *)
THEOREM TypeCorrect == Spec => []TypeOK
<1>1. QueueInv => TypeOK
  BY DEF QueueInv
<1>. QED
  BY <1>1, QueueIsGood, PTL

(* Whatever mixture of adds, timers, failures and ends of handlers: list   *)
(* and set agree, no key is handled twice at once, and the limit holds.    *)
THEOREM OnePlaceAlways == Spec => []OnePlacePerKey
<1>1. QueueInv => OnePlacePerKey
  BY DEF QueueInv
<1>. QED
  BY <1>1, QueueIsGood, PTL

(* A trigger that arrives while its key is handled, listed or waiting for  *)
(* a timer is always still owed a handler that begins after it.            *)
THEOREM TriggersAreKept == Spec => []NoLostTrigger
<1>1. QueueInv => NoLostTrigger
  BY DEF QueueInv
<1>. QED
  BY <1>1, QueueIsGood, PTL

(* pump() is called wherever it has to be: a running queue is busy to its  *)
(* limit as long as anything is listed.                                    *)
THEOREM HandlersAreBusy == Spec => []NoIdleHandler
<1>1. QueueInv => NoIdleHandler
  BY DEF QueueInv
<1>. QED
  BY <1>1, QueueIsGood, PTL

(* Nobody awaits drained() on a queue that is already empty.               *)
THEOREM WaitersAreAnswered == Spec => []WaitersHaveCause
<1>1. QueueInv => WaitersHaveCause
  BY DEF QueueInv
<1>. QED
  BY <1>1, QueueIsGood, PTL

(* After stop() no handler begins any more: neither the end of one that    *)
(* was in flight, nor a timer or an add starts another.                    *)
THEOREM StopIsQuiet == Spec => StoppedIsQuiet
<1>1. ASSUME QueueInv, Next, phase = "stopping" \/ phase = "stopped"
      PROVE  processing' \subseteq processing
  <2>1. /\ Ready(order, queued, processing)
        /\ unseen \subseteq Keys /\ ~Running
    BY <1>1, InvIsReady DEF Running
  <2>2. ASSUME NEW o, NEW q, NEW p, NEW u, Pump(Running, o, q, p, u),
               o \in Seq(Keys), p \subseteq processing
        PROVE  processing' \subseteq processing
    <3>1. Min2(Len(o), 0) = 0
      BY <2>2, LenProperties DEF Min2
    <3>2. SubSeq(o, 1, 0) = <<>> /\ Len(<<>>) = 0
      BY SubSeqEmpty, EmptySeq
    <3>3. Elements(SubSeq(o, 1, Min2(Len(o), 0))) = {}
      BY <3>1, <3>2 DEF Elements
    <3>. QED
      BY <2>1, <2>2, <3>3 DEF Pump
  <2>3. order \in Seq(Keys) /\ processing \subseteq Keys
    BY <2>1 DEF Ready
  <2>4. ASSUME NEW k \in Keys, Enqueue(k) PROVE processing' \subseteq processing
    <3>1. CASE k \in processing \/ k \in queued
      BY <2>4, <3>1 DEF Enqueue
    <3>2. CASE k \notin processing /\ k \notin queued
      <4>1. Pump(Running, Append(order, k), queued \cup {k}, processing, unseen \cup {k})
        BY <2>4, <3>2 DEF Enqueue
      <4>2. Append(order, k) \in Seq(Keys)
        BY <2>3, AppendProperties
      <4>. QED
        BY <2>2, <4>1, <4>2
    <3>. QED
      BY <3>1, <3>2
  <2>5. ASSUME NEW k \in Keys, Finish(k) PROVE processing' \subseteq processing
    <3>1. Pump(Running, order, queued, processing \ {k}, unseen)
      BY <2>1, <2>5 DEF Finish
    <3>2. processing \ {k} \subseteq processing
      OBVIOUS
    <3>. QED
      BY <2>2, <2>3, <3>1, <3>2
  <2>6. ASSUME NEW k \in Keys, Add(k) \/ AddAfter(k) \/ Fire(k) \/ Succeed(k) \/ Fail(k)
        PROVE  processing' \subseteq processing
    BY <2>4, <2>5, <2>6 DEF Add, AddAfter, Fire, Succeed, Fail
  <2>. QED
    BY <1>1, <2>6 DEF Next, Tick, Start, Stop, StopReturns, Drained
<1>2. QueueInv /\ [Next]_vars
        => [phase = "stopping" \/ phase = "stopped" => processing' \subseteq processing]_vars
  BY <1>1
<1>. QED
  BY <1>2, QueueIsGood, PTL DEF Spec, StoppedIsQuiet

-----------------------------------------------------------------------------
(* The abstract queue counts with the Cardinality of its own module.       *)
LEMMA CountsAlike == ASSUME NEW S PROVE Promise!Cardinality(S) = Cardinality(S)
  BY DEF Promise!Cardinality, Cardinality

(* The refinement.  A pump begins what the abstract queue may begin, with  *)
(* d the keys that stay dirty.                                             *)
LEMMA PumpBegins ==
    ASSUME NEW on \in BOOLEAN, NEW o, NEW q, NEW p, NEW u \in SUBSET Keys,
           Ready(o, q, p), Pump(on, o, q, p, u), dirty' \subseteq p
    PROVE  Promise!Begin(on, q \cup dirty', p)
<1>. DEFINE S == processing' \ p
<1>1. /\ Ready(order', queued', processing')
      /\ processing' \subseteq p \cup q /\ p \subseteq processing'
      /\ ~on => processing' = p
      /\ on /\ order' # <<>> => Cardinality(processing') = Concurrency
      /\ queued' = q \ processing'
  BY PumpFacts
<1>2. q \cap p = {}
  BY DEF Ready
<1>3. S \in SUBSET ((q \cup dirty') \ p) /\ (queued \cup dirty)' = (q \cup dirty') \ S
  BY <1>1, <1>2
<1>4. processing' = p \cup S /\ Cardinality(processing') <= Concurrency
  BY <1>1 DEF Ready
<1>5. on => (queued \cup dirty)' \subseteq processing' \/ Cardinality(processing') = Concurrency
  <2>1. CASE on /\ order' = <<>>
    <3>1. queued' = {}
      BY <1>1, <2>1, EmptySeq DEF Ready, Elements
    <3>. QED
      BY <1>1, <3>1
  <2>. QED
    BY <1>1, <2>1
<1>6. ~on => S = {}
  BY <1>1
<1>. HIDE DEF S
<1>7. \E T \in SUBSET ((q \cup dirty') \ p) :
        /\ queued' \cup dirty' = (q \cup dirty') \ T /\ processing' = p \cup T
        /\ Cardinality(processing') <= Concurrency
        /\ IF on THEN queued' \cup dirty' \subseteq processing'
                       \/ Cardinality(processing') = Concurrency
                 ELSE T = {}
  BY <1>3, <1>4, <1>5, <1>6, Zenon
<1>. QED
  BY <1>7, CountsAlike DEF Promise!Begin

(* A trigger of a key that is handled or listed: nothing has to begin,     *)
(* since no handler was idle.                                              *)
LEMMA NothingBegins ==
    ASSUME QueueInv, NEW k, UNCHANGED <<order, queued, processing>>,
           (queued \cup dirty)' = (queued \cup dirty) \cup {k}, k \in processing \cup queued
    PROVE  Promise!Begin(Running, (queued \cup dirty) \cup {k}, processing)
<1>1. Ready(order, queued, processing) /\ dirty \subseteq processing
  BY InvIsReady
<1>2. Running => (queued \cup dirty)' \subseteq processing' \/ Cardinality(processing') = Concurrency
  <2>1. CASE order = <<>>
    <3>1. queued = {}
      BY <1>1, <2>1, EmptySeq DEF Ready, Elements
    <3>. QED
      BY <1>1, <3>1
  <2>2. CASE order # <<>>
    BY <2>2 DEF QueueInv, NoIdleHandler
  <2>. QED
    BY <2>1, <2>2
<1>3. Cardinality(processing') <= Concurrency
  BY <1>1 DEF Ready
<1>4. /\ {} \in SUBSET (((queued \cup dirty) \cup {k}) \ processing)
      /\ (queued \cup dirty)' = ((queued \cup dirty) \cup {k}) \ {}
      /\ processing' = processing \cup {}
  OBVIOUS
<1>5. \E T \in SUBSET (((queued \cup dirty) \cup {k}) \ processing) :
        /\ queued' \cup dirty' = ((queued \cup dirty) \cup {k}) \ T
        /\ processing' = processing \cup T
        /\ Cardinality(processing') <= Concurrency
        /\ IF Running THEN queued' \cup dirty' \subseteq processing'
                            \/ Cardinality(processing') = Concurrency
                      ELSE T = {}
  BY <1>2, <1>3, <1>4, Zenon
<1>. QED
  BY <1>5, CountsAlike DEF Promise!Begin

LEMMA EnqueueBegins ==
    ASSUME QueueInv, NEW k \in Keys, Enqueue(k)
    PROVE  Promise!Begin(Running, (queued \cup dirty) \cup {k}, processing)
<1>1. /\ Ready(order, queued, processing)
      /\ unseen \subseteq Keys /\ dirty \subseteq processing /\ Running \in BOOLEAN
  BY InvIsReady
<1>2. CASE k \in processing \/ k \in queued
  BY <1>2, NothingBegins DEF Enqueue
<1>3. CASE k \notin processing /\ k \notin queued
  <2>. DEFINE o == Append(order, k)
              q == queued \cup {k}
              u == unseen \cup {k}
  <2>1. Pump(Running, o, q, processing, u) /\ dirty' = dirty
    BY <1>3 DEF Enqueue
  <2>2. o \in Seq(Keys) /\ Distinct(o) /\ Elements(o) = q
    BY <1>1, <1>3, AppendIsDistinct DEF Ready
  <2>. HIDE DEF o
  <2>3. Ready(o, q, processing)
    BY <1>1, <1>3, <2>2 DEF Ready
  <2>4. Promise!Begin(Running, q \cup dirty', processing)
    BY <1>1, <2>1, <2>3, PumpBegins
  <2>5. q \cup dirty' = (queued \cup dirty) \cup {k}
    BY <2>1
  <2>. QED
    BY <2>4, <2>5
<1>. QED
  BY <1>2, <1>3

(* The end of a handler as it is found by the pump.                        *)
LEMMA FinishReady ==
    ASSUME QueueInv, NEW k \in processing
    PROVE  LET again == k \in dirty /\ Running
               o == IF again THEN Append(order, k) ELSE order
               q == IF again THEN queued \cup {k} ELSE queued
           IN  Ready(o, q, processing \ {k})
<1>1. /\ Ready(order, queued, processing)
      /\ IsFiniteSet(processing) /\ Cardinality(processing) \in Nat
      /\ Concurrency \in Nat \ {0} /\ k \in Keys
  BY InvIsReady DEF QueueInv, TypeOK
<1>2. /\ order \in Seq(Keys) /\ Distinct(order) /\ queued = Elements(order)
      /\ processing \subseteq Keys /\ queued \cap processing = {}
      /\ Cardinality(processing) <= Concurrency
  BY <1>1 DEF Ready
<1>3. Cardinality(processing \ {k}) = Cardinality(processing) - 1
  BY <1>1, FS_RemoveElement
<1>4. Cardinality(processing \ {k}) <= Concurrency
  BY <1>1, <1>2, <1>3
<1>5. /\ Append(order, k) \in Seq(Keys) /\ Distinct(Append(order, k))
      /\ Elements(Append(order, k)) = queued \cup {k}
  BY <1>1, <1>2, AppendIsDistinct
<1>. QED
  BY <1>2, <1>4, <1>5 DEF Ready

LEMMA FinishReturns ==
    ASSUME QueueInv, NEW k \in processing, Finish(k)
    PROVE  Promise!Begin(Running, IF Running THEN queued \cup dirty
                                             ELSE (queued \cup dirty) \ {k},
                         processing \ {k})
<1>1. /\ Ready(order, queued, processing)
      /\ unseen \subseteq Keys /\ dirty \subseteq processing
      /\ dirty \cap queued = {} /\ Running \in BOOLEAN
  BY InvIsReady
<1>. DEFINE again == k \in dirty /\ Running
            o == IF again THEN Append(order, k) ELSE order
            q == IF again THEN queued \cup {k} ELSE queued
            p == processing \ {k}
<1>2. dirty' = dirty \ {k} /\ Pump(Running, o, q, p, unseen)
  BY DEF Finish
<1>3. Ready(o, q, p)
  BY FinishReady
<1>. HIDE DEF o
<1>4. dirty' \subseteq p
  BY <1>1, <1>2
<1>5. Promise!Begin(Running, q \cup dirty', p)
  BY <1>1, <1>2, <1>3, <1>4, PumpBegins
<1>6. k \notin queued
  BY <1>1 DEF Ready
<1>7. q \cup dirty' = IF Running THEN queued \cup dirty ELSE (queued \cup dirty) \ {k}
  BY <1>2, <1>6
<1>. QED
  BY <1>5, <1>7

(* The abstract names of a state.                                          *)
Timed == {k \in Keys : due[k] # Never}

ModeOf == CASE phase = "running"  -> "open"
            [] phase = "stopping" -> "closing"
            [] phase = "stopped"  -> "closed"
            [] OTHER              -> phase

LEMMA ModeIsOpen == ASSUME TypeOK PROVE (ModeOf = "open") = Running
  BY DEF TypeOK, ModeOf, Running

LEMMA DelayPutsOff ==
    ASSUME due \in [Keys -> 0..Never], NEW k \in Keys, NEW d \in 1..MaxDelay,
           due' = Delay(k, d)
    PROVE  Timed' = Timed \cup {k}
<1>1. due'[k] # Never /\ \A h \in Keys \ {k} : due'[h] = due[h]
  BY WorkQueueAssumption DEF Delay, Min2, Never
<1>. QED
  BY <1>1 DEF Timed, Never

(* Every step of the queue is one of the abstract queue, or none.          *)
LEMMA StepIsAllowed == ASSUME QueueInv, [Next]_vars PROVE [Promise!ANext]_(Promise!dvars)
<1>. USE DEF Timed, ModeOf
<1>1. /\ TypeOK /\ (ModeOf = "open") = Running /\ due \in [Keys -> 0..Never]
  BY ModeIsOpen DEF QueueInv, TypeOK
<1>2. ASSUME NEW k \in Keys, Add(k) PROVE Promise!Trigger(k)
  <2>1. Promise!Begin(Running, (queued \cup dirty) \cup {k}, processing)
    BY <1>2, EnqueueBegins DEF Add
  <2>2. Timed' = Timed /\ ModeOf' = ModeOf
    BY <1>2 DEF Add
  <2>. QED
    BY <1>1, <2>1, <2>2 DEF Promise!Trigger
<1>3. ASSUME NEW k \in Keys, AddAfter(k) PROVE Promise!PutOff(k)
  <2>1. Timed' = Timed \cup {k}
    BY <1>1, <1>3, DelayPutsOff DEF AddAfter
  <2>. QED
    BY <1>3, <2>1 DEF AddAfter, Promise!PutOff
<1>4. ASSUME NEW k \in Keys, Fire(k) PROVE Promise!ComeDue(k)
  <2>1. Promise!Begin(Running, (queued \cup dirty) \cup {k}, processing)
    BY <1>4, EnqueueBegins DEF Fire
  <2>2. k \in Timed /\ Timed' = Timed \ {k} /\ ModeOf' = ModeOf
    BY <1>1, <1>4, WorkQueueAssumption DEF Fire, Never
  <2>. QED
    BY <1>1, <2>1, <2>2 DEF Promise!ComeDue
<1>5. ASSUME NEW k \in Keys, Succeed(k) PROVE Promise!ReturnWell(k)
  <2>1. Promise!Begin(Running, IF Running THEN queued \cup dirty
                                          ELSE (queued \cup dirty) \ {k},
                      processing \ {k})
    BY <1>5, FinishReturns DEF Succeed
  <2>2. Timed' = Timed /\ ModeOf' = ModeOf /\ k \in processing
    BY <1>5 DEF Succeed
  <2>. QED
    BY <1>1, <2>1, <2>2 DEF Promise!ReturnWell, Promise!Return
<1>6. ASSUME NEW k \in Keys, Fail(k) PROVE Promise!ReturnIll(k)
  <2>1. Promise!Begin(Running, IF Running THEN queued \cup dirty
                                          ELSE (queued \cup dirty) \ {k},
                      processing \ {k})
    BY <1>6, FinishReturns DEF Fail
  <2>2. /\ ModeOf' = ModeOf /\ k \in processing
        /\ Timed' = IF Running THEN Timed \cup {k} ELSE Timed
    <3>1. CASE Running
      BY <1>1, <1>6, <3>1, DelayPutsOff DEF Fail
    <3>2. CASE ~Running
      BY <1>6, <3>2 DEF Fail
    <3>. QED
      BY <1>6, <3>1, <3>2 DEF Fail
  <2>. QED
    BY <1>1, <2>1, <2>2 DEF Promise!ReturnIll, Promise!Return
<1>7. ASSUME Tick PROVE UNCHANGED Promise!dvars
  <2>1. \A k \in Keys : due[k] \in 0..Never /\ due[k] # 0
    BY <1>1, <1>7 DEF Tick
  <2>2. Timed' = Timed
    BY <1>7, <2>1, WorkQueueAssumption DEF Tick, Never
  <2>. QED
    BY <1>7, <2>2 DEF Tick, Promise!dvars
<1>8. ASSUME Start PROVE Promise!Open
  <2>1. /\ Ready(order, queued, processing)
        /\ unseen \subseteq Keys /\ dirty \subseteq processing
    BY InvIsReady
  <2>2. PICK on \in BOOLEAN : on = TRUE
    OBVIOUS
  <2>3. Pump(on, order, queued, processing, unseen) /\ dirty' \subseteq processing
    BY <1>8, <2>1, <2>2 DEF Start
  <2>4. Promise!Begin(on, queued \cup dirty', processing)
    BY <2>1, <2>3, PumpBegins
  <2>5. Promise!Begin(TRUE, queued \cup dirty, processing)
    BY <1>8, <2>2, <2>4 DEF Start
  <2>. QED
    BY <1>8, <2>5 DEF Start, Promise!Open
<1>9. ASSUME Stop PROVE Promise!Close
  <2>1. Timed' = {}
    BY <1>9 DEF Stop
  <2>. QED
    BY <1>9, <2>1 DEF Stop, Promise!Close
<1>10. ASSUME StopReturns PROVE Promise!Closed
  BY <1>10 DEF StopReturns, Promise!Closed
<1>11. ASSUME Drained \/ UNCHANGED vars PROVE UNCHANGED Promise!dvars
  BY <1>11 DEF Drained, vars, Promise!dvars
<1>12. ASSUME NEW k \in Keys, Add(k) \/ AddAfter(k) \/ Fire(k) \/ Succeed(k) \/ Fail(k)
       PROVE  Promise!ANext
  BY <1>2, <1>3, <1>4, <1>5, <1>6, <1>12 DEF Promise!ANext
<1>. QED
  BY <1>7, <1>8, <1>9, <1>10, <1>11, <1>12 DEF Next, Promise!ANext

(* The list, the dirty marks and the timers together are the set of due    *)
(* keys a reconciler takes the queue for.                                  *)
THEOREM QueueKeepsPromise == Spec => KeepsPromise
<1>1. Init => Promise!AInit
  <2>1. Init => {k \in Keys : due[k] # Never} = {}
    BY DEF Init
  <2>. QED
    BY <2>1 DEF Init, Promise!AInit
<1>2. QueueInv /\ [Next]_vars => [Promise!ANext]_(Promise!dvars)
  BY StepIsAllowed
<1>. QED
  BY <1>1, <1>2, QueueIsGood, PTL DEF Spec, KeepsPromise, Promise!ASpec

(* A failure always comes back: as long as the queue runs, a key whose     *)
(* last handler failed has a timer, is listed, or is being handled.        *)
FailuresAreKept ==
    Running => \A k \in failed : due[k] # Never \/ k \in queued \cup processing

FailInv == FailuresAreKept /\ (phase = "new" => failed = {})

(* Nothing that was due or in hand is lost when handlers begin.            *)
LEMMA BeginLosesNothing ==
    ASSUME NEW open, NEW d, NEW b, Promise!Begin(open, d, b)
    PROVE  d \cup b \subseteq (queued \cup dirty)' \cup processing'
  BY DEF Promise!Begin

LEMMA FailuresStay ==
    ASSUME QueueInv, FailInv, [Next]_vars, QueueInv'
    PROVE  FailInv'
<1>. DEFINE kept == Timed \cup queued \cup processing
<1>1. /\ due \in [Keys -> 0..Never] /\ failed \subseteq Keys /\ failed' \subseteq Keys
      /\ dirty \subseteq processing /\ (dirty \subseteq processing)'
      /\ phase = "new" => processing = {}
  BY DEF QueueInv, TypeOK, OnePlacePerKey, NewIsIdle
<1>2. FailuresAreKept = (Running => failed \subseteq kept)
  BY <1>1 DEF FailuresAreKept, Timed
<1>3. FailuresAreKept' = (Running' => failed' \subseteq kept')
  BY <1>1 DEF FailuresAreKept, Timed
<1>4. ASSUME NEW k \in Keys, Enqueue(k)
      PROVE  queued \cup processing \cup {k} \subseteq queued' \cup processing'
  <2>1. Promise!Begin(Running, (queued \cup dirty) \cup {k}, processing)
    BY <1>4, EnqueueBegins
  <2>2. ((queued \cup dirty) \cup {k}) \cup processing \subseteq (queued \cup dirty)' \cup processing'
    BY <2>1, BeginLosesNothing
  <2>. QED
    BY <1>1, <2>2
<1>5. ASSUME NEW k \in processing, Finish(k)
      PROVE  (queued \cup processing) \ {k} \subseteq queued' \cup processing'
  <2>. DEFINE d == IF Running THEN queued \cup dirty ELSE (queued \cup dirty) \ {k}
  <2>1. Promise!Begin(Running, d, processing \ {k})
    BY <1>5, FinishReturns
  <2>2. d \cup (processing \ {k}) \subseteq (queued \cup dirty)' \cup processing'
    BY <2>1, BeginLosesNothing
  <2>. QED
    BY <1>1, <2>2
<1>6. ASSUME NEW k \in Keys, Add(k) PROVE FailInv'
  <2>1. Timed' = Timed /\ failed' = failed /\ phase' = phase
    BY <1>6 DEF Add, Timed
  <2>2. kept \subseteq kept'
    BY <1>4, <1>6, <2>1 DEF Add
  <2>. QED
    BY <1>2, <1>3, <2>1, <2>2 DEF FailInv, Running
<1>7. ASSUME NEW k \in Keys, AddAfter(k) PROVE FailInv'
  <2>1. Timed' = Timed \cup {k}
    BY <1>1, <1>7, DelayPutsOff DEF AddAfter
  <2>. QED
    BY <1>2, <1>3, <1>7, <2>1 DEF AddAfter, FailInv, Running
<1>8. ASSUME NEW k \in Keys, Fire(k) PROVE FailInv'
  <2>1. Timed' = Timed \ {k} /\ failed' = failed /\ phase' = phase
    BY <1>1, <1>8 DEF Fire, Timed
  <2>2. kept \subseteq kept'
    BY <1>4, <1>8, <2>1 DEF Fire
  <2>. QED
    BY <1>2, <1>3, <2>1, <2>2 DEF FailInv, Running
<1>9. ASSUME NEW k \in Keys, Succeed(k) PROVE FailInv'
  <2>1. Timed' = Timed /\ failed' = failed \ {k} /\ phase' = phase /\ k \in processing
    BY <1>9 DEF Succeed, Timed
  <2>2. kept \ {k} \subseteq kept'
    BY <1>5, <1>9, <2>1 DEF Succeed
  <2>. QED
    BY <1>2, <1>3, <2>1, <2>2 DEF FailInv, Running
<1>10. ASSUME NEW k \in Keys, Fail(k) PROVE FailInv'
  <2>1. failed' = failed \cup {k} /\ phase' = phase /\ k \in processing
    BY <1>10 DEF Fail
  <2>2. Running => Timed' = Timed \cup {k}
    BY <1>1, <1>10, DelayPutsOff DEF Fail
  <2>3. Running => kept \cup {k} \subseteq kept'
    BY <1>5, <1>10, <2>1, <2>2 DEF Fail
  <2>. QED
    BY <1>1, <1>2, <1>3, <2>1, <2>3 DEF FailInv, Running
<1>11. ASSUME Tick PROVE FailInv'
  <2>1. \A k \in Keys : due[k] \in 0..Never /\ due[k] # 0
    BY <1>1, <1>11 DEF Tick
  <2>2. Timed' = Timed
    BY <1>11, <2>1, WorkQueueAssumption DEF Tick, Never, Timed
  <2>. QED
    BY <1>2, <1>3, <1>11, <2>2 DEF Tick, FailInv, Running
<1>12. ASSUME Start PROVE FailInv'
  BY <1>12 DEF Start, FailInv, FailuresAreKept
<1>13. ASSUME Stop \/ StopReturns PROVE FailInv'
  BY <1>13 DEF Stop, StopReturns, FailInv, FailuresAreKept, Running
<1>14. ASSUME Drained \/ UNCHANGED vars PROVE FailInv'
  BY <1>14 DEF Drained, vars, FailInv, FailuresAreKept, Running
<1>. QED
  BY <1>6, <1>7, <1>8, <1>9, <1>10, <1>11, <1>12, <1>13, <1>14 DEF Next

(* The safety half of FailedIsRetried: no failure of a running queue is    *)
(* ever without something that brings its key back.                        *)
THEOREM FailuresComeBack == Spec => []FailuresAreKept
<1>1. Init => FailInv
  BY DEF Init, FailInv, FailuresAreKept, Running
<1>2. QueueInv /\ QueueInv' /\ FailInv /\ [Next]_vars => FailInv'
  BY FailuresStay
<1>3. FailInv => FailuresAreKept
  BY DEF FailInv
<1>. QED
  BY <1>1, <1>2, <1>3, QueueIsGood, PTL DEF Spec
=============================================================================
