------------------------ MODULE EventDeliveryProofs ------------------------
(* Theorems about the delivery of an event, for any subscriptions,         *)
(* processes, attempts, replays, changes of the hold and faults.           *)
EXTENDS EventDelivery, TLAPS

Writing == {"holding", "beginning", "pushing"}

(* A callback lives in a running process and was given a token of its job. *)
Named(c) ==
    /\ c.proc \in alive /\ job[c.d].state # "none"
    /\ c.token <= job[c.d].token

(* The admission lock keeps the project's content unsealed.                *)
Guarded(c) == c.guard => phase \in {"open", "deleting"}

(* The record of the delivery in flight names the callback that owns it.   *)
AtWork(c) ==
    Owning(c) => /\ work[c.d].state = "running" /\ work[c.d].generation = c.generation
                 /\ work[c.d].owner = c.proc /\ phase # "purged"

Fresh(c) == c.pc \in Writing => c.snap = row[c.d] /\ row[c.d].state \in RESUMABLE

(* A callback reports success only of a delivery that needs no further     *)
(* attempt, at least as long as the job is its own.                        *)
RightlyOk(c) ==
    c.ok => /\ c.pc \in {"exiting", "replying"}
            /\ Current(c) => row[c.d].state \notin RESUMABLE

Good(c) == Named(c) /\ Guarded(c) /\ AtWork(c) /\ Fresh(c) /\ RightlyOk(c)

(* A delivery and its first job are created together.                      *)
RowsHaveJobs ==
    phase # "purged" => \A d \in Deliveries : row[d].state = "absent" => job[d].state = "none"

DeliveryInv ==
    /\ TypeOK /\ \A c \in calls : Good(c)
    /\ OneCallbackWorks /\ RowsHaveJobs /\ NotForgotten

-----------------------------------------------------------------------------
(* A callback that has moved on: it is the same callback of the same job.  *)
Moved(c, e) == e \in Call /\ e.d = c.d /\ e.proc = c.proc /\ e.token = c.token

Pcs == {"claimed", "seen", "admitted", "working", "holding", "beginning", "pushing",
        "exiting", "replying"}

LEMMA MovedTo ==
    ASSUME NEW c \in Call, NEW p \in Pcs
    PROVE  LET e == [c EXCEPT !.pc = p]
           IN  /\ Moved(c, e) /\ e.pc = p /\ e.guard = c.guard /\ e.ok = c.ok
  BY DEF Call, Moved, Pcs

LEMMA MovedOk ==
    ASSUME NEW c \in Call, NEW p \in Pcs
    PROVE  LET e == [c EXCEPT !.pc = p, !.ok = TRUE]
           IN  /\ Moved(c, e) /\ e.pc = p /\ e.guard = c.guard
               /\ e.generation = c.generation
  BY DEF Call, Moved, Pcs

LEMMA MovedAdmitted ==
    ASSUME NEW c \in Call
    PROVE  LET e == [c EXCEPT !.pc = "admitted", !.guard = TRUE]
           IN  /\ Moved(c, e) /\ e.pc = "admitted" /\ e.ok = c.ok
  BY DEF Call, Moved

LEMMA MovedBegun ==
    ASSUME NEW c \in Call, NEW g \in Nat
    PROVE  LET e == [c EXCEPT !.pc = "working", !.generation = g]
           IN  /\ Moved(c, e) /\ e.pc = "working" /\ e.guard = c.guard /\ e.ok = c.ok
               /\ e.generation = g
  BY DEF Call, Moved

LEMMA MovedRefused ==
    ASSUME NEW c \in Call
    PROVE  LET e == [c EXCEPT !.pc = "replying", !.guard = FALSE]
           IN  /\ Moved(c, e) /\ e.pc = "replying" /\ ~e.guard /\ e.ok = c.ok
  BY DEF Call, Moved

WithSnap(c, p, s) == [c EXCEPT !.pc = p, !.snap = s]

LEMMA MovedWithSnap ==
    ASSUME NEW c \in Call, NEW p \in Pcs, NEW s \in Row, NEW e, e = WithSnap(c, p, s)
    PROVE  /\ Moved(c, e) /\ e.pc = p /\ e.guard = c.guard /\ e.ok = c.ok
           /\ e.generation = c.generation /\ e.snap = s
  BY DEF Call, Moved, Pcs, WithSnap

Written(c, p, s, next) == [c EXCEPT !.pc = p, !.ok = next.state \in Final, !.snap = s]

LEMMA MovedWritten ==
    ASSUME NEW c \in Call, NEW p \in Pcs, NEW s \in Row, NEW next \in Row, NEW e,
           e = Written(c, p, s, next)
    PROVE  /\ Moved(c, e) /\ e.pc = p /\ e.guard = c.guard
           /\ e.ok <=> next.state \in Final
           /\ e.generation = c.generation /\ e.snap = s
<1>1. PICK k : k = (next.state \in Final)
  OBVIOUS
<1>2. k \in BOOLEAN /\ e = [c EXCEPT !.pc = p, !.ok = k, !.snap = s]
  BY <1>1 DEF Written
<1>3. /\ Moved(c, e) /\ e.pc = p /\ e.guard = c.guard /\ e.ok = k
      /\ e.generation = c.generation /\ e.snap = s
  BY <1>2 DEF Call, Moved, Pcs
<1>. QED
  BY <1>1, <1>3

AsFinished(c) == [c EXCEPT !.pc = "replying", !.guard = FALSE, !.generation = 0]

LEMMA MovedFinished ==
    ASSUME NEW c \in Call, NEW e, e = AsFinished(c)
    PROVE  Moved(c, e) /\ e.pc = "replying" /\ ~e.guard /\ e.ok = c.ok
  BY DEF Call, Moved, AsFinished

AsUnfinished(c) ==
    [c EXCEPT !.pc = "replying", !.guard = FALSE, !.ok = FALSE, !.generation = 0]

LEMMA MovedUnfinished ==
    ASSUME NEW c \in Call, NEW e, e = AsUnfinished(c)
    PROVE  Moved(c, e) /\ e.pc = "replying" /\ ~e.guard /\ ~e.ok
  BY DEF Call, Moved, AsUnfinished

Unguarded(c) == [c EXCEPT !.guard = FALSE, !.waited = FALSE]

LEMMA MovedUnguarded ==
    ASSUME NEW c \in Call, NEW e, e = Unguarded(c)
    PROVE  /\ Moved(c, e) /\ e.pc = c.pc /\ ~e.guard /\ e.ok = c.ok
           /\ e.generation = c.generation /\ e.snap = c.snap
  BY DEF Call, Moved, Unguarded

-----------------------------------------------------------------------------
(* What a step has to leave of the job, the rows and the project for a     *)
(* callback that it does not move.                                         *)
JobKept(d) ==
    /\ job'[d].state # "none" /\ job'[d].token >= job[d].token
    /\ job'[d].state = "running" =>
          (job[d].state = "running" /\ job'[d].token = job[d].token) \/ job'[d].token > job[d].token

LEMMA StaysGood ==
    ASSUME TypeOK, NEW x \in Call, Good(x), x.proc \in alive', JobKept(x.d), TypeOK',
           work'[x.d] = work[x.d] \/ ~Owning(x),
           \/ row'[x.d] = row[x.d]
           \/ /\ x.pc \notin Writing
              /\ row'[x.d].state \notin RESUMABLE \/ ~x.ok \/ ~Current(x),
           \/ phase' = phase \/ phase' \in {"open", "deleting"}
           \/ ~x.guard /\ (phase' # "purged" \/ ~Owning(x))
    PROVE  Good(x)'
<1>1. /\ x.d \in Deliveries /\ x.token \in Nat
      /\ job[x.d].token \in Nat /\ job'[x.d].token \in Nat
  BY DEF Call, TypeOK, Job
<1>2. Named(x)' /\ (Current(x)' => Current(x))
  BY <1>1 DEF Good, Named, JobKept, Current
<1>3. Guarded(x)'
  BY DEF Good, Guarded
<1>4. AtWork(x)'
  BY DEF Good, AtWork, Owning
<1>5. Fresh(x)'
  BY DEF Good, Fresh
<1>6. RightlyOk(x)'
  BY <1>2 DEF Good, RightlyOk
<1>. QED
  BY <1>2, <1>3, <1>4, <1>5, <1>6 DEF Good

LEMMA JobUnchangedIsKept ==
    ASSUME TypeOK, NEW d \in Deliveries, job[d].state # "none", job' = job
    PROVE  JobKept(d)
<1>1. job[d].token \in Nat
  BY DEF TypeOK, Job
<1>. QED
  BY <1>1 DEF JobKept

(* A callback moves on, and beside it only its own delivery and the record *)
(* of that in flight may change.                                           *)
LEMMA MoveKeeps ==
    ASSUME DeliveryInv, NEW c \in calls, NEW e, Moved(c, e), Replace(c, e), TypeOK',
           phase' = phase, alive' = alive, job' = job,
           \A d \in Deliveries : d # c.d => row'[d] = row[d] /\ work'[d] = work[d],
           row'[c.d] = row[c.d] \/ c.pc \in Writing,
           row'[c.d].state = "absent" => row[c.d].state = "absent",
           row'[c.d].state \in RESUMABLE => row[c.d].state \in RESUMABLE,
           work'[c.d] = work[c.d] \/ Owning(c) \/ work[c.d].state # "running",
           Owning(e) => Owning(c) \/ work[c.d].state # "running",
           Guarded(e)', AtWork(e)', Fresh(e)', RightlyOk(e)'
    PROVE  DeliveryInv'
<1>1. TypeOK /\ (\A x \in calls : Good(x) /\ x \in Call) /\ c.d \in Deliveries
  BY DEF DeliveryInv, TypeOK, Call
<1>2. calls' = (calls \ {c}) \cup {e} /\ e.d = c.d /\ e.proc = c.proc /\ e.token = c.token
  BY DEF Replace, Moved
<1>3. ASSUME NEW x \in calls, x # c, x.d = c.d, Owning(c) \/ work[c.d].state # "running"
      PROVE  ~Owning(x)
  BY <1>1, <1>3 DEF DeliveryInv, OneCallbackWorks, Good, AtWork
<1>4. ASSUME NEW x \in calls, x # c PROVE Good(x)'
  <2>1. x \in Call /\ Good(x) /\ x.d \in Deliveries /\ x.proc \in alive' /\ job[x.d].state # "none"
    BY <1>1 DEF Call, Good, Named
  <2>2. JobKept(x.d)
    BY <1>1, <2>1, JobUnchangedIsKept
  <2>3. work'[x.d] = work[x.d] \/ ~Owning(x)
    BY <1>3, <1>4, <2>1
  <2>4. c.pc \in Writing => Owning(c) /\ row[c.d].state \in RESUMABLE
    BY <1>1 DEF Good, Fresh, Writing, Owning
  <2>5. \/ row'[x.d] = row[x.d]
        \/ /\ x.pc \notin Writing
           /\ row'[x.d].state \notin RESUMABLE \/ ~x.ok \/ ~Current(x)
    <3>1. CASE row'[x.d] # row[x.d]
      <4>1. x.d = c.d /\ c.pc \in Writing
        BY <2>1, <3>1
      <4>2. ~Owning(x) /\ row[x.d].state \in RESUMABLE
        BY <1>3, <1>4, <2>4, <4>1
      <4>3. x.pc \notin Writing
        BY <4>2 DEF Owning, Writing
      <4>. QED
        BY <2>1, <4>2, <4>3 DEF Good, RightlyOk
    <3>. QED
      BY <3>1
  <2>. QED
    BY <1>1, <2>1, <2>2, <2>3, <2>5, StaysGood
<1>5. Named(e)'
  BY <1>1, <1>2 DEF Good, Named
<1>6. \A x \in calls' : Good(x)'
  BY <1>2, <1>4, <1>5 DEF Good
<1>7. OneCallbackWorks'
  <2>1. \A x \in calls : x # c /\ Owning(e) /\ x.d = c.d => ~Owning(x)
    BY <1>3
  <2>. QED
    BY <1>2, <2>1 DEF DeliveryInv, OneCallbackWorks, Owning
<1>8. RowsHaveJobs'
  BY DEF DeliveryInv, RowsHaveJobs
<1>9. NotForgotten'
  <2>1. \A d \in Deliveries : row'[d].state \in RESUMABLE => row[d].state \in RESUMABLE
    BY <1>1
  <2>. QED
    BY <2>1 DEF DeliveryInv, NotForgotten, Busy
<1>. QED
  BY <1>6, <1>7, <1>8, <1>9 DEF DeliveryInv

-----------------------------------------------------------------------------
(* The steps of one callback.                                              *)
LEMMA InvOfCall ==
    ASSUME DeliveryInv, NEW c \in calls
    PROVE  /\ TypeOK /\ c \in Call /\ c.d \in Deliveries /\ Good(c)
           /\ row[c.d] \in Row /\ c.snap \in Row /\ c.pc \in Pcs
           /\ job[c.d] \in Job /\ job[c.d].state # "none"
           /\ work[c.d] \in Work /\ Absent \in Row
<1>1. TypeOK /\ c \in Call /\ Good(c)
  BY DEF DeliveryInv, TypeOK
<1>2. c.d \in Deliveries /\ c.snap \in Row /\ c.pc \in Pcs
  BY <1>1 DEF Call, Pcs
<1>3. Absent \in Row
  BY DEF Absent, Row
<1>. QED
  BY <1>1, <1>2, <1>3 DEF TypeOK, Good, Named

LEMMA MoveTyped ==
    ASSUME TypeOK, NEW c \in calls, NEW e, Moved(c, e), Replace(c, e),
           UNCHANGED <<row, job, work, world>>, faults' = faults \/ Fault
    PROVE  TypeOK'
<1>1. calls' \subseteq Call
  BY DEF TypeOK, Moved, Replace
<1>2. faults' \in 0..MaxFaults
  BY DeliveryAssumption DEF TypeOK, Fault
<1>. QED
  BY <1>1, <1>2 DEF TypeOK, world

(* A step that changes nothing but the callback itself.                    *)
LEMMA PureMoveKeeps ==
    ASSUME DeliveryInv, NEW c \in calls, NEW e, Moved(c, e), Replace(c, e),
           UNCHANGED <<row, job, work, world>>, faults' = faults \/ Fault,
           Owning(e) => Owning(c),
           Guarded(e), AtWork(e), Fresh(e), RightlyOk(e)
    PROVE  DeliveryInv'
<1>1. TypeOK /\ c.d \in Deliveries
  BY InvOfCall
<1>2. TypeOK'
  BY <1>1, MoveTyped
<1>3. UNCHANGED <<phase, alive, job, row, work>>
  BY DEF world
<1>4. Guarded(e)' /\ AtWork(e)' /\ Fresh(e)' /\ RightlyOk(e)'
  BY <1>3 DEF Guarded, AtWork, Fresh, RightlyOk, Owning, Current
<1>. QED
  BY <1>1, <1>2, <1>3, <1>4, MoveKeeps

LEMMA LookKeeps == ASSUME DeliveryInv, NEW c \in calls, Look(c) PROVE DeliveryInv'
<1>1. c \in Call /\ Good(c) /\ c.pc = "claimed"
  BY InvOfCall DEF Look
<1>2. UNCHANGED <<row, job, work, world>> /\ faults' = faults
  BY DEF Look
<1>3. CASE row[c.d].state \in RESUMABLE
  <2>. DEFINE e == [c EXCEPT !.pc = "seen"]
  <2>1. Moved(c, e) /\ e.pc = "seen" /\ e.guard = c.guard /\ e.ok = c.ok
    BY <1>1, MovedTo DEF Pcs
  <2>2. Replace(c, e)
    BY <1>3 DEF Look
  <2>. HIDE DEF e
  <2>3. Guarded(e) /\ AtWork(e) /\ Fresh(e) /\ RightlyOk(e) /\ ~Owning(e)
    BY <1>1, <2>1 DEF Good, Guarded, AtWork, Fresh, RightlyOk, Owning, Writing, Moved
  <2>. QED
    BY <1>2, <2>1, <2>2, <2>3, PureMoveKeeps
<1>4. CASE row[c.d].state \notin RESUMABLE
  <2>. DEFINE e == [c EXCEPT !.pc = "replying", !.ok = TRUE]
  <2>1. Moved(c, e) /\ e.pc = "replying" /\ e.guard = c.guard
    BY <1>1, MovedOk DEF Pcs
  <2>2. Replace(c, e)
    BY <1>4 DEF Look
  <2>. HIDE DEF e
  <2>3. Guarded(e) /\ AtWork(e) /\ Fresh(e) /\ RightlyOk(e) /\ ~Owning(e)
    BY <1>1, <1>4, <2>1 DEF Good, Guarded, AtWork, Fresh, RightlyOk, Owning, Writing, Moved
  <2>. QED
    BY <1>2, <2>1, <2>2, <2>3, PureMoveKeeps
<1>. QED
  BY <1>3, <1>4

LEMMA AdmitKeeps == ASSUME DeliveryInv, NEW c \in calls, Admit(c) PROVE DeliveryInv'
<1>1. c \in Call /\ Good(c) /\ c.pc = "seen"
  BY InvOfCall DEF Admit
<1>2. UNCHANGED <<row, job, work, world>> /\ faults' = faults
  BY DEF Admit
<1>3. CASE phase = "open"
  <2>. DEFINE e == [c EXCEPT !.pc = "admitted", !.guard = TRUE]
  <2>1. Moved(c, e) /\ e.pc = "admitted" /\ e.ok = c.ok
    BY <1>1, MovedAdmitted
  <2>2. Replace(c, e)
    BY <1>3 DEF Admit
  <2>. HIDE DEF e
  <2>3. Guarded(e) /\ AtWork(e) /\ Fresh(e) /\ RightlyOk(e) /\ ~Owning(e)
    BY <1>1, <1>3, <2>1 DEF Good, Guarded, AtWork, Fresh, RightlyOk, Owning, Writing, Moved
  <2>. QED
    BY <1>2, <2>1, <2>2, <2>3, PureMoveKeeps
<1>4. CASE phase # "open"
  <2>. DEFINE e == [c EXCEPT !.pc = "replying"]
  <2>1. Moved(c, e) /\ e.pc = "replying" /\ e.guard = c.guard /\ e.ok = c.ok
    BY <1>1, MovedTo DEF Pcs
  <2>2. Replace(c, e)
    BY <1>4 DEF Admit
  <2>. HIDE DEF e
  <2>3. Guarded(e) /\ AtWork(e) /\ Fresh(e) /\ RightlyOk(e) /\ ~Owning(e)
    BY <1>1, <2>1 DEF Good, Guarded, AtWork, Fresh, RightlyOk, Owning, Writing, Moved
  <2>. QED
    BY <1>2, <2>1, <2>2, <2>3, PureMoveKeeps
<1>. QED
  BY <1>3, <1>4

LEMMA BeginDeliveryWorkKeeps ==
    ASSUME DeliveryInv, NEW c \in calls, BeginDeliveryWork(c) PROVE DeliveryInv'
<1>1. TypeOK /\ c \in Call /\ Good(c) /\ c.pc = "admitted" /\ c.d \in Deliveries
  BY InvOfCall DEF BeginDeliveryWork
<1>2. UNCHANGED <<row, job, world, faults>>
  BY DEF BeginDeliveryWork
<1>3. CASE c.guard /\ work[c.d].state # "running"
  <2>1. /\ work[c.d].generation + 1 \in Nat /\ c.proc \in Processes
    BY <1>1 DEF TypeOK, Work, Call
  <2>2. PICK g \in Nat : g = work[c.d].generation + 1
    BY <2>1
  <2>3. PICK e : e = [c EXCEPT !.pc = "working", !.generation = g]
    OBVIOUS
  <2>4. /\ Moved(c, e) /\ e.pc = "working" /\ e.guard = c.guard /\ e.ok = c.ok
        /\ e.generation = g
    BY <1>1, <2>3, MovedBegun
  <2>5. PICK w : w = [state |-> "running", owner |-> c.proc, generation |-> g]
    OBVIOUS
  <2>6. w \in Work /\ w.state = "running" /\ w.generation = g /\ w.owner = c.proc
    BY <2>1, <2>5 DEF Work
  <2>7. work' = [work EXCEPT ![c.d] = w] /\ Replace(c, e)
    BY <1>3, <2>2, <2>3, <2>5 DEF BeginDeliveryWork
  <2>8. /\ work' \in [Deliveries -> Work] /\ work'[c.d] = w
        /\ \A d \in Deliveries : d # c.d => work'[d] = work[d]
    BY <1>1, <2>7, <2>6 DEF TypeOK
  <2>9. calls' \subseteq Call
    BY <1>1, <2>4, <2>7 DEF TypeOK, Moved, Replace
  <2>10. TypeOK'
    BY <1>1, <1>2, <2>8, <2>9 DEF TypeOK, world
  <2>11. phase' = phase /\ alive' = alive /\ job' = job /\ row' = row /\ e.d = c.d
        /\ e.proc = c.proc
    BY <1>2, <2>4 DEF world, Moved
  <2>12. phase # "purged"
    BY <1>1, <1>3 DEF Good, Guarded
  <2>13. Guarded(e)'
    BY <1>1, <2>4, <2>11 DEF Good, Guarded
  <2>14. AtWork(e)'
    BY <2>4, <2>6, <2>8, <2>11, <2>12 DEF AtWork
  <2>15. Fresh(e)'
    BY <2>4 DEF Fresh, Writing
  <2>16. ~e.ok
    BY <1>1, <2>4 DEF Good, RightlyOk
  <2>17. RightlyOk(e)'
    BY <2>16 DEF RightlyOk
  <2>. QED
    BY <1>1, <1>3, <2>4, <2>7, <2>8, <2>10, <2>11, <2>13, <2>14, <2>15, <2>17, MoveKeeps
<1>4. CASE ~(c.guard /\ work[c.d].state # "running")
  <2>. DEFINE e == [c EXCEPT !.pc = "replying", !.guard = FALSE]
  <2>1. Moved(c, e) /\ e.pc = "replying" /\ ~e.guard /\ e.ok = c.ok
    BY <1>1, MovedRefused
  <2>2. Replace(c, e) /\ work' = work
    BY <1>4 DEF BeginDeliveryWork
  <2>. HIDE DEF e
  <2>3. Guarded(e) /\ AtWork(e) /\ Fresh(e) /\ RightlyOk(e) /\ ~Owning(e)
    BY <1>1, <2>1 DEF Good, Guarded, AtWork, Fresh, RightlyOk, Owning, Writing, Moved
  <2>. QED
    BY <1>2, <2>1, <2>2, <2>3, PureMoveKeeps
<1>. QED
  BY <1>3, <1>4

LEMMA InspectKeeps == ASSUME DeliveryInv, NEW c \in calls, Inspect(c) PROVE DeliveryInv'
<1>1. c \in Call /\ Good(c) /\ c.pc = "working" /\ row[c.d] \in Row
  BY InvOfCall DEF Inspect
<1>2. UNCHANGED <<row, job, work, world>> /\ faults' = faults
  BY DEF Inspect
<1>3. CASE row[c.d].state \notin RESUMABLE
  <2>. DEFINE e == [c EXCEPT !.pc = "exiting", !.ok = TRUE]
  <2>1. /\ Moved(c, e) /\ e.pc = "exiting" /\ e.guard = c.guard
        /\ e.generation = c.generation
    BY <1>1, MovedOk DEF Pcs
  <2>2. Replace(c, e)
    BY <1>3 DEF Inspect
  <2>. HIDE DEF e
  <2>3. Guarded(e) /\ AtWork(e) /\ Fresh(e) /\ RightlyOk(e) /\ Owning(c)
    BY <1>1, <1>3, <2>1 DEF Good, Guarded, AtWork, Fresh, RightlyOk, Owning, Writing, Moved
  <2>. QED
    BY <1>2, <2>1, <2>2, <2>3, PureMoveKeeps
<1>4. CASE row[c.d].state \in RESUMABLE
  <2>1. PICK p \in Pcs : p = IF hold THEN "holding" ELSE "beginning"
    BY DEF Pcs
  <2>2. PICK s \in Row : s = row[c.d]
    BY <1>1
  <2>3. PICK e : e = WithSnap(c, p, s)
    OBVIOUS
  <2>4. Replace(c, e)
    BY <1>4, <2>1, <2>2, <2>3 DEF Inspect, WithSnap
  <2>5. /\ Moved(c, e) /\ e.pc = p /\ e.guard = c.guard /\ e.ok = c.ok
        /\ e.generation = c.generation /\ e.snap = s
    BY <1>1, <2>1, <2>2, <2>3, MovedWithSnap
  <2>6. p \in Writing
    BY <2>1 DEF Writing
  <2>7. ~e.ok /\ Owning(c)
    BY <1>1, <2>5 DEF Good, RightlyOk, Owning
  <2>8. Guarded(e) /\ AtWork(e) /\ Fresh(e) /\ RightlyOk(e)
    BY <1>1, <1>4, <2>2, <2>5, <2>6, <2>7
    DEF Good, Guarded, AtWork, Fresh, RightlyOk, Owning, Moved
  <2>. QED
    BY <1>2, <2>4, <2>5, <2>7, <2>8, PureMoveKeeps
<1>. QED
  BY <1>3, <1>4

(* A write that carries the delivery no step back, or is refused.          *)
LEMMA WriteKeeps ==
    ASSUME DeliveryInv, NEW c \in calls, c.pc \in Writing, NEW next \in Row,
           NEW p \in {"exiting", "pushing"}, Write(c, next, p), next.state # "absent",
           p = "pushing" => next.state \in RESUMABLE
    PROVE  DeliveryInv'
<1>1. /\ TypeOK /\ c \in Call /\ Good(c) /\ c.d \in Deliveries /\ Owning(c)
      /\ row[c.d].state \in RESUMABLE /\ Absent \in Row
  BY InvOfCall DEF Good, Fresh, Writing, Owning
<1>2. UNCHANGED <<job, work, world, faults>>
  BY DEF Write
<1>3. AtWork(c) /\ Guarded(c)
  BY <1>1 DEF Good
<1>4. CASE Writable(c)
  <2>1. p \in Pcs
    BY DEF Pcs
  <2>2. PICK s \in Row : s = IF p = "exiting" THEN Absent ELSE next
    BY <1>1
  <2>3. PICK e : e = Written(c, p, s, next)
    OBVIOUS
  <2>4. Replace(c, e) /\ row' = [row EXCEPT ![c.d] = next]
    BY <1>4, <2>2, <2>3 DEF Write, Written
  <2>5. /\ Moved(c, e) /\ e.pc = p /\ e.guard = c.guard /\ (e.ok <=> next.state \in Final)
        /\ e.generation = c.generation /\ e.snap = s
    BY <1>1, <2>1, <2>2, <2>3, MovedWritten
  <2>6. /\ row' \in [Deliveries -> Row] /\ row'[c.d] = next
        /\ \A d \in Deliveries : d # c.d => row'[d] = row[d]
    BY <1>1, <2>4 DEF TypeOK
  <2>7. calls' \subseteq Call
    BY <1>1, <2>4, <2>5 DEF TypeOK, Moved, Replace
  <2>8. TypeOK'
    BY <1>1, <1>2, <2>6, <2>7 DEF TypeOK, world
  <2>9. phase' = phase /\ alive' = alive /\ job' = job /\ work' = work /\ e.d = c.d
        /\ e.proc = c.proc
    BY <1>2, <2>5 DEF world, Moved
  <2>10. Guarded(e)'
    BY <1>3, <2>5, <2>9 DEF Guarded
  <2>11. AtWork(e)'
    BY <1>1, <1>3, <2>5, <2>9 DEF AtWork
  <2>12. Fresh(e)'
    BY <2>2, <2>5, <2>6, <2>9 DEF Fresh, Writing
  <2>13. e.ok => next.state \notin RESUMABLE
    BY <2>5 DEF Final, RESUMABLE
  <2>14. e.ok => p = "exiting"
    BY <2>13
  <2>15. RightlyOk(e)'
    BY <2>5, <2>6, <2>9, <2>13, <2>14 DEF RightlyOk
  <2>. QED
    BY <1>1, <2>4, <2>5, <2>6, <2>8, <2>9, <2>10, <2>11, <2>12, <2>15, MoveKeeps
<1>5. CASE ~Writable(c)
  <2>1. PICK e : e = WithSnap(c, "exiting", Absent)
    OBVIOUS
  <2>2. Replace(c, e) /\ row' = row
    BY <1>5, <2>1 DEF Write, WithSnap
  <2>3. /\ Moved(c, e) /\ e.pc = "exiting" /\ e.guard = c.guard /\ e.ok = c.ok
        /\ e.generation = c.generation
    BY <1>1, <2>1, MovedWithSnap DEF Pcs
  <2>4. Guarded(e) /\ AtWork(e) /\ Fresh(e) /\ RightlyOk(e)
    BY <1>1, <2>3 DEF Good, Guarded, AtWork, Fresh, RightlyOk, Moved, Writing
  <2>. QED
    BY <1>1, <1>2, <2>2, <2>3, <2>4, PureMoveKeeps
<1>. QED
  BY <1>4, <1>5

LEMMA HoldDeliveryKeeps == ASSUME DeliveryInv, NEW c \in calls, HoldDelivery(c) PROVE DeliveryInv'
<1>1. c.snap \in Row /\ c.pc = "holding" /\ c.pc \in Writing
  BY InvOfCall DEF HoldDelivery, Writing
<1>2. PICK next : next = [c.snap EXCEPT !.state = "held"]
  OBVIOUS
<1>3. next \in Row /\ next.state = "held"
  BY <1>1, <1>2 DEF Row, Final
<1>4. Write(c, next, "exiting")
  BY <1>2 DEF HoldDelivery
<1>. QED
  BY <1>1, <1>3, <1>4, WriteKeeps

LEMMA BeginAttemptKeeps == ASSUME DeliveryInv, NEW c \in calls, BeginAttempt(c) PROVE DeliveryInv'
<1>1. c.snap \in Row /\ c.pc = "beginning" /\ c.pc \in Writing
  BY InvOfCall DEF BeginAttempt, Writing
<1>2. PICK next : next = [state |-> "delivering", attempts |-> c.snap.attempts + 1]
  OBVIOUS
<1>3. next \in Row /\ next.state = "delivering" /\ next.state \in RESUMABLE
  BY <1>1, <1>2 DEF Row, RESUMABLE
<1>4. Write(c, next, "pushing")
  BY <1>2 DEF BeginAttempt
<1>. QED
  BY <1>1, <1>3, <1>4, WriteKeeps

LEMMA SettleKeeps == ASSUME DeliveryInv, NEW c \in calls, Settle(c) PROVE DeliveryInv'
<1>1. c.snap \in Row /\ c.pc = "pushing" /\ c.pc \in Writing
  BY InvOfCall DEF Settle, Writing
<1>2. PICK next \in {[c.snap EXCEPT !.state = "delivered"],
                     [c.snap EXCEPT !.state = "dead"], MarkFailed(c.snap)} :
        Write(c, next, "exiting")
  BY DEF Settle
<1>3. next \in Row /\ next.state # "absent"
  BY <1>1, <1>2 DEF Row, Final, RESUMABLE, MarkFailed
<1>. QED
  BY <1>1, <1>2, <1>3, WriteKeeps

LEMMA BrokenKeeps == ASSUME DeliveryInv, NEW c \in calls, Broken(c) PROVE DeliveryInv'
<1>1. c \in Call /\ Good(c) /\ Absent \in Row /\ Owning(c) /\ c.pc # "exiting"
  BY InvOfCall DEF Broken
<1>2. PICK e : e = WithSnap(c, "exiting", Absent)
  OBVIOUS
<1>3. Replace(c, e) /\ Fault /\ UNCHANGED <<row, job, work, world>>
  BY <1>2 DEF Broken, WithSnap
<1>4. /\ Moved(c, e) /\ e.pc = "exiting" /\ e.guard = c.guard /\ e.ok = c.ok
      /\ e.generation = c.generation
  BY <1>1, <1>2, MovedWithSnap DEF Pcs
<1>5. Guarded(e) /\ AtWork(e) /\ Fresh(e) /\ RightlyOk(e)
  BY <1>1, <1>4 DEF Good, Guarded, AtWork, Fresh, RightlyOk, Moved, Writing, Owning
<1>. QED
  BY <1>1, <1>3, <1>4, <1>5, PureMoveKeeps

LEMMA FinishDeliveryWorkKeeps ==
    ASSUME DeliveryInv, NEW c \in calls, FinishDeliveryWork(c) PROVE DeliveryInv'
<1>1. /\ TypeOK /\ c \in Call /\ Good(c) /\ c.pc = "exiting" /\ c.d \in Deliveries
      /\ work[c.d] \in Work
  BY InvOfCall DEF FinishDeliveryWork
<1>2. UNCHANGED <<row, job, world>>
  BY DEF FinishDeliveryWork
<1>3. CASE faults' = faults /\ Replace(c, AsFinished(c)) /\
           work' = IF work[c.d].state = "running" /\ work[c.d].generation = c.generation
                   THEN [work EXCEPT ![c.d].state = "finished"] ELSE work
  <2>1. work' = [work EXCEPT ![c.d].state = "finished"] /\ Owning(c)
    BY <1>1, <1>3 DEF Good, AtWork, Owning
  <2>2. /\ work' \in [Deliveries -> Work]
        /\ \A d \in Deliveries : d # c.d => work'[d] = work[d]
    BY <1>1, <2>1 DEF TypeOK, Work
  <2>3. PICK e : e = AsFinished(c)
    OBVIOUS
  <2>4. Moved(c, e) /\ e.pc = "replying" /\ ~e.guard /\ e.ok = c.ok /\ Replace(c, e)
    BY <1>1, <1>3, <2>3, MovedFinished
  <2>5. calls' \subseteq Call
    BY <1>1, <2>4 DEF TypeOK, Moved, Replace
  <2>6. TypeOK'
    BY <1>1, <1>2, <1>3, <2>2, <2>5 DEF TypeOK, world
  <2>7. phase' = phase /\ alive' = alive /\ job' = job /\ row' = row /\ e.d = c.d
        /\ e.token = c.token
    BY <1>2, <2>4 DEF world, Moved
  <2>8. Guarded(e)' /\ AtWork(e)' /\ Fresh(e)'
    BY <2>4 DEF Guarded, AtWork, Fresh, Owning, Writing
  <2>9. RightlyOk(e)'
    BY <1>1, <2>4, <2>7 DEF Good, RightlyOk, Current
  <2>. QED
    BY <1>1, <2>1, <2>2, <2>4, <2>6, <2>7, <2>8, <2>9, MoveKeeps
<1>4. CASE Fault /\ Replace(c, AsUnfinished(c)) /\ work' = work
  <2>1. PICK e : e = AsUnfinished(c)
    OBVIOUS
  <2>2. Moved(c, e) /\ e.pc = "replying" /\ ~e.guard /\ ~e.ok /\ Replace(c, e)
    BY <1>1, <1>4, <2>1, MovedUnfinished
  <2>3. Guarded(e) /\ AtWork(e) /\ Fresh(e) /\ RightlyOk(e) /\ ~Owning(e)
    BY <2>2 DEF Guarded, AtWork, Fresh, RightlyOk, Owning, Writing
  <2>. QED
    BY <1>2, <1>4, <2>2, <2>3, PureMoveKeeps
<1>. QED
  BY <1>3, <1>4 DEF FinishDeliveryWork, AsFinished, AsUnfinished

-----------------------------------------------------------------------------
(* A running job is answered, and with success only if no attempt is left. *)
Answered(d) ==
    /\ job[d].state = "running"
    /\ \E k \in {"done", "dead", "pending"} :
          /\ job' = [job EXCEPT ![d].state = k]
          /\ k = "done" => row[d].state \notin RESUMABLE

LEMMA AnswerKeepsJobs ==
    ASSUME DeliveryInv, NEW a \in Deliveries, job' = job \/ Answered(a),
           row' = row, phase' = phase
    PROVE  /\ job' \in [Deliveries -> Job] /\ RowsHaveJobs' /\ NotForgotten'
           /\ \A d \in Deliveries : job[d].state # "none" => JobKept(d)
<1>1. TypeOK
  BY DEF DeliveryInv
<1>2. CASE job' = job
  BY <1>1, <1>2, JobUnchangedIsKept
  DEF TypeOK, DeliveryInv, RowsHaveJobs, NotForgotten, Busy
<1>3. CASE Answered(a)
  <2>1. PICK k \in {"done", "dead", "pending"} :
          job' = [job EXCEPT ![a].state = k] /\ (k = "done" => row[a].state \notin RESUMABLE)
    BY <1>3 DEF Answered
  <2>2. /\ job' \in [Deliveries -> Job] /\ job'[a].state = k /\ job'[a].token = job[a].token
        /\ job[a].token \in Nat
        /\ \A d \in Deliveries : d # a => job'[d] = job[d]
    BY <1>1, <2>1 DEF TypeOK, Job
  <2>3. job[a].state = "running"
    BY <1>3 DEF Answered
  <2>4. JobKept(a)
    BY <2>2 DEF JobKept
  <2>5. ASSUME NEW d \in Deliveries, d # a, job[d].state # "none" PROVE JobKept(d)
    <3>1. job'[d] = job[d] /\ job[d].token \in Nat
      BY <1>1, <2>2, <2>5 DEF TypeOK, Job
    <3>. QED
      BY <2>5, <3>1 DEF JobKept
  <2>6. RowsHaveJobs'
    BY <2>2, <2>3 DEF DeliveryInv, RowsHaveJobs
  <2>7. NotForgotten'
    BY <2>1, <2>2 DEF DeliveryInv, NotForgotten, Busy
  <2>. QED
    BY <2>2, <2>4, <2>5, <2>6, <2>7
<1>. QED
  BY <1>2, <1>3

LEMMA AnswerIsGood ==
    ASSUME DeliveryInv, NEW c \in calls, NEW e, e.d = c.d, e.token = c.token,
           e.ok => c.ok /\ c.pc = "replying", job' = JobAfter(e)
    PROVE  job' = job \/ Answered(c.d)
<1>1. Good(c)
  BY InvOfCall
<1>2. CASE ~Current(e)
  BY <1>2 DEF JobAfter
<1>3. CASE Current(e)
  <2>1. Current(c) /\ job[c.d].state = "running"
    BY <1>3 DEF Current
  <2>2. e.ok => row[c.d].state \notin RESUMABLE
    BY <1>1, <2>1 DEF Good, RightlyOk
  <2>3. PICK k \in {"done", "dead", "pending"} :
          /\ k = IF e.ok THEN "done" ELSE IF job[e.d].attempts >= JobMax THEN "dead" ELSE "pending"
          /\ job' = [job EXCEPT ![c.d].state = k]
    BY <1>3 DEF JobAfter
  <2>4. k = "done" => row[c.d].state \notin RESUMABLE
    BY <2>2, <2>3
  <2>. QED
    BY <2>1, <2>3, <2>4 DEF Answered
<1>. QED
  BY <1>2, <1>3

LEMMA ReplyKeeps == ASSUME DeliveryInv, NEW c \in calls, Reply(c) PROVE DeliveryInv'
<1>1. TypeOK /\ c.d \in Deliveries
  BY InvOfCall
<1>2. UNCHANGED <<row, work, world, faults>> /\ calls' = calls \ {c} /\ c.pc = "replying"
  BY DEF Reply
<1>3. phase' = phase /\ alive' = alive
  BY <1>2 DEF world
<1>4. job' = job \/ Answered(c.d)
  <2>1. job' = job \/ job' = JobAfter(c)
    BY DEF Reply
  <2>. QED
    BY <1>2, <2>1, AnswerIsGood
<1>5. /\ job' \in [Deliveries -> Job] /\ RowsHaveJobs' /\ NotForgotten'
      /\ \A d \in Deliveries : job[d].state # "none" => JobKept(d)
  BY <1>1, <1>2, <1>3, <1>4, AnswerKeepsJobs
<1>6. TypeOK'
  BY <1>1, <1>2, <1>5 DEF TypeOK, world
<1>7. ASSUME NEW x \in calls PROVE Good(x)'
  <2>1. x \in Call /\ Good(x) /\ x.d \in Deliveries /\ x.proc \in alive /\ job[x.d].state # "none"
    BY InvOfCall DEF Good, Named
  <2>. QED
    BY <1>1, <1>2, <1>3, <1>5, <1>6, <2>1, StaysGood
<1>8. OneCallbackWorks'
  BY <1>2 DEF DeliveryInv, OneCallbackWorks, Owning
<1>. QED
  BY <1>2, <1>5, <1>6, <1>7, <1>8 DEF DeliveryInv

LEMMA LoseGuardKeeps == ASSUME DeliveryInv, NEW c \in calls, LoseGuard(c) PROVE DeliveryInv'
<1>1. TypeOK /\ c \in Call /\ Good(c) /\ c.d \in Deliveries
  BY InvOfCall
<1>2. PICK e : e = Unguarded(c)
  OBVIOUS
<1>3. UNCHANGED <<row, work, world>> /\ Replace(c, e) /\ Fault
  BY <1>2 DEF LoseGuard, Unguarded
<1>4. phase' = phase /\ alive' = alive
  BY <1>3 DEF world
<1>5. /\ Moved(c, e) /\ e.pc = c.pc /\ ~e.guard /\ e.ok = c.ok
      /\ e.generation = c.generation /\ e.snap = c.snap
  BY <1>1, <1>2, MovedUnguarded
<1>6. e \in Call /\ e.d = c.d /\ e.proc = c.proc /\ e.token = c.token
  BY <1>5 DEF Moved
<1>7. job' = job \/ Answered(c.d)
  <2>1. PICK f : f = [c EXCEPT !.ok = FALSE]
    OBVIOUS
  <2>2. f.d = c.d /\ f.token = c.token /\ ~f.ok
    BY <1>1, <2>1 DEF Call
  <2>3. job' = job \/ job' = JobAfter(f)
    BY <2>1 DEF LoseGuard
  <2>. QED
    BY <2>2, <2>3, AnswerIsGood
<1>8. /\ job' \in [Deliveries -> Job] /\ RowsHaveJobs' /\ NotForgotten'
      /\ \A d \in Deliveries : job[d].state # "none" => JobKept(d)
  BY <1>1, <1>3, <1>4, <1>7, AnswerKeepsJobs
<1>9. calls' = (calls \ {c}) \cup {e} /\ calls' \subseteq Call
  BY <1>1, <1>3, <1>6 DEF TypeOK, Replace
<1>10. faults' \in 0..MaxFaults
  BY <1>1, <1>3, DeliveryAssumption DEF TypeOK, Fault
<1>11. TypeOK'
  BY <1>1, <1>3, <1>8, <1>9, <1>10 DEF TypeOK, world
<1>12. Good(e)
  BY <1>1, <1>5, <1>6 DEF Good, Named, Guarded, AtWork, Fresh, RightlyOk, Owning, Current
<1>13. ASSUME NEW x \in calls' PROVE Good(x)'
  <2>1. x \in Call /\ Good(x)
    BY <1>1, <1>6, <1>9, <1>12, InvOfCall
  <2>2. x.d \in Deliveries /\ x.proc \in alive /\ job[x.d].state # "none"
    BY <2>1 DEF Call, Good, Named
  <2>. QED
    BY <1>1, <1>3, <1>4, <1>8, <1>11, <2>1, <2>2, StaysGood
<1>14. OneCallbackWorks'
  BY <1>5, <1>6, <1>9 DEF DeliveryInv, OneCallbackWorks, Owning
<1>. QED
  BY <1>8, <1>11, <1>13, <1>14 DEF DeliveryInv

-----------------------------------------------------------------------------
(* The steps of the queue, the containers, the sweep and the deletion.     *)
LEMMA ClaimKeeps ==
    ASSUME DeliveryInv, NEW a \in Deliveries, NEW p \in Processes, Claim(a, p)
    PROVE  DeliveryInv'
<1>1. TypeOK /\ p \in alive /\ job[a].state \in {"pending", "running"}
  BY DEF Claim, DeliveryInv
<1>2. UNCHANGED <<row, work, world>> /\ faults' \in 0..MaxFaults
  BY <1>1, DeliveryAssumption DEF Claim, Fault, TypeOK
<1>3. phase' = phase /\ alive' = alive
  BY <1>2 DEF world
<1>4. job[a].token \in Nat /\ job[a].attempts \in Nat
  BY <1>1 DEF TypeOK, Job
<1>5. PICK n : n = [d |-> a, proc |-> p, token |-> job[a].token + 1,
                    pc |-> "claimed", snap |-> Absent, generation |-> 0,
                    guard |-> FALSE, waited |-> TRUE, ok |-> FALSE]
  OBVIOUS
<1>6. /\ n \in Call /\ n.d = a /\ n.proc = p /\ n.token = job[a].token + 1
      /\ n.pc = "claimed" /\ ~n.guard /\ ~n.ok
  BY <1>4, <1>5 DEF Call, Absent, Row
<1>7. calls' = calls \cup {n} /\ calls' \subseteq Call
  BY <1>1, <1>5, <1>6 DEF Claim, TypeOK
<1>8. PICK j : j = [state |-> "running", attempts |-> job[a].attempts + 1,
                    token |-> job[a].token + 1]
  OBVIOUS
<1>9. j \in Job /\ j.state = "running" /\ j.token = job[a].token + 1
  BY <1>4, <1>8 DEF Job
<1>10. /\ job' \in [Deliveries -> Job] /\ job'[a] = j
       /\ \A d \in Deliveries : d # a => job'[d] = job[d]
  <2>1. job' = [job EXCEPT ![a] = j]
    BY <1>8 DEF Claim
  <2>. QED
    BY <1>1, <1>9, <2>1 DEF TypeOK
<1>11. TypeOK'
  BY <1>1, <1>2, <1>7, <1>10 DEF TypeOK, world
<1>12. ASSUME NEW d \in Deliveries, job[d].state # "none" PROVE JobKept(d)
  <2>1. job[d].token \in Nat
    BY <1>1 DEF TypeOK, Job
  <2>. QED
    BY <1>4, <1>9, <1>10, <1>12, <2>1 DEF JobKept
<1>13. ASSUME NEW x \in calls PROVE Good(x)'
  <2>1. x \in Call /\ Good(x) /\ x.d \in Deliveries /\ x.proc \in alive /\ job[x.d].state # "none"
    BY InvOfCall DEF Good, Named
  <2>. QED
    BY <1>1, <1>2, <1>3, <1>11, <1>12, <2>1, StaysGood
<1>14. Good(n)'
  <2>1. job'[a].state = "running" /\ job'[a].token = n.token /\ n.token \in Nat
    BY <1>4, <1>6, <1>9, <1>10
  <2>. QED
    BY <1>1, <1>3, <1>6, <2>1
    DEF Good, Named, Guarded, AtWork, Fresh, RightlyOk, Owning, Writing
<1>15. OneCallbackWorks'
  BY <1>6, <1>7 DEF DeliveryInv, OneCallbackWorks, Owning
<1>16. RowsHaveJobs'
  BY <1>1, <1>2, <1>3, <1>10 DEF DeliveryInv, RowsHaveJobs
<1>17. NotForgotten'
  BY <1>2, <1>9, <1>10 DEF DeliveryInv, NotForgotten, Busy
<1>. QED
  BY <1>7, <1>11, <1>13, <1>14, <1>15, <1>16, <1>17 DEF DeliveryInv

LEMMA CrashKeeps ==
    ASSUME DeliveryInv, NEW p \in Processes, Crash(p) PROVE DeliveryInv'
<1>1. TypeOK
  BY DEF DeliveryInv
<1>2. /\ UNCHANGED <<row, job, work, hold, sweep, phase, replays, holds>>
      /\ alive' = alive \ {p} /\ calls' = {c \in calls : c.proc # p}
  BY DEF Crash
<1>3. faults' \in 0..MaxFaults
  BY <1>1, DeliveryAssumption DEF Crash, Fault, TypeOK
<1>4. TypeOK'
  BY <1>1, <1>2, <1>3 DEF TypeOK
<1>5. ASSUME NEW x \in calls' PROVE Good(x)'
  <2>1. x \in calls /\ x.proc # p
    BY <1>2
  <2>2. /\ x \in Call /\ Good(x) /\ x.d \in Deliveries /\ x.proc \in alive'
        /\ job[x.d].state # "none"
    BY <1>2, <2>1, InvOfCall DEF Good, Named
  <2>3. JobKept(x.d)
    BY <1>1, <1>2, <2>2, JobUnchangedIsKept
  <2>. QED
    BY <1>1, <1>2, <1>4, <2>2, <2>3, StaysGood
<1>. QED
  BY <1>2, <1>4, <1>5
  DEF DeliveryInv, OneCallbackWorks, Owning, RowsHaveJobs, NotForgotten, Busy

LEMMA RecoverKeeps ==
    ASSUME DeliveryInv, NEW p \in Processes, RecoverDeliveryProcess(p) PROVE DeliveryInv'
<1>1. TypeOK /\ p \notin alive
  BY DEF DeliveryInv, RecoverDeliveryProcess
<1>2. UNCHANGED <<row, job, calls, world, faults>>
  BY DEF RecoverDeliveryProcess
<1>3. phase' = phase /\ alive' = alive
  BY <1>2 DEF world
<1>4. /\ work' \in [Deliveries -> Work]
      /\ \A d \in Deliveries : work'[d] = work[d] \/ work[d].owner = p
  BY <1>1 DEF RecoverDeliveryProcess, TypeOK, Work
<1>5. TypeOK'
  BY <1>1, <1>2, <1>4 DEF TypeOK, world
<1>6. ASSUME NEW x \in calls PROVE Good(x)'
  <2>1. /\ x \in Call /\ Good(x) /\ x.d \in Deliveries /\ x.proc \in alive
        /\ job[x.d].state # "none"
    BY InvOfCall DEF Good, Named
  <2>2. work'[x.d] = work[x.d] \/ ~Owning(x)
    BY <1>1, <1>4, <2>1 DEF Good, AtWork
  <2>3. JobKept(x.d)
    BY <1>1, <1>2, <2>1, JobUnchangedIsKept
  <2>. QED
    BY <1>1, <1>2, <1>3, <1>5, <2>1, <2>2, <2>3, StaysGood
<1>. QED
  BY <1>2, <1>3, <1>5, <1>6
  DEF DeliveryInv, OneCallbackWorks, Owning, RowsHaveJobs, NotForgotten, Busy

(* A step of the hold, of the listing of the sweep or of the deletion.     *)
LEMMA QuietKeeps ==
    ASSUME DeliveryInv, TypeOK', UNCHANGED <<row, job, work, calls, alive>>,
           \/ phase' = phase
           \/ /\ phase # "purged" /\ phase' # "purged"
              /\ phase' \in {"open", "deleting"} \/ \A c \in calls : ~c.guard
    PROVE  DeliveryInv'
<1>1. TypeOK
  BY DEF DeliveryInv
<1>2. ASSUME NEW x \in calls PROVE Good(x)'
  <2>1. /\ x \in Call /\ Good(x) /\ x.d \in Deliveries /\ x.proc \in alive
        /\ job[x.d].state # "none"
    BY InvOfCall DEF Good, Named
  <2>2. JobKept(x.d)
    BY <1>1, <2>1, JobUnchangedIsKept
  <2>. QED
    BY <1>1, <2>1, <2>2, StaysGood
<1>. QED
  BY <1>2 DEF DeliveryInv, OneCallbackWorks, Owning, RowsHaveJobs, NotForgotten, Busy

(* A delivery that is held or dead is scheduled again.                     *)
LEMMA ScheduleKeeps ==
    ASSUME DeliveryInv, NEW a \in Deliveries, NEW r \in Row, r.state = "pending",
           row[a].state \in {"held", "dead"}, ~Busy(a), phase = "open",
           row' = [row EXCEPT ![a] = r], Schedule(a),
           UNCHANGED <<work, calls, alive, hold, phase, holds, faults>>,
           sweep' \subseteq Deliveries, replays' \in 0..MaxReplays
    PROVE  DeliveryInv'
<1>1. TypeOK
  BY DEF DeliveryInv
<1>2. /\ row' \in [Deliveries -> Row] /\ row'[a] = r
      /\ \A d \in Deliveries : d # a => row'[d] = row[d]
  BY <1>1 DEF TypeOK
<1>3. /\ job' \in [Deliveries -> Job] /\ job'[a].state = "pending"
      /\ job'[a].token = job[a].token /\ job[a].token \in Nat
      /\ \A d \in Deliveries : d # a => job'[d] = job[d]
  BY <1>1 DEF TypeOK, Job, Schedule
<1>4. TypeOK'
  BY <1>1, <1>2, <1>3 DEF TypeOK
<1>5. ASSUME NEW x \in calls PROVE Good(x)'
  <2>1. /\ x \in Call /\ Good(x) /\ x.d \in Deliveries /\ x.proc \in alive
        /\ job[x.d].state # "none"
    BY InvOfCall DEF Good, Named
  <2>2. CASE x.d = a
    <3>1. x.pc \notin Writing
      BY <2>1, <2>2 DEF Good, Fresh, RESUMABLE
    <3>2. ~Current(x)
      BY <2>2 DEF Busy, Current
    <3>3. JobKept(x.d)
      BY <1>3, <2>2 DEF JobKept
    <3>. QED
      BY <1>1, <1>4, <2>1, <3>1, <3>2, <3>3, StaysGood
  <2>3. CASE x.d # a
    <3>1. job'[x.d] = job[x.d] /\ job[x.d].token \in Nat
      BY <1>1, <1>3, <2>1, <2>3 DEF TypeOK, Job
    <3>2. JobKept(x.d)
      BY <2>1, <3>1 DEF JobKept
    <3>. QED
      BY <1>1, <1>2, <1>4, <2>1, <2>3, <3>2, StaysGood
  <2>. QED
    BY <2>2, <2>3
<1>6. RowsHaveJobs'
  BY <1>2, <1>3 DEF DeliveryInv, RowsHaveJobs
<1>7. NotForgotten'
  BY <1>2, <1>3 DEF DeliveryInv, NotForgotten, Busy
<1>. QED
  BY <1>4, <1>5, <1>6, <1>7 DEF DeliveryInv, OneCallbackWorks, Owning

LEMMA ReleaseHeldKeeps ==
    ASSUME DeliveryInv, NEW a \in Deliveries, ReleaseHeld(a) PROVE DeliveryInv'
<1>1. TypeOK
  BY DEF DeliveryInv
<1>2. /\ UNCHANGED <<work, calls, alive, hold, phase, replays, holds, faults>>
      /\ sweep' \subseteq Deliveries
  BY <1>1 DEF ReleaseHeld, TypeOK
<1>3. CASE phase = "open" /\ row[a].state = "held" /\ ~Busy(a)
  <2>1. PICK r : r = [row[a] EXCEPT !.state = "pending"]
    OBVIOUS
  <2>2. r \in Row /\ r.state = "pending"
    BY <1>1, <2>1 DEF TypeOK, Row, RESUMABLE
  <2>3. row' = [row EXCEPT ![a] = r] /\ Schedule(a)
    BY <1>1, <1>3, <2>1 DEF ReleaseHeld, TypeOK
  <2>4. replays' \in 0..MaxReplays
    BY <1>1, <1>2 DEF TypeOK
  <2>. QED
    BY <1>2, <1>3, <2>2, <2>3, <2>4, ScheduleKeeps
<1>4. CASE ~(phase = "open" /\ row[a].state = "held" /\ ~Busy(a))
  <2>1. UNCHANGED <<row, job>>
    BY <1>4 DEF ReleaseHeld
  <2>2. TypeOK'
    BY <1>1, <1>2, <2>1 DEF TypeOK
  <2>. QED
    BY <1>2, <2>1, <2>2, QuietKeeps
<1>. QED
  BY <1>3, <1>4

LEMMA ReplayDeliveryKeeps ==
    ASSUME DeliveryInv, NEW a \in Deliveries, ReplayDelivery(a) PROVE DeliveryInv'
<1>1. TypeOK
  BY DEF DeliveryInv
<1>2. PICK r : r = [state |-> "pending", attempts |-> 0]
  OBVIOUS
<1>3. r \in Row /\ r.state = "pending"
  BY <1>2 DEF Row, RESUMABLE
<1>4. /\ row' = [row EXCEPT ![a] = r] /\ Schedule(a)
      /\ row[a].state = "dead" /\ ~Busy(a) /\ phase = "open"
      /\ UNCHANGED <<work, calls, alive, hold, sweep, phase, holds, faults>>
  BY <1>2 DEF ReplayDelivery
<1>5. replays' \in 0..MaxReplays /\ sweep' \subseteq Deliveries
  BY <1>1, <1>4, DeliveryAssumption DEF ReplayDelivery, TypeOK
<1>. QED
  BY <1>3, <1>4, <1>5, ScheduleKeeps

LEMMA PurgeKeeps == ASSUME DeliveryInv, Purge PROVE DeliveryInv'
<1>1. TypeOK
  BY DEF DeliveryInv
<1>2. /\ UNCHANGED <<job, calls, alive, hold, sweep, replays, holds, faults>>
      /\ phase = "sealed" /\ phase' = "purged"
      /\ row' = [d \in Deliveries |-> Absent] /\ work' = [d \in Deliveries |-> NoWork]
      /\ \A d \in Deliveries : work[d].state # "running"
  BY DEF Purge
<1>3. Absent \in Row /\ Absent.state \notin RESUMABLE /\ NoWork \in Work
  BY DeliveryAssumption DEF Absent, Row, RESUMABLE, NoWork, Work
<1>4. TypeOK'
  BY <1>1, <1>2, <1>3 DEF TypeOK, Phases
<1>5. ASSUME NEW x \in calls PROVE Good(x)'
  <2>1. /\ x \in Call /\ Good(x) /\ x.d \in Deliveries /\ x.proc \in alive
        /\ job[x.d].state # "none"
    BY InvOfCall DEF Good, Named
  <2>2. ~Owning(x) /\ x.pc \notin Writing /\ ~x.guard
    BY <1>2, <2>1 DEF Good, AtWork, Guarded, Owning, Writing
  <2>3. JobKept(x.d)
    BY <1>1, <1>2, <2>1, JobUnchangedIsKept
  <2>4. row'[x.d].state \notin RESUMABLE
    BY <1>2, <1>3, <2>1
  <2>. QED
    BY <1>1, <1>2, <1>4, <2>1, <2>2, <2>3, <2>4, StaysGood
<1>6. RowsHaveJobs' /\ NotForgotten'
  BY <1>2, <1>3 DEF RowsHaveJobs, NotForgotten
<1>. QED
  BY <1>2, <1>4, <1>5, <1>6 DEF DeliveryInv, OneCallbackWorks, Owning

LEMMA ProduceKeeps == ASSUME DeliveryInv, Produce PROVE DeliveryInv'
<1>1. TypeOK
  BY DEF DeliveryInv
<1>2. /\ UNCHANGED <<work, calls, world, faults>> /\ phase = "open"
      /\ \A d \in Deliveries : row[d].state = "absent"
      /\ row' = [d \in Deliveries |-> [state |-> "pending", attempts |-> 0]]
      /\ job' = [d \in Deliveries |-> [job[d] EXCEPT !.state = "pending"]]
  BY DEF Produce
<1>3. \A d \in Deliveries : job[d].state = "none"
  BY <1>2 DEF DeliveryInv, RowsHaveJobs
<1>4. calls = {}
  <2>1. \A x \in calls : FALSE
    BY <1>3, InvOfCall
  <2>. QED
    BY <2>1
<1>5. /\ job' \in [Deliveries -> Job] /\ \A d \in Deliveries : job'[d].state = "pending"
  BY <1>1, <1>2 DEF TypeOK, Job
<1>6. row' \in [Deliveries -> Row] /\ \A d \in Deliveries : row'[d].state = "pending"
  BY <1>2 DEF Row, RESUMABLE
<1>7. TypeOK'
  BY <1>1, <1>2, <1>5, <1>6 DEF TypeOK, world
<1>. QED
  BY <1>2, <1>4, <1>5, <1>6, <1>7
  DEF DeliveryInv, OneCallbackWorks, RowsHaveJobs, NotForgotten, Busy

LEMMA HoldAndDeletionKeep ==
    ASSUME DeliveryInv, ChangeHold \/ BeginSweep \/ DeleteProject \/ Seal
    PROVE  DeliveryInv'
<1>1. TypeOK
  BY DEF DeliveryInv
<1>2. CASE ChangeHold
  <2>1. TypeOK'
    BY <1>1, <1>2, DeliveryAssumption DEF TypeOK, ChangeHold
  <2>. QED
    BY <1>2, <2>1, QuietKeeps DEF ChangeHold
<1>3. CASE BeginSweep
  <2>1. TypeOK'
    BY <1>1, <1>3 DEF TypeOK, BeginSweep, Held
  <2>. QED
    BY <1>3, <2>1, QuietKeeps DEF BeginSweep
<1>4. CASE DeleteProject
  <2>1. TypeOK'
    BY <1>1, <1>4 DEF TypeOK, DeleteProject, Phases
  <2>. QED
    BY <1>4, <2>1, QuietKeeps DEF DeleteProject
<1>5. CASE Seal
  <2>1. TypeOK'
    BY <1>1, <1>5 DEF TypeOK, Seal, Phases
  <2>. QED
    BY <1>5, <2>1, QuietKeeps DEF Seal
<1>. QED
  BY <1>2, <1>3, <1>4, <1>5

-----------------------------------------------------------------------------
LEMMA InitIsGood == ASSUME Init PROVE DeliveryInv
<1>0. /\ Absent \in Row /\ NoWork \in Work
      /\ [state |-> "none", attempts |-> 0, token |-> 0] \in Job
  BY DeliveryAssumption DEF Row, Job, Work, Absent, NoWork
<1>1. TypeOK
  <2>1. /\ row \in [Deliveries -> Row] /\ job \in [Deliveries -> Job]
        /\ work \in [Deliveries -> Work]
    BY <1>0 DEF Init
  <2>2. hold \in BOOLEAN
    BY DEF Init
  <2>3. replays \in 0..MaxReplays /\ holds \in 0..MaxHolds /\ faults \in 0..MaxFaults
    BY DeliveryAssumption DEF Init
  <2>4. /\ calls \subseteq Call /\ alive \subseteq Processes
        /\ sweep \subseteq Deliveries /\ phase \in Phases
    BY DEF Init, Phases
  <2>. QED
    BY <2>1, <2>2, <2>3, <2>4 DEF TypeOK
<1>. QED
  BY <1>1 DEF Init, DeliveryInv, OneCallbackWorks, RowsHaveJobs, NotForgotten, Absent, RESUMABLE

LEMMA StepKeeps == ASSUME DeliveryInv, [Next]_vars PROVE DeliveryInv'
<1>1. CASE UNCHANGED vars
  <2>1. TypeOK'
    BY <1>1 DEF DeliveryInv, TypeOK, vars
  <2>. QED
    BY <1>1, <2>1, QuietKeeps DEF vars
<1>2. ASSUME NEW c \in calls, Callback(c) PROVE DeliveryInv'
  BY <1>2, LookKeeps, AdmitKeeps, BeginDeliveryWorkKeeps, InspectKeeps, HoldDeliveryKeeps,
     BeginAttemptKeeps, SettleKeeps, FinishDeliveryWorkKeeps, ReplyKeeps DEF Callback
<1>3. CASE Next
  BY <1>2, <1>3, ProduceKeeps, HoldAndDeletionKeep, PurgeKeeps, ReleaseHeldKeeps,
     ReplayDeliveryKeeps, ClaimKeeps, CrashKeeps, RecoverKeeps, BrokenKeeps, LoseGuardKeeps
  DEF Next
<1>. QED
  BY <1>1, <1>3

(* The parts of the invariant hold throughout.                             *)
THEOREM DeliveryIsGood == Spec => []DeliveryInv
<1>1. Init => DeliveryInv
  BY InitIsGood
<1>2. DeliveryInv /\ [Next]_vars => DeliveryInv'
  BY StepKeeps
<1>. QED
  BY <1>1, <1>2, PTL DEF Spec

(* Rows, jobs, records of work and callbacks keep their types.             *)
THEOREM TypeCorrect == Spec => []TypeOK
<1>1. DeliveryInv => TypeOK
  BY DEF DeliveryInv
<1>. QED
  BY <1>1, DeliveryIsGood, PTL

(* No two callbacks work for a delivery at once, whatever leases lapse and *)
(* whatever processes stop.                                                *)
THEOREM CallbacksTakeTurns == Spec => []OneCallbackWorks
<1>1. DeliveryInv => OneCallbackWorks
  BY DEF DeliveryInv
<1>. QED
  BY <1>1, DeliveryIsGood, PTL

(* A callback writes what follows from the row as it stands.               *)
THEOREM SnapshotsAreFresh == Spec => []SnapshotFresh
<1>1. DeliveryInv => SnapshotFresh
  BY DEF DeliveryInv, Good, Fresh, SnapshotFresh, At, Writing
<1>. QED
  BY <1>1, DeliveryIsGood, PTL

(* The content of a project is purged under no callback.                   *)
THEOREM PurgeIsAlone == Spec => []PurgeFindsNoCallback
<1>1. DeliveryInv => PurgeFindsNoCallback
  BY DEF DeliveryInv, Good, AtWork, PurgeFindsNoCallback
<1>. QED
  BY <1>1, DeliveryIsGood, PTL

(* A delivery to be attempted has a job, unless that job was exhausted.    *)
THEOREM DeliveriesAreRemembered == Spec => []NotForgotten
<1>1. DeliveryInv => NotForgotten
  BY DEF DeliveryInv
<1>. QED
  BY <1>1, DeliveryIsGood, PTL

(* Behind the fence a row changes only by the purge: every writer holds    *)
(* the lock that the seal waits for, or is refused by the trigger.         *)
LEMMA SealFreezes ==
    ASSUME DeliveryInv, [Next]_vars, phase = "sealed"
    PROVE  row' = row \/ phase' = "purged"
<1>1. ASSUME NEW c \in calls PROVE ~Writable(c)
  BY InvOfCall DEF Good, Guarded, Writable
<1>2. ASSUME NEW c \in calls, NEW next, NEW p, Write(c, next, p) PROVE row' = row
  BY <1>1, <1>2 DEF Write
<1>3. ASSUME NEW c \in calls, Callback(c) PROVE row' = row
  BY <1>2, <1>3 DEF Callback, Look, Admit, BeginDeliveryWork, Inspect, HoldDelivery,
     BeginAttempt, Settle, FinishDeliveryWork, Reply
<1>4. ASSUME NEW c \in calls, Broken(c) \/ LoseGuard(c) PROVE row' = row
  BY <1>4 DEF Broken, LoseGuard
<1>5. ASSUME NEW d \in Deliveries,
             ReleaseHeld(d) \/ ReplayDelivery(d) \/ \E p \in Processes : Claim(d, p)
      PROVE  row' = row
  BY <1>5 DEF ReleaseHeld, ReplayDelivery, Claim
<1>6. ASSUME NEW p \in Processes, Crash(p) \/ RecoverDeliveryProcess(p) PROVE row' = row
  BY <1>6 DEF Crash, RecoverDeliveryProcess
<1>7. ASSUME Produce \/ ChangeHold \/ BeginSweep \/ DeleteProject \/ Seal \/ Purge
      PROVE  row' = row \/ phase' = "purged"
  BY <1>7 DEF Produce, ChangeHold, BeginSweep, DeleteProject, Seal, Purge
<1>. QED
  BY <1>3, <1>4, <1>5, <1>6, <1>7 DEF Next, vars

(* What the seal has frozen stays so until the purge, for every number of  *)
(* callbacks that were under way when it came.                             *)
THEOREM SealHolds == Spec => SealedIsFrozen
<1>1. DeliveryInv /\ [Next]_vars => [phase = "sealed" => row' = row \/ phase' = "purged"]_vars
  BY SealFreezes
<1>. QED
  BY <1>1, DeliveryIsGood, PTL DEF Spec, SealedIsFrozen

-----------------------------------------------------------------------------
(* The refinement.  A push is of an attempt that was written before it.    *)
PushesAttempts == \A c \in calls : c.pc = "pushing" => c.snap.state = "delivering"

(* What the write of a callback comes to.                                  *)
LEMMA WriteIs ==
    ASSUME DeliveryInv, NEW c \in calls, c.pc \in Writing,
           NEW next \in Row, NEW p \in Pcs, Write(c, next, p)
    PROVE  /\ \/ /\ phase \in {"open", "deleting"} /\ row' = [row EXCEPT ![c.d] = next]
                 /\ \E e : /\ calls' = (calls \ {c}) \cup {e} /\ e.d = c.d /\ e.pc = p
                           /\ e.snap = IF p = "exiting" THEN Absent ELSE next
              \/ /\ phase \notin {"open", "deleting"} /\ row' = row
                 /\ \E e : calls' = (calls \ {c}) \cup {e} /\ e.pc = "exiting"
           /\ phase' = phase /\ faults' = faults
<1>1. /\ c \in Call /\ Good(c) /\ Absent \in Row
  BY InvOfCall
<1>2. Writable(c) = (phase \in {"open", "deleting"})
  BY <1>1 DEF Writable, Good, Guarded
<1>3. phase' = phase /\ faults' = faults
  BY DEF Write, world
<1>4. CASE Writable(c)
  <2>1. PICK s : s = IF p = "exiting" THEN Absent ELSE next
    OBVIOUS
  <2>2. s \in Row
    BY <1>1, <2>1
  <2>3. PICK e : e = Written(c, p, s, next)
    OBVIOUS
  <2>4. Moved(c, e) /\ e.pc = p /\ e.snap = s
    BY <1>1, <2>2, <2>3, MovedWritten
  <2>5. row' = [row EXCEPT ![c.d] = next] /\ calls' = (calls \ {c}) \cup {e}
    BY <1>4, <2>1, <2>3 DEF Write, Replace, Written
  <2>. QED
    BY <1>2, <1>3, <1>4, <2>1, <2>4, <2>5 DEF Moved
<1>5. CASE ~Writable(c)
  <2>1. PICK e : e = WithSnap(c, "exiting", Absent)
    OBVIOUS
  <2>2. e.pc = "exiting"
    BY <1>1, <2>1, MovedWithSnap DEF Pcs
  <2>3. row' = row /\ calls' = (calls \ {c}) \cup {e}
    BY <1>5, <2>1 DEF Write, Replace, WithSnap
  <2>. QED
    BY <1>2, <1>3, <1>5, <2>2, <2>3
<1>. QED
  BY <1>4, <1>5

(* The three writers: what they write follows from the row as it stands.   *)
LEMMA Writers ==
    ASSUME DeliveryInv, NEW c \in calls
    PROVE  /\ HoldDelivery(c) =>
                 /\ c.pc = "holding" /\ row[c.d].state \in RESUMABLE
                 /\ Write(c, [state |-> "held", attempts |-> row[c.d].attempts], "exiting")
           /\ BeginAttempt(c) =>
                 /\ c.pc = "beginning" /\ row[c.d].state \in RESUMABLE
                 /\ Write(c, [state |-> "delivering", attempts |-> row[c.d].attempts + 1],
                          "pushing")
           /\ Settle(c) =>
                 /\ c.pc = "pushing" /\ row[c.d].state \in RESUMABLE /\ c.snap = row[c.d]
                 /\ \E s \in {"delivered", "dead", "retrying"} :
                       /\ s = "retrying" => row[c.d].attempts < MaxAttempts
                       /\ Write(c, [state |-> s, attempts |-> row[c.d].attempts], "exiting")
<1>1. /\ Good(c) /\ row[c.d] \in Row
      /\ c.pc \in Writing => c.snap = row[c.d] /\ row[c.d].state \in RESUMABLE
  BY InvOfCall DEF Good, Fresh
<1>2. row[c.d] = [state |-> row[c.d].state, attempts |-> row[c.d].attempts]
      /\ row[c.d].attempts \in Nat
  BY <1>1 DEF Row
<1>3. \A s : [row[c.d] EXCEPT !.state = s] = [state |-> s, attempts |-> row[c.d].attempts]
  BY <1>1 DEF Row
<1>4. ASSUME HoldDelivery(c)
      PROVE  /\ c.pc = "holding" /\ row[c.d].state \in RESUMABLE
             /\ Write(c, [state |-> "held", attempts |-> row[c.d].attempts], "exiting")
  BY <1>1, <1>3, <1>4 DEF HoldDelivery, Writing
<1>5. ASSUME BeginAttempt(c)
      PROVE  /\ c.pc = "beginning" /\ row[c.d].state \in RESUMABLE
             /\ Write(c, [state |-> "delivering", attempts |-> row[c.d].attempts + 1], "pushing")
  BY <1>1, <1>5 DEF BeginAttempt, Writing
<1>6. ASSUME Settle(c)
      PROVE  /\ c.pc = "pushing" /\ row[c.d].state \in RESUMABLE /\ c.snap = row[c.d]
             /\ \E s \in {"delivered", "dead", "retrying"} :
                   /\ s = "retrying" => row[c.d].attempts < MaxAttempts
                   /\ Write(c, [state |-> s, attempts |-> row[c.d].attempts], "exiting")
  <2>1. c.pc = "pushing" /\ c.snap = row[c.d] /\ row[c.d].state \in RESUMABLE
    BY <1>1, <1>6 DEF Settle, Writing
  <2>2. PICK next \in {[c.snap EXCEPT !.state = "delivered"],
                       [c.snap EXCEPT !.state = "dead"], MarkFailed(c.snap)} :
          Write(c, next, "exiting")
    BY <1>6 DEF Settle
  <2>3. \E s \in {"delivered", "dead", "retrying"} :
           /\ s = "retrying" => row[c.d].attempts < MaxAttempts
           /\ next = [state |-> s, attempts |-> row[c.d].attempts]
    <3>1. CASE next = MarkFailed(c.snap) /\ row[c.d].attempts < MaxAttempts
      BY <1>2, <1>3, <2>1, <3>1, DeliveryAssumption DEF MarkFailed
    <3>2. CASE next = MarkFailed(c.snap) /\ ~(row[c.d].attempts < MaxAttempts)
      BY <1>2, <1>3, <2>1, <3>2, DeliveryAssumption DEF MarkFailed
    <3>. QED
      BY <1>3, <2>1, <2>2, <3>1, <3>2
  <2>. QED
    BY <2>1, <2>2, <2>3
<1>. QED
  BY <1>4, <1>5, <1>6

(* The steps of a callback that write nothing: none of them begins a push, *)
(* and one that is under way ends without its outcome by a fault only.     *)
LEMMA QuietCallback ==
    ASSUME DeliveryInv, NEW c \in calls,
           \/ Look(c) \/ Admit(c) \/ BeginDeliveryWork(c) \/ Inspect(c)
           \/ FinishDeliveryWork(c) \/ Reply(c) \/ Broken(c) \/ LoseGuard(c)
    PROVE  /\ row' = row /\ phase' = phase
           /\ faults' = faults \/ Fault
           /\ \A x \in calls : x # c => x \in calls'
           /\ \A e \in calls' : e.pc = "pushing" =>
                 e \in calls \/ (c.pc = "pushing" /\ e.snap = c.snap)
           /\ c.pc = "pushing" => Fault
<1>1. c \in Call /\ c.snap \in Row /\ row[c.d] \in Row /\ Absent \in Row
  BY InvOfCall
<1>2. row' = row /\ phase' = phase
  BY DEF Look, Admit, BeginDeliveryWork, Inspect, FinishDeliveryWork, Reply, Broken,
     LoseGuard, world
<1>3. (faults' = faults \/ Fault) /\ (c.pc = "pushing" => Fault)
  BY DEF Look, Admit, BeginDeliveryWork, Inspect, FinishDeliveryWork, Reply, Broken,
     LoseGuard, Owning
<1>4. \A x \in calls : x # c => x \in calls'
  BY DEF Look, Admit, BeginDeliveryWork, Inspect, FinishDeliveryWork, Reply, Broken,
     LoseGuard, Owning, Replace
<1>5. ASSUME Look(c) PROVE \E e : Replace(c, e) /\ e.pc # "pushing"
  <2>. DEFINE e1 == [c EXCEPT !.pc = "seen"]
              e2 == [c EXCEPT !.pc = "replying", !.ok = TRUE]
  <2>1. e1.pc # "pushing" /\ e2.pc # "pushing"
    BY <1>1 DEF Call
  <2>2. Replace(c, e1) \/ Replace(c, e2)
    BY <1>5 DEF Look
  <2>. HIDE DEF e1, e2
  <2>. QED
    BY <2>1, <2>2
<1>6. ASSUME Admit(c) PROVE \E e : Replace(c, e) /\ e.pc # "pushing"
  <2>. DEFINE e1 == [c EXCEPT !.pc = "admitted", !.guard = TRUE]
              e2 == [c EXCEPT !.pc = "replying"]
  <2>1. e1.pc # "pushing" /\ e2.pc # "pushing"
    BY <1>1 DEF Call
  <2>2. Replace(c, e1) \/ Replace(c, e2)
    BY <1>6 DEF Admit
  <2>. HIDE DEF e1, e2
  <2>. QED
    BY <2>1, <2>2
<1>7. ASSUME BeginDeliveryWork(c) PROVE \E e : Replace(c, e) /\ e.pc # "pushing"
  <2>. DEFINE e1 == [c EXCEPT !.pc = "working",
                           !.generation = work[c.d].generation + 1]
              e2 == [c EXCEPT !.pc = "replying", !.guard = FALSE]
  <2>1. e1.pc # "pushing" /\ e2.pc # "pushing"
    BY <1>1 DEF Call
  <2>2. Replace(c, e1) \/ Replace(c, e2)
    BY <1>7 DEF BeginDeliveryWork
  <2>. HIDE DEF e1, e2
  <2>. QED
    BY <2>1, <2>2
<1>8. ASSUME Inspect(c) PROVE \E e : Replace(c, e) /\ e.pc # "pushing"
  <2>. DEFINE e1 == [c EXCEPT !.pc = "exiting", !.ok = TRUE]
              e2 == [c EXCEPT !.pc = IF hold THEN "holding" ELSE "beginning",
                           !.snap = row[c.d]]
  <2>1. e1.pc # "pushing" /\ e2.pc # "pushing"
    BY <1>1 DEF Call
  <2>2. Replace(c, e1) \/ Replace(c, e2)
    BY <1>8 DEF Inspect
  <2>. HIDE DEF e1, e2
  <2>. QED
    BY <2>1, <2>2
<1>9. ASSUME FinishDeliveryWork(c) PROVE \E e : Replace(c, e) /\ e.pc # "pushing"
  <2>. DEFINE e1 == AsFinished(c)
              e2 == AsUnfinished(c)
  <2>1. e1.pc # "pushing" /\ e2.pc # "pushing"
    BY <1>1 DEF Call, AsFinished, AsUnfinished
  <2>2. Replace(c, e1) \/ Replace(c, e2)
    BY <1>9 DEF FinishDeliveryWork, AsFinished, AsUnfinished
  <2>. HIDE DEF e1, e2
  <2>. QED
    BY <2>1, <2>2
<1>10. ASSUME Broken(c) PROVE \E e : Replace(c, e) /\ e.pc # "pushing"
  <2>. DEFINE e1 == WithSnap(c, "exiting", Absent)
  <2>1. e1.pc # "pushing"
    BY <1>1 DEF Call, WithSnap
  <2>2. Replace(c, e1)
    BY <1>10 DEF Broken, WithSnap
  <2>. HIDE DEF e1
  <2>. QED
    BY <2>1, <2>2
<1>11. ASSUME LoseGuard(c) PROVE \E e : Replace(c, e) /\ e.pc = c.pc /\ e.snap = c.snap
  <2>1. PICK e : e = Unguarded(c)
    OBVIOUS
  <2>2. e.pc = c.pc /\ e.snap = c.snap
    BY <1>1, <2>1, MovedUnguarded
  <2>3. Replace(c, e)
    BY <1>11, <2>1 DEF LoseGuard, Unguarded
  <2>. QED
    BY <2>2, <2>3
<1>12. \A e \in calls' : e.pc = "pushing" =>
           e \in calls \/ (c.pc = "pushing" /\ e.snap = c.snap)
  <2>1. Reply(c) => calls' \subseteq calls
    BY DEF Reply
  <2>2. \/ calls' \subseteq calls
        \/ \E e : /\ calls' = (calls \ {c}) \cup {e}
                  /\ e.pc = "pushing" => e.pc = c.pc /\ e.snap = c.snap
    BY <1>5, <1>6, <1>7, <1>8, <1>9, <1>10, <1>11, <2>1 DEF Replace
  <2>. QED
    BY <2>2
<1>. QED
  BY <1>2, <1>3, <1>4, <1>12

LEMMA ProcessSteps ==
    ASSUME NEW p \in Processes, Crash(p) \/ RecoverDeliveryProcess(p)
    PROVE  /\ row' = row /\ phase' = phase /\ calls' \subseteq calls
           /\ Fault \/ (calls' = calls /\ faults' = faults)
  BY DEF Crash, RecoverDeliveryProcess, world

LEMMA ClaimSteps ==
    ASSUME NEW d \in Deliveries, NEW p \in Processes, Claim(d, p)
    PROVE  /\ row' = row /\ phase' = phase /\ calls \subseteq calls'
           /\ faults' = faults \/ Fault
           /\ \A e \in calls' : e.pc = "pushing" => e \in calls
  BY DEF Claim, world

LEMMA PushesStay ==
    ASSUME DeliveryInv, PushesAttempts, [Next]_vars
    PROVE  PushesAttempts'
<1>1. ASSUME NEW c \in calls, HoldDelivery(c) \/ BeginAttempt(c) \/ Settle(c)
      PROVE  PushesAttempts'
  <2>1. row[c.d] \in Row /\ c.d \in Deliveries
    BY InvOfCall
  <2>2. PICK n \in {row[c.d].attempts, row[c.d].attempts + 1},
             s \in {"held", "delivering", "delivered", "dead", "retrying"},
             p \in {"exiting", "pushing"} :
          /\ Write(c, [state |-> s, attempts |-> n], p)
          /\ p = "pushing" => s = "delivering"
          /\ c.pc \in Writing
    BY <1>1, Writers DEF Writing
  <2>3. PICK next : next = [state |-> s, attempts |-> n]
    OBVIOUS
  <2>4. next \in Row /\ next.state = s
    BY <2>1, <2>3 DEF Row, RESUMABLE, Final
  <2>5. \E e : /\ calls' = (calls \ {c}) \cup {e}
               /\ e.pc = "pushing" => e.snap.state = "delivering"
    <3>1. p \in Pcs
      BY DEF Pcs
    <3>2. \/ \E e : /\ calls' = (calls \ {c}) \cup {e} /\ e.pc = p
                    /\ e.snap = IF p = "exiting" THEN Absent ELSE next
          \/ \E e : calls' = (calls \ {c}) \cup {e} /\ e.pc = "exiting"
      BY <2>2, <2>3, <2>4, <3>1, WriteIs
    <3>. QED
      BY <2>2, <2>4, <3>2
  <2>. QED
    BY <2>5 DEF PushesAttempts
<1>2. ASSUME NEW c \in calls, Callback(c) \/ Broken(c) \/ LoseGuard(c) PROVE PushesAttempts'
  <2>1. CASE \/ Look(c) \/ Admit(c) \/ BeginDeliveryWork(c) \/ Inspect(c)
             \/ FinishDeliveryWork(c) \/ Reply(c) \/ Broken(c) \/ LoseGuard(c)
    BY <2>1, QuietCallback DEF PushesAttempts
  <2>. QED
    BY <1>1, <1>2, <2>1 DEF Callback
<1>3. ASSUME NEW p \in Processes, Crash(p) \/ RecoverDeliveryProcess(p) PROVE PushesAttempts'
  BY <1>3, ProcessSteps DEF PushesAttempts
<1>4. ASSUME NEW d \in Deliveries, NEW p \in Processes, Claim(d, p) PROVE PushesAttempts'
  BY <1>4, ClaimSteps DEF PushesAttempts
<1>5. ASSUME NEW d \in Deliveries, ReleaseHeld(d) \/ ReplayDelivery(d) PROVE calls' = calls
  BY <1>5 DEF ReleaseHeld, ReplayDelivery
<1>6. ASSUME Produce \/ ChangeHold \/ BeginSweep \/ DeleteProject \/ Seal \/ Purge
      PROVE  calls' = calls
  BY <1>6 DEF Produce, ChangeHold, BeginSweep, DeleteProject, Seal, Purge
<1>. QED
  BY <1>2, <1>3, <1>4, <1>5, <1>6 DEF Next, vars, PushesAttempts

(* Every step is one of the life of a delivery, or none.                   *)
LEMMA StepLives ==
    ASSUME DeliveryInv, PushesAttempts, [Next]_vars
    PROVE  [Life!ANext]_(Life!lvars)
<1>1. TypeOK /\ \A d \in Deliveries : row[d] \in Row
  BY DEF DeliveryInv, TypeOK
<1>2. ASSUME NEW c \in calls, HoldDelivery(c)
      PROVE  Life!Hold(c.d) \/ UNCHANGED Life!lvars
  <2>1. /\ c.d \in Deliveries /\ c.pc \in Writing /\ row[c.d].state \in RESUMABLE
        /\ Write(c, [state |-> "held", attempts |-> row[c.d].attempts], "exiting")
    BY <1>2, Writers, InvOfCall DEF Writing
  <2>2. [state |-> "held", attempts |-> row[c.d].attempts] \in Row /\ "exiting" \in Pcs
    BY <1>1, <2>1 DEF Row, Final, Pcs
  <2>3. /\ phase' = phase
        /\ \/ /\ phase \in {"open", "deleting"}
              /\ row' = [row EXCEPT ![c.d] = [state |-> "held", attempts |-> row[c.d].attempts]]
           \/ row' = row
    BY <2>1, <2>2, WriteIs
  <2>. QED
    BY <2>1, <2>3
    DEF Life!Hold, Life!Unsealed, Life!Attemptable, Life!Becomes, Life!lvars, RESUMABLE
<1>3. ASSUME NEW c \in calls, BeginAttempt(c)
      PROVE  Life!Attempt(c.d) \/ UNCHANGED Life!lvars
  <2>1. /\ c.d \in Deliveries /\ c.pc \in Writing /\ row[c.d].state \in RESUMABLE
        /\ Write(c, [state |-> "delivering", attempts |-> row[c.d].attempts + 1], "pushing")
    BY <1>3, Writers, InvOfCall DEF Writing
  <2>2. [state |-> "delivering", attempts |-> row[c.d].attempts + 1] \in Row /\ "pushing" \in Pcs
    BY <1>1, <2>1 DEF Row, RESUMABLE, Pcs
  <2>3. /\ phase' = phase
        /\ \/ /\ phase \in {"open", "deleting"}
              /\ row' = [row EXCEPT ![c.d] =
                           [state |-> "delivering", attempts |-> row[c.d].attempts + 1]]
           \/ row' = row
    BY <2>1, <2>2, WriteIs
  <2>. QED
    BY <2>1, <2>3
    DEF Life!Attempt, Life!Unsealed, Life!Attemptable, Life!Becomes, Life!lvars, RESUMABLE
<1>4. ASSUME NEW c \in calls, Settle(c)
      PROVE  Life!Outcome(c.d) \/ UNCHANGED Life!lvars
  <2>1. /\ c.d \in Deliveries /\ c.pc \in Writing /\ row[c.d].state = "delivering"
    BY <1>4, Writers, InvOfCall DEF Writing, PushesAttempts
  <2>2. PICK s \in {"delivered", "dead", "retrying"} :
           /\ s = "retrying" => row[c.d].attempts < MaxAttempts
           /\ Write(c, [state |-> s, attempts |-> row[c.d].attempts], "exiting")
    BY <1>4, Writers
  <2>3. [state |-> s, attempts |-> row[c.d].attempts] \in Row /\ "exiting" \in Pcs
    BY <1>1, <2>1 DEF Row, RESUMABLE, Final, Pcs
  <2>4. /\ phase' = phase
        /\ \/ /\ phase \in {"open", "deleting"}
              /\ row' = [row EXCEPT ![c.d] = [state |-> s, attempts |-> row[c.d].attempts]]
           \/ row' = row
    BY <2>1, <2>2, <2>3, WriteIs
  <2>. QED
    BY <2>1, <2>2, <2>4 DEF Life!Outcome, Life!Unsealed, Life!Becomes, Life!lvars
<1>5. ASSUME NEW d \in Deliveries, ReleaseHeld(d)
      PROVE  Life!Release(d) \/ UNCHANGED Life!lvars
  <2>1. CASE phase = "open" /\ row[d].state = "held" /\ ~Busy(d)
    <3>1. row' = [row EXCEPT ![d] = [row[d] EXCEPT !.state = "pending"]] /\ phase' = phase
      BY <1>1, <1>5, <2>1 DEF ReleaseHeld, TypeOK
    <3>2. [row[d] EXCEPT !.state = "pending"] = [state |-> "pending", attempts |-> row[d].attempts]
      BY <1>1 DEF Row
    <3>. QED
      BY <2>1, <3>1, <3>2 DEF Life!Release, Life!Open, Life!Becomes
  <2>. QED
    BY <1>5, <2>1 DEF ReleaseHeld, Life!lvars
<1>6. ASSUME NEW d \in Deliveries, ReplayDelivery(d) PROVE Life!Replay(d)
  BY <1>6 DEF ReplayDelivery, Life!Replay, Life!Open, Life!Becomes
<1>7. ASSUME Produce PROVE Life!Accept
  BY <1>7 DEF Produce, world, Life!Accept, Life!Open, Life!New
<1>8. ASSUME Purge PROVE Life!Purge
  BY <1>8 DEF Purge, Life!Purge, Life!Nothing, Absent
<1>9. ASSUME DeleteProject PROVE Life!Delete
  BY <1>9 DEF DeleteProject, Life!Delete, Life!Open
<1>10. ASSUME Seal PROVE Life!Seal
  BY <1>10 DEF Seal, Life!Seal
<1>11. ASSUME ChangeHold \/ BeginSweep \/ UNCHANGED vars PROVE UNCHANGED Life!lvars
  BY <1>11 DEF ChangeHold, BeginSweep, vars, Life!lvars
<1>12. ASSUME NEW d \in Deliveries, NEW p \in Processes, Claim(d, p)
       PROVE  UNCHANGED Life!lvars
  BY <1>12, ClaimSteps DEF Life!lvars
<1>13. ASSUME NEW p \in Processes, Crash(p) \/ RecoverDeliveryProcess(p)
       PROVE  UNCHANGED Life!lvars
  BY <1>13, ProcessSteps DEF Life!lvars
<1>14. ASSUME NEW c \in calls, Callback(c) \/ Broken(c) \/ LoseGuard(c)
       PROVE  Life!ANext \/ UNCHANGED Life!lvars
  <2>1. CASE \/ Look(c) \/ Admit(c) \/ BeginDeliveryWork(c) \/ Inspect(c)
             \/ FinishDeliveryWork(c) \/ Reply(c) \/ Broken(c) \/ LoseGuard(c)
    BY <2>1, QuietCallback DEF Life!lvars
  <2>2. c.d \in Deliveries
    BY InvOfCall
  <2>. QED
    BY <1>2, <1>3, <1>4, <1>14, <2>1, <2>2 DEF Callback, Life!ANext
<1>. QED
  BY <1>5, <1>6, <1>7, <1>8, <1>9, <1>10, <1>11, <1>12, <1>13, <1>14 DEF Next, Life!ANext

(* However leases lapse, callbacks outlive their locks and processes stop, *)
(* a delivery's row goes through the table of domain/delivery.ts: nothing  *)
(* is skipped, repeated or overwritten by what somebody read before.       *)
THEOREM DeliveriesLive == Spec => LivesALife
<1>1. Init => Life!AInit /\ PushesAttempts
  BY DEF Init, Life!AInit, Life!Nothing, Absent, PushesAttempts
<1>2. DeliveryInv /\ PushesAttempts /\ [Next]_vars => PushesAttempts'
  BY PushesStay
<1>3. DeliveryInv /\ PushesAttempts /\ [Next]_vars => [Life!ANext]_(Life!lvars)
  BY StepLives
<1>. QED
  BY <1>1, <1>2, <1>3, DeliveryIsGood, PTL DEF Spec, LivesALife, Life!ASpec

-----------------------------------------------------------------------------
(* The accounting of attempts.  A delivery that may be attempted once more *)
(* has room for it, or a fault has taken the outcome of an attempt.        *)
Pushed(d) == \E c \in calls : c.pc = "pushing" /\ c.d = d

Paid(d) ==
    /\ row[d].attempts <= MaxAttempts + faults
    /\ phase \in {"open", "deleting"} /\ row[d].state \in RESUMABLE \cup {"held"} /\ ~Pushed(d)
          => row[d].attempts < MaxAttempts + faults

AllPaid == \A d \in Deliveries : Paid(d)

LEMMA Counted ==
    ASSUME DeliveryInv
    PROVE  /\ faults \in Nat /\ MaxAttempts \in Nat \ {0}
           /\ \A d \in Deliveries : row[d].attempts \in Nat
  BY DeliveryAssumption DEF DeliveryInv, TypeOK, Row

(* A fault pays for the outcome it takes; without one no push may vanish.  *)
LEMMA StillPaid ==
    ASSUME DeliveryInv, NEW d \in Deliveries, Paid(d), row'[d] = row[d],
           Fault \/ (/\ faults' = faults
                     /\ phase' \in {"open", "deleting"} => phase \in {"open", "deleting"}
                     /\ Pushed(d) => Pushed(d)')
    PROVE  Paid(d)'
<1>1. /\ faults \in Nat /\ MaxAttempts \in Nat \ {0} /\ row[d].attempts \in Nat
  BY Counted
<1>2. CASE Fault
  BY <1>1, <1>2 DEF Paid, Fault
<1>3. CASE /\ faults' = faults
           /\ phase' \in {"open", "deleting"} => phase \in {"open", "deleting"}
           /\ Pushed(d) => Pushed(d)'
  BY <1>3 DEF Paid
<1>. QED
  BY <1>2, <1>3

(* A callback that writes leaves the other deliveries' pushes alone.       *)
LEMMA WritePays ==
    ASSUME DeliveryInv, NEW c \in calls, c.pc \in Writing, \A d \in Deliveries : Paid(d),
           NEW s, NEW n \in Nat, NEW p \in {"exiting", "pushing"},
           [state |-> s, attempts |-> n] \in Row,
           Write(c, [state |-> s, attempts |-> n], p),
           phase \in {"open", "deleting"} =>
              /\ n <= MaxAttempts + faults
              /\ p = "exiting" /\ s \in RESUMABLE \cup {"held"} => n < MaxAttempts + faults
    PROVE  \A d \in Deliveries : Paid(d)'
<1>. DEFINE next == [state |-> s, attempts |-> n]
<1>1. c.d \in Deliveries /\ p \in Pcs /\ TypeOK
  BY InvOfCall DEF Pcs
<1>2. next \in Row /\ next.state = s /\ next.attempts = n /\ Write(c, next, p)
  OBVIOUS
<1>. HIDE DEF next
<1>3. /\ \/ /\ phase \in {"open", "deleting"} /\ row' = [row EXCEPT ![c.d] = next]
            /\ \E e : calls' = (calls \ {c}) \cup {e} /\ e.d = c.d /\ e.pc = p
         \/ /\ phase \notin {"open", "deleting"} /\ row' = row
            /\ \E e : calls' = (calls \ {c}) \cup {e} /\ e.pc = "exiting"
      /\ phase' = phase /\ faults' = faults
  BY <1>1, <1>2, WriteIs
<1>4. \A x \in calls : x # c => x \in calls'
  BY <1>3
<1>5. ASSUME NEW d \in Deliveries, d # c.d PROVE Paid(d)'
  <2>1. Pushed(d) => Pushed(d)'
    BY <1>4, <1>5 DEF Pushed
  <2>2. row'[d] = row[d]
    BY <1>1, <1>3, <1>5 DEF TypeOK
  <2>. QED
    BY <1>3, <2>1, <2>2, StillPaid
<1>6. Paid(c.d)'
  <2>1. CASE phase \in {"open", "deleting"}
    <3>1. row'[c.d] = next
      BY <1>1, <1>3, <2>1 DEF TypeOK
    <3>2. p = "pushing" => Pushed(c.d)'
      BY <1>3, <2>1 DEF Pushed
    <3>. QED
      BY <1>2, <1>3, <2>1, <3>1, <3>2 DEF Paid
  <2>2. CASE phase \notin {"open", "deleting"}
    BY <1>1, <1>3, <2>2 DEF Paid
  <2>. QED
    BY <2>1, <2>2
<1>. QED
  BY <1>5, <1>6

LEMMA StepPays ==
    ASSUME DeliveryInv, \A d \in Deliveries : Paid(d), [Next]_vars
    PROVE  \A d \in Deliveries : Paid(d)'
<1>1. /\ TypeOK /\ faults \in Nat /\ MaxAttempts \in Nat \ {0}
      /\ \A d \in Deliveries : row[d] \in Row /\ row[d].attempts \in Nat
  BY Counted DEF DeliveryInv, TypeOK
<1>2. ASSUME NEW c \in calls, HoldDelivery(c) \/ BeginAttempt(c) \/ Settle(c)
      PROVE  \A d \in Deliveries : Paid(d)'
  <2>1. c.d \in Deliveries /\ c \in Call
    BY InvOfCall
  <2>2. c.pc # "pushing" /\ c.pc \in Writing => ~Pushed(c.d)
    BY DEF DeliveryInv, OneCallbackWorks, Pushed, Owning, Writing
  <2>3. PICK n : n = row[c.d].attempts
    OBVIOUS
  <2>4. n \in Nat /\ Paid(c.d) /\ n + 1 \in Nat
    BY <1>1, <2>1, <2>3
  <2>5. CASE HoldDelivery(c)
    <3>1. /\ c.pc = "holding" /\ row[c.d].state \in RESUMABLE
          /\ Write(c, [state |-> "held", attempts |-> n], "exiting")
      BY <2>3, <2>5, Writers
    <3>2. [state |-> "held", attempts |-> n] \in Row /\ c.pc \in Writing /\ c.pc # "pushing"
      BY <2>4, <3>1 DEF Row, Final, Writing
    <3>3. phase \in {"open", "deleting"} => n < MaxAttempts + faults
      BY <2>2, <2>3, <2>4, <3>1, <3>2 DEF Paid
    <3>. QED
      BY <1>1, <2>4, <3>1, <3>2, <3>3, WritePays
  <2>6. CASE BeginAttempt(c)
    <3>1. /\ c.pc = "beginning" /\ row[c.d].state \in RESUMABLE
          /\ Write(c, [state |-> "delivering", attempts |-> n + 1], "pushing")
      BY <2>3, <2>6, Writers
    <3>2. [state |-> "delivering", attempts |-> n + 1] \in Row /\ c.pc \in Writing /\ c.pc # "pushing"
      BY <2>4, <3>1 DEF Row, RESUMABLE, Writing
    <3>3. phase \in {"open", "deleting"} => n + 1 <= MaxAttempts + faults
      BY <1>1, <2>2, <2>3, <2>4, <3>1, <3>2 DEF Paid
    <3>. QED
      BY <1>1, <2>4, <3>1, <3>2, <3>3, WritePays
  <2>7. CASE Settle(c)
    <3>1. c.pc = "pushing" /\ c.pc \in Writing
      BY <2>7, Writers DEF Writing
    <3>2. PICK s \in {"delivered", "dead", "retrying"} :
             /\ s = "retrying" => n < MaxAttempts
             /\ Write(c, [state |-> s, attempts |-> n], "exiting")
      BY <2>3, <2>7, Writers
    <3>3. [state |-> s, attempts |-> n] \in Row
      BY <2>4, <3>2 DEF Row, RESUMABLE, Final
    <3>4. n <= MaxAttempts + faults
      BY <2>3, <2>4 DEF Paid
    <3>5. s \in RESUMABLE \cup {"held"} => n < MaxAttempts + faults
      BY <1>1, <2>4, <3>2 DEF RESUMABLE
    <3>. QED
      BY <1>1, <2>4, <3>1, <3>2, <3>3, <3>4, <3>5, WritePays
  <2>. QED
    BY <1>2, <2>5, <2>6, <2>7
<1>3. ASSUME NEW c \in calls, Callback(c) \/ Broken(c) \/ LoseGuard(c)
      PROVE  \A d \in Deliveries : Paid(d)'
  <2>1. CASE \/ Look(c) \/ Admit(c) \/ BeginDeliveryWork(c) \/ Inspect(c)
             \/ FinishDeliveryWork(c) \/ Reply(c) \/ Broken(c) \/ LoseGuard(c)
    <3>1. /\ row' = row /\ phase' = phase /\ (faults' = faults \/ Fault)
          /\ \A x \in calls : x # c => x \in calls'
          /\ c.pc = "pushing" => Fault
      BY <2>1, QuietCallback
    <3>2. ASSUME NEW d \in Deliveries PROVE Fault \/ (Pushed(d) => Pushed(d)')
      BY <3>1 DEF Pushed
    <3>. QED
      BY <3>1, <3>2, StillPaid
  <2>. QED
    BY <1>2, <1>3, <2>1 DEF Callback
<1>4. ASSUME NEW p \in Processes, Crash(p) \/ RecoverDeliveryProcess(p)
      PROVE  \A d \in Deliveries : Paid(d)'
  <2>1. /\ row' = row /\ phase' = phase
        /\ Fault \/ (calls' = calls /\ faults' = faults)
    BY <1>4, ProcessSteps
  <2>2. \A d \in Deliveries : Fault \/ (Pushed(d) => Pushed(d)')
    BY <2>1 DEF Pushed
  <2>. QED
    BY <2>1, <2>2, StillPaid
<1>5. ASSUME NEW a \in Deliveries, NEW p \in Processes, Claim(a, p)
      PROVE  \A d \in Deliveries : Paid(d)'
  <2>1. row' = row /\ phase' = phase /\ calls \subseteq calls' /\ (faults' = faults \/ Fault)
    BY <1>5, ClaimSteps
  <2>2. \A d \in Deliveries : Pushed(d) => Pushed(d)'
    BY <2>1 DEF Pushed
  <2>. QED
    BY <2>1, <2>2, StillPaid
<1>6. ASSUME NEW a \in Deliveries, ReleaseHeld(a) \/ ReplayDelivery(a), NEW d \in Deliveries
      PROVE  Paid(d)'
  <2>1. calls' = calls /\ phase' = phase /\ faults' = faults
    BY <1>6 DEF ReleaseHeld, ReplayDelivery
  <2>2. Pushed(d)' = Pushed(d)
    BY <2>1 DEF Pushed
  <2>3. CASE row'[d] = row[d]
    BY <2>1, <2>2, <2>3, StillPaid
  <2>4. CASE row'[d] # row[d]
    <3>1. d = a
      BY <1>1, <1>6, <2>4 DEF ReleaseHeld, ReplayDelivery, TypeOK
    <3>2. \/ row[d].state = "held" /\ row'[d].attempts = row[d].attempts
          \/ row'[d].attempts = 0
      BY <1>1, <1>6, <2>4, <3>1 DEF ReleaseHeld, ReplayDelivery, TypeOK, Row
    <3>. QED
      BY <1>1, <2>1, <2>2, <3>2 DEF Paid
  <2>. QED
    BY <2>3, <2>4
<1>7. ASSUME Produce \/ Purge, NEW d \in Deliveries PROVE Paid(d)'
  <2>1. row'[d].attempts = 0 /\ faults' = faults
    BY <1>7 DEF Produce, Purge, Absent
  <2>. QED
    BY <1>1, <2>1 DEF Paid
<1>8. ASSUME ChangeHold \/ BeginSweep \/ DeleteProject \/ Seal \/ UNCHANGED vars,
             NEW d \in Deliveries
      PROVE  Paid(d)'
  <2>1. /\ row' = row /\ calls' = calls /\ faults' = faults
        /\ phase' \in {"open", "deleting"} => phase \in {"open", "deleting"}
    BY <1>8 DEF ChangeHold, BeginSweep, DeleteProject, Seal, vars
  <2>2. Pushed(d)' = Pushed(d)
    BY <2>1 DEF Pushed
  <2>. QED
    BY <2>1, <2>2, StillPaid
<1>. QED
  BY <1>3, <1>4, <1>5, <1>6, <1>7, <1>8 DEF Next

(* beginAttempt counts and never refuses: what keeps the pushes of a       *)
(* delivery bounded is that markFailed looks at the count of every attempt *)
(* that has an outcome, and the others each cost a fault.                  *)
THEOREM PushesAreBounded == Spec => []PushesBounded
<1>1. Init => AllPaid
  BY DeliveryAssumption DEF Init, AllPaid, Paid, Absent, RESUMABLE
<1>2. DeliveryInv /\ AllPaid /\ [Next]_vars => AllPaid'
  BY StepPays DEF AllPaid
<1>3. AllPaid => PushesBounded
  BY DEF AllPaid, Paid, PushesBounded
<1>. QED
  BY <1>1, <1>2, <1>3, DeliveryIsGood, PTL DEF Spec
=============================================================================
